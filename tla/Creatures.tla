----------------------------- MODULE Creatures -----------------------------
(****************************************************************************)
(* Static creatures, the bodies of players and the ground they share: the   *)
(* static_creatures, players and player_interactions of WorldState          *)
(* (world_static.rs, world_movement.rs, world_lifecycle.rs of               *)
(* forgotten-core), the passes of the heartbeat thread over them            *)
(* (heartbeat.rs, world_static_creatures.rs of forgotten-host), what a      *)
(* session does to them, and the rows from which a restart builds them.     *)
(*                                                                          *)
(* Every pass of the heartbeat takes the world mutex once and handles the   *)
(* creatures, or the players, one after the other in the order of their     *)
(* ids.  It is modelled creature by creature, with the mutex held, so a     *)
(* session acts between two passes but not inside one.                      *)
(*                                                                          *)
(* Ticks are kept as what is left of them: a due tick is its distance from  *)
(* the present tick.  One floor is modelled.  The health of a player is not *)
(* kept: every hit on it may be the lethal one.                             *)
(****************************************************************************)
EXTENDS Integers, FiniteSets

CONSTANTS Players,      \* character ids
          Imported,     \* ids of the creatures of the imported map
          Summons,      \* dynamic ids, and the bound on operator summons
          Kind,         \* the imported creature each summon is a clone of
          Npcs,         \* the imported creatures that are NPCs
          Tiles,        \* walkable positions, pairs of coordinates
          Rock,         \* positions that are not walkable
          SpawnTile,    \* spawn_position of the imported creatures
          SpawnArea,    \* their monster_spawn_area, as the positions in it
          Interval,     \* respawn_interval_seconds, 0 if there is none
          Cooldown,     \* melee_cooldown_ticks, 0 if there is none
          FullHealth,   \* their imported health, in hits
          Range,        \* max_range of the target policies
          Homeless,     \* players whose town has no temple
          MaxElapsed,   \* bound: seconds the heartbeat finds elapsed
          MaxHits,      \* bound: how often players hit creatures
          MaxSaves,     \* bound: how often the heartbeat saves by itself
          MaxRestarts   \* bound: how often the server stops

Ground == Tiles \cup Rock
Monsters == Imported \cup Summons

(* Ids of players and creatures are disjoint in the protocol, summons get   *)
(* ids above every imported one.  That the imported spawns are on different *)
(* tiles is not checked by the import: two on one tile would share it.      *)
ASSUME CreaturesAssumption ==
    /\ Players \subseteq Nat \ {0}
    /\ Imported \subseteq Nat \ {0}
    /\ Summons \subseteq Nat \ {0}
    /\ Players \cap Monsters = {}
    /\ \A c \in Imported, s \in Summons : c < s
    /\ Kind \in [Summons -> Imported]
    /\ Ground \subseteq Int \X Int
    /\ SpawnTile \in [Imported -> Ground]
    /\ \A c, d \in Imported : SpawnTile[c] = SpawnTile[d] => c = d
    /\ SpawnArea \in [Imported -> SUBSET Ground]
    /\ {Interval, Cooldown, FullHealth} \subseteq [Imported -> Nat]
    /\ {Range, MaxElapsed, MaxHits, MaxSaves, MaxRestarts} \subseteq Nat

VARIABLES
    creatures,  \* WorldState.static_creatures
    occupied,   \* WorldState.static_occupied_positions
    players,    \* the positions of WorldState.players
    dead,       \* the players whose respawn state says dead
    hunts,      \* target_static_creature_id of the players' intents
    follows,    \* follow_player_id of the players' intents
    struck,     \* the players that cannot hit again in this tick
    beat,       \* what the heartbeat thread is doing
    saves,      \* what each saving thread is going to store
    rows,       \* the static creature rows of the database
    server,     \* up, down, or refused to start
    spent       \* how often the bounded operations happened

world == <<creatures, occupied, players, dead, hunts, follows, struck>>
vars == <<world, beat, saves, rows, server, spent>>

----------------------------------------------------------------------------
(* Types *)

Nobody == 0   \* None of an optional id
Never == -1   \* None of an optional number of ticks
Heartbeat == 0

Stages == {"advance", "reactivate", "acquire", "pursue", "attack", "follow",
           "wander", "save", "failed"}

(* StaticCreatureRuntime: due and wait are reactivation_due_tick and          *)
(* next_melee_due_tick.                                                       *)
Creature == [tile : Ground, active : BOOLEAN, health : Nat,
             due : Nat \cup {Never}, wait : Nat, target : Players \cup {Nobody}]

(* StaticCreatureRuntimeSnapshot *)
Row == [tile : Ground, active : BOOLEAN, health : Nat,
        due : Nat \cup {Never}, wait : Nat \cup {Never}]

(* A map with some of the keys. *)
Partial(f, keys, values) == DOMAIN f \subseteq keys /\ f \in [DOMAIN f -> values]

(* A saving thread has nothing to store, is about to take a snapshot, or *)
(* holds one.                                                            *)
Idle == [at |-> "idle", copy |-> <<>>]
Copying == [at |-> "copy", copy |-> <<>>]
Storing(snapshot) == [at |-> "write", copy |-> snapshot]

SavesOK == /\ DOMAIN saves = Players \cup {Heartbeat}
           /\ \A s \in DOMAIN saves :
                  /\ saves[s] = Idle \/ saves[s] = Copying \/ saves[s] = Storing(saves[s].copy)
                  /\ Partial(saves[s].copy, Monsters, Row)

Bounded == {"hits", "saves", "restarts"}

TypeOK ==
    /\ Partial(creatures, Monsters, Creature)
    /\ occupied \subseteq Ground
    /\ Partial(players, Players, Ground)
    /\ hunts \in [DOMAIN players -> Monsters \cup {Nobody}]
    /\ follows \in [DOMAIN players -> Players \cup {Nobody}]
    /\ dead \subseteq DOMAIN players
    /\ struck \subseteq DOMAIN players
    /\ beat \in [at : Stages, held : BOOLEAN, todo : SUBSET (Players \cup Monsters)]
    /\ SavesOK
    /\ Partial(rows, Monsters, Row)
    /\ server \in {"up", "down", "refused"}
    /\ spent \in [Bounded -> Nat]

----------------------------------------------------------------------------
(* The ground *)

Online == DOMAIN players
Active(cs) == {c \in DOMAIN cs : cs[c].active}
KindOf(c) == IF c \in Summons THEN Kind[c] ELSE c
IsNpc(c) == c \in Npcs

Abs(n) == IF n < 0 THEN -n ELSE n
Sign(n) == IF n < 0 THEN -1 ELSE IF n > 0 THEN 1 ELSE 0
AtMost(n, m) == IF n <= m THEN n ELSE m
After(n, elapsed) == IF n > elapsed THEN n - elapsed ELSE 0

Distance(s, t) == LET x == Abs(s[1] - t[1])
                      y == Abs(s[2] - t[2])
                  IN  IF x >= y THEN x ELSE y

Adjacent(s, t) == s # t /\ Distance(s, t) <= 1

HasPlayer(t) == \E p \in Online : players[p] = t

(* refresh_static_creature_occupancy *)
Occupancy(cs) == {cs[c].tile : c \in Active(cs)}

(* Where a creature or a player may step. *)
Free(t) == t \in Tiles /\ ~HasPlayer(t) /\ t \notin occupied

(* The two cardinal steps towards t, the one along the longer way first; a *)
(* step of none is the own tile, which is never free.                      *)
Preferred(s, t) ==
    LET across == <<s[1] + Sign(t[1] - s[1]), s[2]>>
        along  == <<s[1], s[2] + Sign(t[2] - s[2])>>
    IN  IF Abs(s[1] - t[1]) >= Abs(s[2] - t[2]) THEN <<across, along>>
                                                ELSE <<along, across>>

Neighbours(s) == {t \in Tiles : Abs(s[1] - t[1]) + Abs(s[2] - t[2]) = 1}

(* The direct step of a creature or a follower, if one of the two is free. *)
DirectSteps(s, t) ==
    LET want == Preferred(s, t)
    IN  IF Free(want[1]) THEN {want[1]}
        ELSE IF Free(want[2]) THEN {want[2]} ELSE {}

Least(S) == CHOOSE n \in S : \A m \in S : n <= m

With(f, k, value) == [i \in DOMAIN f \cup {k} |-> IF i = k THEN value ELSE f[i]]
Without(f, k) == [i \in DOMAIN f \ {k} |-> f[i]]

----------------------------------------------------------------------------
(* Installing, snapshot and restore *)

(* install_static_creatures: every placed creature is active on its tile. *)
Fresh(c) == [tile |-> SpawnTile[c], active |-> TRUE, health |-> FullHealth[c],
             due |-> Never, wait |-> 0, target |-> Nobody]

Installed == [c \in Imported |-> Fresh(c)]

(* static_creature_runtime_snapshot *)
Snapshot == [c \in DOMAIN creatures |->
                [tile   |-> creatures[c].tile,
                 active |-> creatures[c].active,
                 health |-> creatures[c].health,
                 due    |-> creatures[c].due,
                 wait   |-> IF Cooldown[KindOf(c)] = 0 THEN Never
                            ELSE creatures[c].wait]]

Known(stored) == DOMAIN stored \cap Imported

(* What restore_static_creature_runtime demands of a row: the delay of a   *)
(* creature that lies defeated is within its interval, the cooldown of a   *)
(* creature that is active within its own.                                 *)
DelayFits(c, row) ==
    /\ row.active => row.due = Never
    /\ row.due # Never => 0 < Interval[c] /\ row.due <= Interval[c]

CooldownFits(c, row) == row.wait # Never => row.wait <= Cooldown[c]

CooldownOfActive(c, row) == row.wait # Never => row.active /\ Cooldown[c] > 0

(* Mutant of Restored: the delay is validated and then forgotten. *)
RestoredWithoutDelay(stored) ==
    [c \in Imported |->
        IF c \notin Known(stored) THEN Fresh(c)
        ELSE [tile   |-> stored[c].tile,
              active |-> stored[c].active,
              health |-> stored[c].health,
              due    |-> Never,
              wait   |-> IF stored[c].wait = Never THEN 0 ELSE stored[c].wait,
              target |-> Nobody]]

(* Restored creatures stand apart from each other and from the rest. *)
Restored(stored) ==
    [c \in Imported |->
        IF c \notin Known(stored) THEN Fresh(c)
        ELSE [tile   |-> stored[c].tile,
              active |-> stored[c].active,
              health |-> stored[c].health,
              due    |-> stored[c].due,
              wait   |-> IF stored[c].wait = Never THEN 0 ELSE stored[c].wait,
              target |-> Nobody]]

PlacesApart(stored) ==
    LET cs == Restored(stored)
    IN  \A c \in Known(stored) \cap Active(cs), d \in Active(cs) :
            cs[c].tile = cs[d].tile => c = d

Fits(stored) ==
    /\ PlacesApart(stored)
    /\ \A c \in Known(stored) : DelayFits(c, stored[c]) /\ CooldownFits(c, stored[c])

Restorable(stored) ==
    Fits(stored) /\ \A c \in Known(stored) : CooldownOfActive(c, stored[c])

----------------------------------------------------------------------------
(* Deactivation, reactivation *)

(* deactivate_static_creature of an active creature. *)
Deactivated(c) == [creatures EXCEPT ![c].active = FALSE,
                                    ![c].health = 0,
                                    ![c].target = Nobody,
                                    ![c].due = IF c \in Imported /\ Interval[c] > 0
                                               THEN Interval[c] ELSE Never]

(* Mutant of Unhunted: deactivation leaves the intents alone. *)
StillHunted(c) == hunts

(* Nobody hunts c any more: set_player_static_target left no follow intent. *)
Unhunted(c) == [p \in Online |-> IF hunts[p] = c THEN Nobody ELSE hunts[p]]

DueNow == {c \in DOMAIN creatures : ~creatures[c].active /\ creatures[c].due = 0}

PlayerBlocks(c) ==
    \E p \in Online : players[p] = SpawnTile[c] \/ players[p] \in SpawnArea[c]

(* Mutant of Returns: the area of the spawn is looked at, its tile is not. *)
ReturnsOntoBodies(c) ==
    c \in DueNow /\ ~\E p \in Online : players[p] \in SpawnArea[c] \ {SpawnTile[c]}

(* Of the creatures that are due these find their spawn free. *)
Returns(c) == c \in DueNow /\ ~PlayerBlocks(c) /\ SpawnTile[c] \notin occupied

(* Mutant of Rearmed: a blocked creature gives up. *)
GivenUp(c) == [creatures[c] EXCEPT !.due = Never]

(* A creature that is blocked waits a whole interval again. *)
Rearmed(c) == [creatures[c] EXCEPT !.due = Interval[c]]

(* Mutant of Reactivated: the creature stays due. *)
ReactivatedStillDue(c) == [creatures[c] EXCEPT !.tile = SpawnTile[c],
                                               !.health = FullHealth[c],
                                               !.active = TRUE]

Reactivated(c) == [creatures[c] EXCEPT !.tile = SpawnTile[c],
                                       !.health = FullHealth[c],
                                       !.active = TRUE,
                                       !.due = Never]

----------------------------------------------------------------------------
(* Targets *)

Living == Online \ dead

InRange(c) == {p \in Living : Distance(players[p], creatures[c].tile) <= Range}

(* select_static_creature_target: the nearest living player in range, the   *)
(* one with the least id among equals.                                      *)
Selected(c) ==
    IF IsNpc(KindOf(c)) \/ InRange(c) = {} THEN Nobody
    ELSE LET far(p) == Distance(players[p], creatures[c].tile)
         IN  Least({p \in InRange(c) : \A q \in InRange(c) : far(p) <= far(q)})

----------------------------------------------------------------------------
(* Initial state: a start on an empty database *)

Init ==
    /\ creatures = Installed
    /\ occupied = Occupancy(Installed)
    /\ players = <<>>
    /\ dead = {}
    /\ hunts = <<>>
    /\ follows = <<>>
    /\ struck = {}
    /\ beat = [at |-> "advance", held |-> FALSE, todo |-> {}]
    /\ saves = [s \in Players \cup {Heartbeat} |-> Idle]
    /\ rows = <<>>
    /\ server = "up"
    /\ spent = [b \in Bounded |-> 0]

Spend(b, bound) == spent[b] < bound /\ spent' = [spent EXCEPT ![b] = @ + 1]

----------------------------------------------------------------------------
(* The heartbeat thread *)

Beats(stage) == server = "up" /\ beat.at = stage /\ ~beat.held
Goto(stage) == beat' = [at |-> stage, held |-> FALSE, todo |-> {}]

(* advance_ticks *)
AdvanceTicks ==
    /\ Beats("advance") /\ saves[Heartbeat] = Idle
    /\ \E elapsed \in 1..MaxElapsed :
           creatures' = [c \in DOMAIN creatures |->
               [creatures[c] EXCEPT !.wait = After(@, elapsed),
                                    !.due = IF @ = Never THEN Never ELSE After(@, elapsed)]]
    /\ struck' = {}
    /\ Goto("reactivate")
    /\ UNCHANGED <<occupied, players, dead, hunts, follows, saves, rows, server, spent>>

(* reactivate_due_static_creatures *)
ReactivateDue ==
    /\ Beats("reactivate")
    /\ creatures' = [c \in DOMAIN creatures |->
                        IF c \notin DueNow THEN creatures[c]
                        ELSE IF Returns(c) THEN Reactivated(c) ELSE Rearmed(c)]
    /\ occupied' = Occupancy(creatures')
    /\ Goto("acquire")
    /\ UNCHANGED <<players, dead, hunts, follows, struck, saves, rows, server, spent>>

(* acquire_static_creature_targets *)
AcquireTargets ==
    /\ Beats("acquire")
    /\ creatures' = [c \in DOMAIN creatures |->
                        IF creatures[c].active
                        THEN [creatures[c] EXCEPT !.target = Selected(c)]
                        ELSE creatures[c]]
    /\ Goto("pursue")
    /\ UNCHANGED <<occupied, players, dead, hunts, follows, struck, saves, rows,
                   server, spent>>

Passes == {"pursue", "attack", "follow", "wander"}

StageAfter(pass) == CASE pass = "pursue" -> "attack"
                      [] pass = "attack" -> "follow"
                      [] pass = "follow" -> "wander"
                      [] OTHER -> "save"

(* Whom a pass is about: it lists them when it takes the mutex. *)
Listed(pass) == IF pass = "follow" THEN Online ELSE Active(creatures)

ToHandle == IF beat.held THEN beat.todo ELSE Listed(beat.at)

(* The thread handles i; with the last one the pass ends. *)
Handling(pass, i) ==
    server = "up" /\ beat.at = pass /\ i \in ToHandle /\ i = Least(ToHandle)

Handled(i) ==
    IF ToHandle = {i} THEN Goto(StageAfter(beat.at))
    ELSE beat' = [beat EXCEPT !.held = TRUE, !.todo = ToHandle \ {i}]

SkipPass ==
    /\ \E pass \in Passes : Beats(pass) /\ Listed(pass) = {}
    /\ Goto(StageAfter(beat.at))
    /\ UNCHANGED <<world, saves, rows, server, spent>>

(* Creatures wander only every wander_every_ticks. *)
SkipWander ==
    /\ Beats("wander")
    /\ Goto("save")
    /\ UNCHANGED <<world, saves, rows, server, spent>>

(* step_static_creature_toward_target_with_detour: the direct step if there *)
(* is one; which free neighbour a detour begins with, if it finds a way, is *)
(* left open.                                                               *)
PursuitSteps(c, p) ==
    LET source == creatures[c].tile
        direct == DirectSteps(source, players[p])
    IN  IF Adjacent(source, players[p]) THEN {source}
        ELSE IF direct # {} THEN direct
        ELSE {source} \cup {t \in Neighbours(source) : Free(t)}

(* Mutant of CreatureMoves: the occupied tiles are not refreshed. *)
MovesUnseen(c, target, t) ==
    /\ creatures' = [creatures EXCEPT ![c].tile = t, ![c].target = target]
    /\ UNCHANGED occupied

(* move_static_creature_cardinal *)
CreatureMoves(c, target, t) ==
    /\ creatures' = [creatures EXCEPT ![c].tile = t, ![c].target = target]
    /\ occupied' = Occupancy(creatures')

(* pursue_static_creature_targets_once *)
Pursue(c) ==
    /\ Handling("pursue", c)
    /\ LET p == Selected(c)
       IN  IF p = Nobody
           THEN creatures' = [creatures EXCEPT ![c].target = Nobody] /\ UNCHANGED occupied
           ELSE \E t \in PursuitSteps(c, p) : CreatureMoves(c, p, t)
    /\ Handled(c)
    /\ UNCHANGED <<players, dead, hunts, follows, struck, saves, rows, server, spent>>

(* apply_static_creature_target_damage without a hit: too early, nobody to  *)
(* hit, or out of reach.                                                    *)
NoAttack(c) ==
    LET target == creatures[c].target
    IN  /\ Handling("attack", c)
        /\ \/ /\ creatures[c].wait > 0
              /\ UNCHANGED creatures
           \/ /\ creatures[c].wait = 0
              /\ target = Nobody \/ target \notin Living
              /\ creatures' = [creatures EXCEPT ![c].target = Nobody]
           \/ /\ creatures[c].wait = 0
              /\ target \in Living
              /\ ~Adjacent(creatures[c].tile, players[target])
              /\ UNCHANGED creatures
        /\ Handled(c)
        /\ UNCHANGED <<occupied, players, dead, hunts, follows, struck, saves, rows,
                       server, spent>>

Hits(c) ==
    /\ Handling("attack", c)
    /\ creatures[c].wait = 0
    /\ creatures[c].target \in Living
    /\ Adjacent(creatures[c].tile, players[creatures[c].target])

Attack(c) ==
    /\ Hits(c)
    /\ creatures' = [creatures EXCEPT ![c].wait = Cooldown[KindOf(c)]]
    /\ Handled(c)
    /\ UNCHANGED <<occupied, players, dead, hunts, follows, struck, saves, rows,
                   server, spent>>

(* apply_player_death: the intents at the dead player are cleared, its own *)
(* stay as they are.                                                       *)
Kill(c) ==
    LET p == creatures[c].target
    IN  /\ Hits(c)
        /\ p \notin Homeless
        /\ creatures' = [creatures EXCEPT ![c].wait = Cooldown[KindOf(c)],
                                          ![c].target = Nobody]
        /\ dead' = dead \cup {p}
        /\ follows' = [q \in Online |-> IF follows[q] = p THEN Nobody ELSE follows[q]]
        /\ Handled(c)
        /\ UNCHANGED <<occupied, players, hunts, struck, saves, rows, server, spent>>

(* Without a temple the lethal hit is an error, which ends the pass and, by *)
(* the ? of every caller, the heartbeat thread.                             *)
FailedKill(c) ==
    /\ Hits(c)
    /\ creatures[c].target \in Homeless
    /\ Goto("failed")
    /\ UNCHANGED <<world, saves, rows, server, spent>>

(* follow_player_targets_once *)
FollowOn(p) ==
    LET q == follows[p]
        steps == IF q = Nobody \/ p \in dead \/ q \in dead THEN {}
                 ELSE IF Adjacent(players[p], players[q]) THEN {}
                 ELSE DirectSteps(players[p], players[q])
    IN  /\ Handling("follow", p)
        /\ \/ steps = {} /\ UNCHANGED players
           \/ \E t \in steps : players' = [players EXCEPT ![p] = t]
        /\ Handled(p)
        /\ UNCHANGED <<creatures, occupied, dead, hunts, follows, struck, saves, rows,
                       server, spent>>

(* apply_static_creature_policy: a creature with a free neighbour takes one *)
(* of them; which one, its id and the tick decide.                          *)
Wander(c) ==
    LET ways == {t \in Neighbours(creatures[c].tile) : Free(t)}
    IN  /\ Handling("wander", c)
        /\ \/ ways = {} /\ UNCHANGED <<creatures, occupied>>
           \/ \E t \in ways : CreatureMoves(c, creatures[c].target, t)
        /\ Handled(c)
        /\ UNCHANGED <<players, dead, hunts, follows, struck, saves, rows, server, spent>>

(* The autosave is due every 30 seconds. *)
AutosaveNotDue ==
    /\ Beats("save")
    /\ Goto("advance")
    /\ UNCHANGED <<world, saves, rows, server, spent>>

AutosaveDue ==
    /\ Beats("save")
    /\ Spend("saves", MaxSaves)
    /\ saves' = [saves EXCEPT ![Heartbeat] = Copying]
    /\ Goto("advance")
    /\ UNCHANGED <<world, rows, server>>

----------------------------------------------------------------------------
(* Sessions.  All of them need the mutex. *)

Free4Sessions == server = "up" /\ ~beat.held

(* add_player_with_vitals_and_progression on behalf of a new session *)
Enter(p, t) ==
    /\ Free4Sessions
    /\ p \notin Online
    /\ ~HasPlayer(t) /\ t \notin occupied
    /\ players' = With(players, p, t)
    /\ hunts' = With(hunts, p, Nobody)
    /\ follows' = With(follows, p, Nobody)
    /\ UNCHANGED <<creatures, occupied, dead, struck, beat, saves, rows, server, spent>>

(* Mutant of Untargeted: creatures go on aiming at a player that left. *)
StillTargeted(p) == creatures

Untargeted(p) == [c \in DOMAIN creatures |->
                     [creatures[c] EXCEPT !.target = IF @ = p THEN Nobody ELSE @]]

(* Mutant of Forgotten: the state of the player is left behind. *)
Remembered(p) == UNCHANGED <<dead, struck>>

Forgotten(p) == dead' = dead \ {p} /\ struck' = struck \ {p}

(* remove_player: the session ends, whatever its thread was about to store. *)
Leave(p) ==
    /\ Free4Sessions
    /\ p \in Online
    /\ players' = Without(players, p)
    /\ hunts' = Without(hunts, p)
    /\ follows' = [q \in Online \ {p} |-> IF follows[q] = p THEN Nobody ELSE follows[q]]
    /\ Forgotten(p)
    /\ creatures' = Untargeted(p)
    /\ saves' = [saves EXCEPT ![p] = Idle]
    /\ UNCHANGED <<occupied, beat, rows, server, spent>>

(* A session that is not storing anything acts for its player. *)
Ready(p) == Free4Sessions /\ p \in Online /\ saves[p] = Idle

(* Mutant of MayStand: a walk looks for players and not for creatures. *)
MayStandOnCreatures(t) == t \in Tiles /\ ~HasPlayer(t)

MayStand(t) == Free(t)

(* move_native_map_player and its diagonal form, activate_native_map_teleport_item *)
(* and teleport_player: to a neighbour or to the far end of a teleport.            *)
Walk(p, t) ==
    /\ Ready(p) /\ p \notin dead
    /\ MayStand(t)
    /\ players' = [players EXCEPT ![p] = t]
    /\ UNCHANGED <<creatures, occupied, dead, hunts, follows, struck, beat, saves, rows,
                   server, spent>>

(* set_player_static_target *)
Hunt(p, c) ==
    /\ Ready(p) /\ p \notin dead
    /\ c \in Active(creatures)
    /\ hunts' = [hunts EXCEPT ![p] = c]
    /\ follows' = [follows EXCEPT ![p] = Nobody]
    /\ UNCHANGED <<creatures, occupied, players, dead, struck, beat, saves, rows,
                   server, spent>>

(* set_player_follow *)
Follow(p, q) ==
    /\ Ready(p) /\ p \notin dead
    /\ q \in Living \ {p}
    /\ follows' = [follows EXCEPT ![p] = q]
    /\ hunts' = [hunts EXCEPT ![p] = Nobody]
    /\ UNCHANGED <<creatures, occupied, players, dead, struck, beat, saves, rows,
                   server, spent>>

(* Both of them with None, which the dead may do as well. *)
Desist(p) ==
    /\ Ready(p)
    /\ follows' = [follows EXCEPT ![p] = Nobody]
    /\ hunts' = [hunts EXCEPT ![p] = Nobody]
    /\ UNCHANGED <<creatures, occupied, players, dead, struck, beat, saves, rows,
                   server, spent>>

(* apply_native_selected_static_creature_melee: nothing asks whether the     *)
(* player is alive.  A creature without health is not hurt any more.         *)
Strike(p) ==
    LET c == hunts[p]
    IN  /\ Ready(p) /\ p \notin struck
        /\ c \in Active(creatures) /\ ~IsNpc(KindOf(c))
        /\ Adjacent(players[p], creatures[c].tile)
        /\ creatures[c].health > 0
        /\ Spend("hits", MaxHits)
        /\ struck' = struck \cup {p}
        /\ IF creatures[c].health = 1
           THEN /\ creatures' = Deactivated(c)
                /\ hunts' = Unhunted(c)
                /\ occupied' = Occupancy(creatures')
           ELSE /\ creatures' = [creatures EXCEPT ![c].health = @ - 1]
                /\ UNCHANGED <<hunts, occupied>>
        /\ saves' = [saves EXCEPT ![p] = Copying]
        /\ UNCHANGED <<players, dead, follows, beat, rows, server>>

(* persist_static_creature_runtime_to_open_database, of a session after a   *)
(* hit and of the heartbeat: a snapshot under the mutex, and later the rows. *)
TakeSnapshot(s) ==
    /\ Free4Sessions
    /\ saves[s].at = "copy"
    /\ saves' = [saves EXCEPT ![s] = Storing(Snapshot)]
    /\ UNCHANGED <<world, beat, rows, server, spent>>

StoreRows(s) ==
    /\ server = "up"
    /\ saves[s].at = "write"
    /\ rows' = saves[s].copy
    /\ saves' = [saves EXCEPT ![s] = Idle]
    /\ UNCHANGED <<world, beat, server, spent>>

(* spawn_dynamic_entity: the least free dynamic id, a clone of the template  *)
(* with the health the template has at the moment, on a free position that   *)
(* nothing requires to be walkable.                                          *)
Summon(c, t) ==
    /\ Free4Sessions
    /\ c \in Summons \ DOMAIN creatures
    /\ c = Least(Summons \ DOMAIN creatures)
    /\ Kind[c] \in DOMAIN creatures
    /\ ~HasPlayer(t) /\ t \notin occupied
    /\ creatures' = With(creatures, c,
                         [tile |-> t, active |-> TRUE, health |-> creatures[Kind[c]].health,
                          due |-> Never, wait |-> 0, target |-> Nobody])
    /\ occupied' = Occupancy(creatures')
    /\ UNCHANGED <<players, dead, hunts, follows, struck, beat, saves, rows, server, spent>>

----------------------------------------------------------------------------
(* Stops and starts *)

NothingRuns ==
    /\ creatures' = <<>> /\ occupied' = {} /\ players' = <<>> /\ dead' = {}
    /\ hunts' = <<>> /\ follows' = <<>> /\ struck' = {}
    /\ beat' = [at |-> "advance", held |-> FALSE, todo |-> {}]
    /\ saves' = [s \in Players \cup {Heartbeat} |-> Idle]
    /\ server' = "down"

(* The process is killed at any moment; whatever was not stored is lost. *)
Crash ==
    /\ server = "up"
    /\ Spend("restarts", MaxRestarts)
    /\ NothingRuns
    /\ UNCHANGED rows

(* serve_native_otclient_game ends: the heartbeat is joined, and unless it  *)
(* had failed the creatures are stored.                                     *)
Shutdown ==
    /\ Beats("advance") /\ saves[Heartbeat] = Idle
    /\ Spend("restarts", MaxRestarts)
    /\ rows' = Snapshot
    /\ NothingRuns

(* install_static_creatures and restore_static_creature_runtime_from_database *)
Start ==
    /\ server = "down"
    /\ Restorable(rows)
    /\ creatures' = Restored(rows)
    /\ occupied' = Occupancy(creatures')
    /\ server' = "up"
    /\ UNCHANGED <<players, dead, hunts, follows, struck, beat, saves, rows, spent>>

(* Rows that do not pass are an error of the start, on every attempt. *)
RefuseToStart ==
    /\ server = "down"
    /\ ~Restorable(rows)
    /\ server' = "refused"
    /\ UNCHANGED <<world, beat, saves, rows, spent>>

----------------------------------------------------------------------------
(* Specification *)

HandleCreature == \E c \in Monsters : \/ Pursue(c) \/ NoAttack(c) \/ Attack(c)
                                        \/ Kill(c) \/ FailedKill(c) \/ Wander(c)

HeartbeatStep == \/ AdvanceTicks \/ ReactivateDue \/ AcquireTargets
                 \/ SkipPass \/ SkipWander
                 \/ HandleCreature
                 \/ \E p \in Players : FollowOn(p)
                 \/ AutosaveNotDue \/ AutosaveDue
                 \/ TakeSnapshot(Heartbeat) \/ StoreRows(Heartbeat)

SessionStep ==
    \E p \in Players :
        \/ \E t \in Ground : Enter(p, t) \/ Walk(p, t)
        \/ \E c \in Monsters : Hunt(p, c)
        \/ \E q \in Players : Follow(p, q)
        \/ Leave(p) \/ Desist(p) \/ Strike(p)
        \/ TakeSnapshot(p) \/ StoreRows(p)

Next == \/ HeartbeatStep
        \/ SessionStep
        \/ \E c \in Summons, t \in Ground : Summon(c, t)
        \/ Crash \/ Shutdown \/ Start \/ RefuseToStart

(* The heartbeat is a thread that only sleeps and a stopped server is      *)
(* started again; neither waits for anybody.                               *)
Spec == Init /\ [][Next]_vars /\ WF_vars(HeartbeatStep) /\ WF_vars(Start)

----------------------------------------------------------------------------
(* Properties *)

(* The set of occupied tiles, which every other check relies on, is what the *)
(* creatures say: no transition forgets refresh_static_creature_occupancy.   *)
OccupancyIsExact == occupied = Occupancy(creatures)

(* Whoever is hunted is active, whoever is followed is alive and online, and *)
(* whoever a creature is after is online: death, logout, defeat and restart  *)
(* each clear the references the others hold.                                *)
ReferencesAreLive ==
    /\ \A p \in Online : hunts[p] # Nobody => hunts[p] \in Active(creatures)
    /\ \A p \in Online : follows[p] # Nobody => follows[p] \in Living \ {p}
    /\ \A c \in DOMAIN creatures :
           creatures[c].target # Nobody => creatures[c].active /\ creatures[c].target \in Online

(* Spawns outlive restarts.  Every snapshot that is stored or about to be,    *)
(* however late, stands apart and has delays a start accepts, save for the   *)
(* cooldowns of the defeated; and a defeated creature with an interval is    *)
(* due again, within its interval, whatever re-arms it and however often the *)
(* server restarts.                                                          *)
SpawnsOutliveRestarts ==
    /\ Fits(rows)
    /\ \A s \in DOMAIN saves : saves[s].at = "write" => Fits(saves[s].copy)
    /\ \A c \in DOMAIN creatures \cap Imported :
           ~creatures[c].active /\ Interval[c] > 0 => creatures[c].due \in 0..Interval[c]

(* A defeated creature is active again in the end if from some moment on     *)
(* nobody stands on its spawn or in its area and the heartbeat beats.        *)
SpawnIsClear(c) ==
    /\ server = "up" /\ beat.at # "failed"
    /\ ~PlayerBlocks(c)
    /\ \A d \in Active(creatures) \ {c} : creatures[d].tile # SpawnTile[c]

SpawnsReturn ==
    \A c \in Imported :
        Interval[c] > 0 => (<>[]SpawnIsClear(c) => []<>(server = "up" /\ creatures[c].active))

(* The ground as Tiles describes it. *)
GroundBodies == Online \cup Active(creatures)
Where == [b \in GroundBodies |-> IF b \in Online THEN players[b] ELSE creatures[b].tile]

T == INSTANCE Tiles WITH Bodies <- Players \cup Monsters, Places <- Ground, at <- Where

(* Players and active creatures move one at a time to free tiles, and come   *)
(* and go on free tiles: the passes of the heartbeat and the handlers of the *)
(* sessions implement the abstract ground.                                   *)
ImplementsTiles == T!Spec
=============================================================================
