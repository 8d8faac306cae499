----------------------------- MODULE Lifecycle -----------------------------
(****************************************************************************)
(* Health, death and the loss it costs, from the login of a character to    *)
(* its row in the database.  Sessions log characters in, respawn the dead   *)
(* ones on the way, let conditions, regeneration and other players act on   *)
(* them, and store what came of it; the heartbeat thread lets creatures hit *)
(* them, stores that, and saves everybody's health from time to time.       *)
(*                                                                          *)
(* All of them hold the world mutex for one read or one change at a time    *)
(* and write the rows without it.  Each such moment is an action: a thread  *)
(* keeps in a copy what it read and writes the copy when the world may have *)
(* moved on.                                                                *)
(*                                                                          *)
(* Health is counted in hits.  Of the progression only the losses are kept, *)
(* as the number of deaths charged.  Positions, mana and skills are left    *)
(* out; where an error ends a session that may end there anyhow, End is it. *)
(****************************************************************************)
EXTENDS Integers, FiniteSets

CONSTANTS Players,    \* character ids
          Sessions,   \* connections
          Owner,      \* the character each connection asks for
          Full,       \* max_health
          Loss,       \* is deathLosePercent configured?
          Pvp,        \* does the world type let players hit players?
          MaxHits,    \* bound: how often anything hits a player
          MaxHeals,   \* bound: regenerations, potions and operator heals
          MaxKicks,   \* bound: operator kicks
          MaxLogins   \* bound: login attempts

ASSUME LifecycleAssumption ==
    /\ Players \subseteq Nat \ {0}
    /\ Owner \in [Sessions -> Players]
    /\ Full \in Nat \ {0}
    /\ {Loss, Pvp} \subseteq BOOLEAN
    /\ {MaxHits, MaxHeals, MaxKicks, MaxLogins} \subseteq Nat

VARIABLES
    world,     \* vitals, respawn states and losses of the players in WorldState
    rows,      \* the same of the players table and player_lifecycle
    phase,     \* how far each session is
    copy,      \* the row a login works with
    job,       \* what a session still has to store
    observed,  \* observed_dead
    told,      \* death records a session sent of the death of its own player
    kicks,     \* pending_kicks
    beat,      \* what the heartbeat thread is doing
    deaths,    \* how often each character died
    revived,   \* history: logins that brought a dead, uncharged life into the world
    spent      \* how often the bounded operations happened

threads == <<phase, copy, job, observed, told>>
vars == <<world, rows, threads, kicks, beat, deaths, revived, spent>>

----------------------------------------------------------------------------
(* Types *)

Nobody == 0

(* PlayerVitals.health, PlayerRespawnState.dead and .loss_applied, and the *)
(* losses the experience has suffered.                                     *)
Life == [health : 0..Full, dead : BOOLEAN, charged : BOOLEAN, lost : Nat]

Alive(health, lost) == [health |-> health, dead |-> FALSE, charged |-> FALSE, lost |-> lost]

(* The respawn is two transactions, and the login reads the row anew after  *)
(* them.  register, replace_player_town, hydrate_player_respawn_state and the *)
(* first look at the own death each take the mutex of their own.             *)
Phases == {"off", "respawn", "restore", "reread", "enter", "town", "hydrate",
           "baseline", "playing"}

Inside == {"town", "hydrate", "baseline", "playing"}

(* What is stored: the vitals alone, the vitals with the respawn state, or   *)
(* the whole of update_player_fixed_death_loss.                              *)
Parts == {"vitals", "death", "loss"}

(* A potion is swallowed after its effect was computed, a death is charged *)
(* before its loss is read, and a row is written last.                     *)
Job == [at : {"none", "swallow", "charge", "read", "write"}, who : Players \cup {Nobody},
        part : Parts, life : Life]

NoJob == [at |-> "none", who |-> Nobody, part |-> "vitals", life |-> Alive(0, 0)]

Stages == {"attack", "check", "charge", "read", "vitals", "state", "write",
           "conditions", "saveread", "savewrite", "failed"}

Beat == [at : Stages, todo : SUBSET Players, hit : SUBSET Players,
         part : Parts, life : Life]

Rest == [at |-> "attack", todo |-> {}, hit |-> {}, part |-> "vitals", life |-> Alive(0, 0)]

Online == DOMAIN world
Bounded == {"hits", "heals", "kicks", "logins"}

TypeOK ==
    /\ Online \subseteq Players
    /\ world \in [Online -> Life]
    /\ rows \in [Players -> Life]
    /\ phase \in [Sessions -> Phases]
    /\ copy \in [Sessions -> Life]
    /\ job \in [Sessions -> Job]
    /\ observed \in [Sessions -> BOOLEAN]
    /\ told \in [Sessions -> Nat]
    /\ kicks \subseteq Players
    /\ beat \in Beat
    /\ deaths \in [Players -> Nat]
    /\ revived \in [Players -> Nat]
    /\ spent \in [Bounded -> Nat]

----------------------------------------------------------------------------
(* Rows and lives *)

Spend(b, bound) == spent[b] < bound /\ spent' = [spent EXCEPT ![b] = @ + 1]

With(f, k, value) == [i \in DOMAIN f \cup {k} |-> IF i = k THEN value ELSE f[i]]
Without(f, k) == [i \in DOMAIN f \ {k} |-> f[i]]
Least(S) == CHOOSE n \in S : \A m \in S : n <= m

(* update_player_vitals, update_player_vitals_and_respawn_state and *)
(* update_player_fixed_death_loss.                                  *)
Stored(row, part, life) ==
    CASE part = "vitals" -> [row EXCEPT !.health = life.health]
      [] part = "death"  -> [life EXCEPT !.lost = row.lost]
      [] part = "loss"   -> life

Hurt(life) == [life EXCEPT !.health = @ - 1]

(* A hit on a living player, and the death it may be. *)
Struck(life) ==
    IF life.health > 1 THEN Hurt(life)
    ELSE [life EXCEPT !.health = 0, !.dead = TRUE, !.charged = FALSE]

Lethal(p) == world[p].health = 1

(* Mutant of Charged: the death does not remember that it was charged. *)
ChargedAgain(life) == [life EXCEPT !.lost = @ + 1]

(* apply_fixed_percent_death_loss of a death that was not charged yet. *)
Charged(life) == [life EXCEPT !.lost = @ + 1, !.charged = TRUE]

Chargeable(p) == p \in Online /\ world[p].dead /\ ~world[p].charged

(* update_player_fixed_death_loss refuses any other state. *)
LossStorable(p) == p \in Online /\ world[p].dead /\ world[p].charged

(* replace_player_town comes after the registration. *)
HasTown(p) == \A s \in Sessions : Owner[s] = p => phase[s] # "town"

Init ==
    /\ world = [p \in {} |-> Alive(0, 0)]
    /\ rows = [p \in Players |-> Alive(Full, 0)]
    /\ phase = [s \in Sessions |-> "off"]
    /\ copy = [s \in Sessions |-> Alive(0, 0)]
    /\ job = [s \in Sessions |-> NoJob]
    /\ observed = [s \in Sessions |-> FALSE]
    /\ told = [s \in Sessions |-> 0]
    /\ kicks = {}
    /\ beat = Rest
    /\ deaths = [p \in Players |-> 0]
    /\ revived = [p \in Players |-> 0]
    /\ spent = [b \in Bounded |-> 0]

----------------------------------------------------------------------------
(* Login *)

Goes(s, next) == phase' = [phase EXCEPT ![s] = next]

(* The row is read when the account is authenticated. *)
ReadRow(s) ==
    /\ phase[s] = "off"
    /\ Spend("logins", MaxLogins)
    /\ copy' = [copy EXCEPT ![s] = rows[Owner[s]]]
    /\ Goes(s, IF copy'[s].dead THEN "respawn" ELSE "enter")
    /\ UNCHANGED <<world, rows, job, observed, told, kicks, beat, deaths, revived>>

(* respawn_persisted_native_player_for_relog reads the row again, before the *)
(* world is asked whether the character is already in it; the first copy is  *)
(* not used any more.  A row that is not dead by now ends the login.         *)
RespawnRead(s) ==
    /\ phase[s] = "respawn"
    /\ copy' = [copy EXCEPT ![s] = Alive(0, 0)]
    /\ Goes(s, IF rows[Owner[s]].dead THEN "restore" ELSE "off")
    /\ UNCHANGED <<world, rows, job, observed, told, kicks, beat, deaths, revived, spent>>

(* It writes the vitals and the respawn state, whatever the row is by now. *)
RespawnWrite(s) ==
    /\ phase[s] = "restore"
    /\ rows' = [rows EXCEPT ![Owner[s]] = Alive(Full, @.lost)]
    /\ Goes(s, "reread")
    /\ UNCHANGED <<world, copy, job, observed, told, kicks, beat, deaths, revived, spent>>

(* The login goes on with the row as it finds it after that: a thread that *)
(* still had the old death to write may have put it back.                  *)
Reread(s) ==
    /\ phase[s] = "reread"
    /\ copy' = [copy EXCEPT ![s] = rows[Owner[s]]]
    /\ Goes(s, "enter")
    /\ UNCHANGED <<world, rows, job, observed, told, kicks, beat, deaths, revived, spent>>

(* add_player_with_vitals_and_progression *)
Register(s) ==
    /\ phase[s] = "enter"
    /\ Owner[s] \notin Online
    /\ world' = With(world, Owner[s], Alive(copy[s].health, copy[s].lost))
    /\ Goes(s, "town")
    /\ UNCHANGED <<rows, copy, job, observed, told, kicks, beat, deaths, revived, spent>>

(* Mutant of Refused: the login goes on with the character in the world. *)
NotRefused(s) ==
    /\ phase[s] = "enter"
    /\ Owner[s] \in Online
    /\ Goes(s, "town")
    /\ UNCHANGED <<world, rows, copy, job, observed, told, kicks, beat, deaths, revived, spent>>

(* DuplicatePlayer *)
Refused(s) ==
    /\ phase[s] = "enter"
    /\ Owner[s] \in Online
    /\ copy' = [copy EXCEPT ![s] = Alive(0, 0)]
    /\ Goes(s, "off")
    /\ UNCHANGED <<world, rows, job, observed, told, kicks, beat, deaths, revived, spent>>

GetTown(s) ==
    /\ phase[s] = "town"
    /\ Goes(s, "hydrate")
    /\ UNCHANGED <<world, rows, copy, job, observed, told, kicks, beat, deaths, revived, spent>>

(* hydrate_player_respawn_state writes the state of the row over whatever *)
(* the world has by now.                                                  *)
Hydrate(s) ==
    /\ phase[s] = "hydrate"
    /\ world' = [world EXCEPT ![Owner[s]].dead = copy[s].dead,
                              ![Owner[s]].charged = copy[s].charged]
    /\ revived' = IF copy[s].dead /\ ~copy[s].charged
                  THEN [revived EXCEPT ![Owner[s]] = @ + 1] ELSE revived
    /\ copy' = [copy EXCEPT ![s] = Alive(0, 0)]
    /\ Goes(s, "baseline")
    /\ UNCHANGED <<rows, job, observed, told, kicks, beat, deaths, spent>>

Baseline(s) ==
    /\ phase[s] = "baseline"
    /\ observed' = [observed EXCEPT ![s] = world[Owner[s]].dead]
    /\ Goes(s, "playing")
    /\ UNCHANGED <<world, rows, copy, job, told, kicks, beat, deaths, revived, spent>>

----------------------------------------------------------------------------
(* The session of a player *)

Playing(s) == phase[s] = "playing"
Ready(s) == Playing(s) /\ job[s] = NoJob

(* The thread of s ends and drops the SharedNativePlayerRegistration. *)
Gone(s) ==
    /\ world' = Without(world, Owner[s])
    /\ Goes(s, "off")
    /\ job' = [job EXCEPT ![s] = NoJob]
    /\ observed' = [observed EXCEPT ![s] = FALSE]
    /\ told' = [told EXCEPT ![s] = 0]
    /\ UNCHANGED <<copy, rows>>

(* The client is gone.  The session may notice after a hit of a condition, *)
(* when it shows the conditions and before it stores what the hit did.     *)
End(s) ==
    /\ phase[s] \in {"baseline", "playing"}
    /\ job[s] = NoJob \/ (job[s].at \in {"charge", "write"} /\ job[s].who = Owner[s])
    /\ Gone(s)
    /\ UNCHANGED <<kicks, beat, deaths, revived, spent>>

(* Mutant of ObserveDeath: the death is seen and not told. *)
SeeDeath(s) ==
    /\ Ready(s)
    /\ world[Owner[s]].dead /\ ~observed[s]
    /\ observed' = [observed EXCEPT ![s] = TRUE]
    /\ UNCHANGED <<world, rows, phase, copy, job, told, kicks, beat, deaths, revived, spent>>

(* observe_native_death_transition, at the top of the loop. *)
ObserveDeath(s) ==
    /\ Ready(s)
    /\ world[Owner[s]].dead /\ ~observed[s]
    /\ observed' = [observed EXCEPT ![s] = TRUE]
    /\ told' = [told EXCEPT ![s] = @ + 1]
    /\ UNCHANGED <<world, rows, phase, copy, job, kicks, beat, deaths, revived, spent>>

(* Mutant of ObeyKick: the sessions of the dead do not look at kicks. *)
ObeyKickAlive(s) ==
    /\ Ready(s)
    /\ Owner[s] \in kicks
    /\ ~world[Owner[s]].dead
    /\ kicks' = kicks \ {Owner[s]}
    /\ Gone(s)
    /\ UNCHANGED <<beat, deaths, revived, spent>>

(* take_pending_kick *)
ObeyKick(s) ==
    /\ Ready(s)
    /\ Owner[s] \in kicks
    /\ kicks' = kicks \ {Owner[s]}
    /\ Gone(s)
    /\ UNCHANGED <<beat, deaths, revived, spent>>

Store(who, part) == [at |-> "write", who |-> who, part |-> part, life |-> world'[who]]

(* What follows a hit the session is responsible for: a death is charged if *)
(* a loss is configured, and stored in any case.                            *)
Afterwards(s, p) ==
    job' = [job EXCEPT ![s] =
                IF ~world'[p].dead THEN Store(p, "vitals")
                ELSE IF Loss THEN [NoJob EXCEPT !.at = "charge", !.who = p]
                ELSE Store(p, "death")]

HitPlayer(p) ==
    /\ world' = [world EXCEPT ![p] = Struck(@)]
    /\ deaths' = IF Lethal(p) THEN [deaths EXCEPT ![p] = @ + 1] ELSE deaths

(* apply_player_conditions_with_death *)
SufferCondition(s) ==
    LET p == Owner[s]
    IN  /\ Ready(s)
        /\ ~world[p].dead /\ world[p].health > 0
        /\ Spend("hits", MaxHits)
        /\ HitPlayer(p)
        /\ Afterwards(s, p)
        /\ UNCHANGED <<rows, phase, copy, observed, told, kicks, beat, revived>>

(* apply_player_regeneration *)
Regenerate(s) ==
    LET p == Owner[s]
    IN  /\ Ready(s)
        /\ ~world[p].dead /\ world[p].health < Full
        /\ Spend("heals", MaxHeals)
        /\ world' = [world EXCEPT ![p].health = @ + 1]
        /\ job' = [job EXCEPT ![s] = Store(p, "vitals")]
        /\ UNCHANGED <<rows, phase, copy, observed, told, kicks, beat, deaths, revived>>

(* Mutant of Topped: max_health is no cap. *)
ToppedOver(health) == health + 1

Topped(health) == IF health < Full THEN health + 1 ELSE Full

(* A potion, and the Heal of a script: the guard looks at observed_dead, and *)
(* the new health is computed from what the world shows at this moment.      *)
Drink(s) ==
    LET p == Owner[s]
    IN  /\ Ready(s)
        /\ ~observed[s]
        /\ Spend("heals", MaxHeals)
        /\ job' = [job EXCEPT ![s] = [at |-> "swallow", who |-> p, part |-> "vitals",
                                      life |-> [world[p] EXCEPT !.health = Topped(@)]]]
        /\ UNCHANGED <<world, rows, phase, copy, observed, told, kicks, beat, deaths, revived>>

(* It is written to the world under a later lock. *)
Swallow(s) ==
    LET p == Owner[s]
    IN  /\ job[s].at = "swallow"
        /\ world' = [world EXCEPT ![p].health = job[s].life.health]
        /\ job' = [job EXCEPT ![s].at = "write"]
        /\ UNCHANGED <<rows, phase, copy, observed, told, kicks, beat, deaths, revived, spent>>

(* apply_native_selected_player_melee.  A target without a town is not killed, *)
(* and a target that was healed after its death can be defeated again.  A hit   *)
(* with a used item (world_interaction.rs:407) changes the target in the same   *)
(* way and stores nothing; it is this hit by a session that ends before it      *)
(* writes, and has no action of its own.                                        *)
HitOther(s, q) ==
    /\ Pvp
    /\ Ready(s)
    /\ q \in Online \ {Owner[s]}
    /\ ~world[Owner[s]].dead
    /\ world[q].health > 0
    /\ Lethal(q) => HasTown(q)
    /\ Spend("hits", MaxHits)
    /\ world' = [world EXCEPT ![q] = IF @.dead THEN Hurt(@) ELSE Struck(@)]
    /\ deaths' = IF Lethal(q) /\ ~world[q].dead THEN [deaths EXCEPT ![q] = @ + 1]
                                                ELSE deaths
    /\ job' = [job EXCEPT ![s] =
                  IF ~Lethal(q) THEN Store(q, "vitals")
                  ELSE IF Loss THEN [NoJob EXCEPT !.at = "charge", !.who = q]
                  ELSE Store(q, "death")]
    /\ UNCHANGED <<rows, phase, copy, observed, told, kicks, beat, revived>>

(* apply_fixed_percent_death_loss on behalf of s. *)
ChargeDeath(s) ==
    /\ job[s].at = "charge"
    /\ Chargeable(job[s].who)
    /\ world' = [world EXCEPT ![job[s].who] = Charged(@)]
    /\ job' = [job EXCEPT ![s].at = "read"]
    /\ UNCHANGED <<rows, phase, copy, observed, told, kicks, beat, deaths, revived, spent>>

(* Somebody else charged it, or the dead player has left and perhaps come *)
(* back: an error, which ends the session.                                *)
ChargeFails(s) ==
    /\ \/ job[s].at = "charge" /\ ~Chargeable(job[s].who)
       \/ job[s].at = "read" /\ ~LossStorable(job[s].who)
    /\ Gone(s)
    /\ UNCHANGED <<kicks, beat, deaths, revived, spent>>

ReadLoss(s) ==
    /\ job[s].at = "read"
    /\ LossStorable(job[s].who)
    /\ job' = [job EXCEPT ![s] = [at |-> "write", who |-> @.who, part |-> "loss",
                                  life |-> world[@.who]]]
    /\ UNCHANGED <<world, rows, phase, copy, observed, told, kicks, beat,
                   deaths, revived, spent>>

(* Mutant of TellDeath: the record is sent and not taken as observed. *)
TellDeathOnly(s) ==
    /\ told' = IF job[s].part = "vitals" \/ job[s].who # Owner[s] THEN told
               ELSE [told EXCEPT ![s] = @ + 1]
    /\ UNCHANGED observed

(* After a death is stored the session writes a death record to its client: *)
(* for its own death, which it has observed by that, and also (not counted)  *)
(* when it has killed somebody else.                                         *)
TellDeath(s) ==
    LET died == job[s].part # "vitals" /\ job[s].who = Owner[s]
    IN  /\ told' = [told EXCEPT ![s] = IF died THEN @ + 1 ELSE @]
        /\ observed' = [observed EXCEPT ![s] = @ \/ died]

WriteRow(s) ==
    /\ job[s].at = "write"
    /\ rows' = [rows EXCEPT ![job[s].who] = Stored(@, job[s].part, job[s].life)]
    /\ TellDeath(s)
    /\ job' = [job EXCEPT ![s] = NoJob]
    /\ UNCHANGED <<world, phase, copy, kicks, beat, deaths, revived, spent>>

----------------------------------------------------------------------------
(* The operator *)

(* request_kick *)
Kick(p) ==
    /\ p \in Online
    /\ Spend("kicks", MaxKicks)
    /\ kicks' = kicks \cup {p}
    /\ UNCHANGED <<world, rows, threads, beat, deaths, revived>>

(* restore_player_vitals, of the living and of the dead. *)
Heal(p) ==
    /\ p \in Online
    /\ Spend("heals", MaxHeals)
    /\ world' = [world EXCEPT ![p].health = Full]
    /\ UNCHANGED <<rows, threads, kicks, beat, deaths, revived>>

----------------------------------------------------------------------------
(* The heartbeat thread *)

Beats(stage) == beat.at = stage
Next1 == Least(beat.todo)
Goto(stage) == beat' = [beat EXCEPT !.at = stage]

(* One player is done, and with it perhaps the stage. *)
Done(again, after) ==
    LET left == beat.todo \ {Next1}
    IN  beat' = [Rest EXCEPT !.at = IF left = {} THEN after ELSE again,
                             !.todo = left, !.hit = beat.hit]

Killable(p) == p \in Online /\ ~world[p].dead /\ world[p].health > 0

(* attack_static_creature_targets_once hits players one after the other; a *)
(* lethal hit needs a town.                                                *)
CreaturesStrike(hit) ==
    /\ Beats("attack")
    /\ \A p \in hit : Killable(p) /\ (Lethal(p) => HasTown(p))
    /\ world' = [p \in Online |-> IF p \in hit THEN Struck(world[p]) ELSE world[p]]
    /\ deaths' = [p \in Players |->
                     IF p \in hit /\ Lethal(p) THEN deaths[p] + 1 ELSE deaths[p]]

CreaturesHit(hit) ==
    /\ CreaturesStrike(hit)
    /\ hit # {}
    /\ Spend("hits", MaxHits)
    /\ beat' = [beat EXCEPT !.at = "check", !.todo = hit, !.hit = hit]
    /\ UNCHANGED <<rows, threads, kicks, revived>>

(* Without one it is an error, and what the pass has done is not stored. *)
CreaturesFail(hit, p) ==
    /\ CreaturesStrike(hit)
    /\ Killable(p) /\ Lethal(p) /\ ~HasTown(p)
    /\ Spend("hits", MaxHits)
    /\ beat' = [Rest EXCEPT !.at = "failed"]
    /\ UNCHANGED <<rows, threads, kicks, revived>>

(* persist_static_target_attack_vitals *)
CheckDeath ==
    /\ Beats("check")
    /\ Next1 \in Online
    /\ Goto(IF Loss /\ world[Next1].dead THEN "charge" ELSE "vitals")
    /\ UNCHANGED <<world, rows, threads, kicks, deaths, revived, spent>>

HeartbeatCharges ==
    /\ Beats("charge")
    /\ Chargeable(Next1)
    /\ world' = [world EXCEPT ![Next1] = Charged(@)]
    /\ Goto("read")
    /\ UNCHANGED <<rows, threads, kicks, deaths, revived, spent>>

HeartbeatReads ==
    /\ Beats("read")
    /\ LossStorable(Next1)
    /\ beat' = [beat EXCEPT !.at = "write", !.part = "loss", !.life = world[Next1]]
    /\ UNCHANGED <<world, rows, threads, kicks, deaths, revived, spent>>

ReadVitals ==
    /\ Beats("vitals")
    /\ Next1 \in Online
    /\ beat' = [beat EXCEPT !.at = "state", !.life.health = world[Next1].health]
    /\ UNCHANGED <<world, rows, threads, kicks, deaths, revived, spent>>

(* Mutant of ReadState: the combined call stores the living as well. *)
ReadAnyState ==
    /\ Beats("state")
    /\ Next1 \in Online
    /\ beat' = [beat EXCEPT !.at = "write", !.part = "death",
                            !.life.dead = world[Next1].dead,
                            !.life.charged = world[Next1].charged]
    /\ UNCHANGED <<world, rows, threads, kicks, deaths, revived, spent>>

ReadState ==
    /\ Beats("state")
    /\ Next1 \in Online
    /\ beat' = [beat EXCEPT !.at = "write",
                            !.part = IF world[Next1].dead THEN "death" ELSE "vitals",
                            !.life.dead = world[Next1].dead,
                            !.life.charged = world[Next1].charged]
    /\ UNCHANGED <<world, rows, threads, kicks, deaths, revived, spent>>

HeartbeatWrites ==
    /\ Beats("write")
    /\ rows' = [rows EXCEPT ![Next1] = Stored(@, beat.part, beat.life)]
    /\ Done("check", "conditions")
    /\ UNCHANGED <<world, threads, kicks, deaths, revived, spent>>

(* persist_runtime_player_conditions of the players that were hit. *)
StoreConditions ==
    /\ Beats("conditions")
    /\ beat.hit \subseteq Online
    /\ beat' = Rest
    /\ UNCHANGED <<world, rows, threads, kicks, deaths, revived, spent>>

(* A player that is not there any more, or that another thread charged, is an *)
(* error of the loop, which ends the thread.                                  *)
HeartbeatFails ==
    /\ \/ beat.at \in {"check", "vitals", "state", "saveread"} /\ Next1 \notin Online
       \/ Beats("charge") /\ ~Chargeable(Next1)
       \/ Beats("read") /\ ~LossStorable(Next1)
       \/ Beats("conditions") /\ ~(beat.hit \subseteq Online)
    /\ beat' = [Rest EXCEPT !.at = "failed"]
    /\ UNCHANGED <<world, rows, threads, kicks, deaths, revived, spent>>

(* Mutant of SavedPlayers: the dead are not saved. *)
SavedLiving == {p \in Online : ~world[p].dead}

(* registered_player_ids *)
SavedPlayers == Online

AutosaveDue ==
    /\ Beats("attack")
    /\ SavedPlayers # {}
    /\ beat' = [Rest EXCEPT !.at = "saveread", !.todo = SavedPlayers]
    /\ UNCHANGED <<world, rows, threads, kicks, deaths, revived, spent>>

SaveReads ==
    /\ Beats("saveread")
    /\ Next1 \in Online
    /\ beat' = [beat EXCEPT !.at = "savewrite", !.life = world[Next1]]
    /\ UNCHANGED <<world, rows, threads, kicks, deaths, revived, spent>>

SaveWrites ==
    /\ Beats("savewrite")
    /\ rows' = [rows EXCEPT ![Next1] = Stored(@, "vitals", beat.life)]
    /\ Done("saveread", "attack")
    /\ UNCHANGED <<world, threads, kicks, deaths, revived, spent>>

----------------------------------------------------------------------------
(* Specification *)

Login(s) == \/ RespawnRead(s) \/ RespawnWrite(s) \/ Reread(s)
            \/ Register(s) \/ Refused(s) \/ GetTown(s) \/ Hydrate(s) \/ Baseline(s)

Obligations(s) == \/ ObserveDeath(s) \/ ObeyKick(s) \/ Swallow(s)
                  \/ ChargeDeath(s) \/ ChargeFails(s) \/ ReadLoss(s) \/ WriteRow(s)

Session(s) == \/ ReadRow(s) \/ Login(s) \/ End(s) \/ Obligations(s)
              \/ SufferCondition(s) \/ Regenerate(s) \/ Drink(s)
              \/ \E q \in Players : HitOther(s, q)

Persist == \/ CheckDeath \/ HeartbeatCharges \/ HeartbeatReads \/ ReadVitals
           \/ ReadState \/ HeartbeatWrites \/ StoreConditions \/ HeartbeatFails
           \/ AutosaveDue \/ SaveReads \/ SaveWrites

Heartbeat == \/ \E hit \in SUBSET Players :
                    CreaturesHit(hit) \/ \E p \in Players : CreaturesFail(hit, p)
             \/ Persist

Next == \/ \E s \in Sessions : Session(s)
        \/ \E p \in Players : Kick(p) \/ Heal(p)
        \/ Heartbeat

(* Threads of sessions finish a login and go through their loop, the thread of *)
(* the heartbeat goes through its own, and the autosave is due every half      *)
(* minute.                                                                     *)
Spec == /\ Init /\ [][Next]_vars
        /\ \A s \in Sessions : WF_vars(Login(s)) /\ WF_vars(Obligations(s))
        /\ WF_vars(Persist)

----------------------------------------------------------------------------
(* Properties *)

(* A character in the world belongs to exactly one session, although logins  *)
(* of one character overlap with each other and with the end of the last     *)
(* session: nobody's guard removes the character of another session.         *)
SoleOwner ==
    \A p \in Players :
        Cardinality({s \in Sessions : Owner[s] = p /\ phase[s] \in Inside})
            = IF p \in Online THEN 1 ELSE 0

(* Each loss, in the world and in the rows, has a death of its own or a login *)
(* that brought an uncharged death back, though the heartbeat, the own        *)
(* session and the killer's session all charge and store deaths, and logins   *)
(* rebuild lives from rows of any age.  Such a login is the one way to be     *)
(* charged twice for a death: the heartbeat puts an old death back between    *)
(* RespawnWrite and Reread.                                                   *)
ChargedOncePerDeath ==
    /\ \A p \in Online : world[p].lost <= deaths[p] + revived[p]
    /\ \A p \in Players : rows[p].lost <= deaths[p] + revived[p]

(* A session tells its client of its own death at most once. *)
ToldOnce == \A s \in Sessions : told[s] <= 1

(* A player that was alive when its session began to look, and dies, is told *)
(* of it or its session ends, whoever killed it.                             *)
DeathsAreTold ==
    \A s \in Sessions :
        (Playing(s) /\ world[Owner[s]].dead /\ ~observed[s])
            ~> (~Playing(s) \/ told[s] > 0)

(* Whatever stale copies the threads have written over each other: as long   *)
(* as the heartbeat lives, the row of a player that stays comes to agree     *)
(* with the health it has.                                                   *)
SavesCatchUp ==
    \A p \in Players :
        <>[](p \in Online /\ beat.at # "failed")
            => []<>(p \in Online /\ rows[p].health = world[p].health)

(* A kick of a player in the game ends its session. *)
KicksAreObeyed ==
    \A p \in Players : p \in kicks /\ p \in Online ~> p \notin kicks \/ p \notin Online

(* A death that has reached the database stays there until the character is *)
(* respawned by a login: no thread stores an older life over it.            *)
DeathsStayStored ==
    [][\A p \in Players : rows[p].dead /\ ~rows'[p].dead =>
           \E s \in Sessions : Owner[s] = p /\ phase[s] = "restore"]_vars
=============================================================================
