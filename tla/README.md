# Forgotten Engine: a verification development

TLA+ models of the Forgotten Engine (an OpenTibia-style game server in Rust),
model-checked with TLC and, for what matters most, proved with TLAPS.  Every
definition is read off the Rust sources under `src/crates/`; `PROJECT.json`
maps each definition to the lines it stands for.

## The system

One process serves many game clients.  All authoritative game state is one
`WorldState` value (forgotten-core) behind one mutex, `SharedNativeWorld`
(forgotten-host).  The threads are

- one *session thread* per connected client, which reads packets and calls
  handlers; every handler makes a number of calls on `SharedNativeWorld`, and
  **each of those calls takes and releases the world mutex once**;
- one *heartbeat thread*, which advances the clock every second (conditions,
  regeneration, monsters) and every `NATIVE_AUTOSAVE_INTERVAL` saves positions,
  vitals, creatures and parties;
- one *operator bridge* thread, which gives items, teleports and kicks;
- the accept loops for login and status.

Each thread opens SQLite itself; a persistence call is one transaction, made
outside the world mutex.  Smaller state has mutexes of its own: the map, the
runtime tile items, chat recipients, pending kicks, closed trade windows,
outfits and directions, and atomic *epoch* counters tell sessions that something
to draw has changed.

Two conventions decide almost every failure.  An `Err` in a handler ends the
session, whose registration guard then removes the player from the world
(`SharedNativePlayerRegistration::drop`).  An `Err` in the heartbeat ends the
heartbeat thread, and nothing starts it again.

### Components

| Component | State | Operations | What makes it correct |
|---|---|---|---|
| Parties (`world_party.rs`) | leaders, memberships, invitations, shared-experience requests, activity ticks; table `player_parties` | invite, accept, leave, transfer, revoke, request, record activity; hydrate at login, clear at logout, flush by the heartbeat | nobody follows a leader that is gone; nothing outlives its party; the live state can always be flushed; stored rows can always be hydrated |
| Player trades (`world_trade.rs`, `trade.rs`) | `active_trades` by initiator; the containers of both sides | request (probe, open, stage), accept, execute, persist, reject, signal | a swap happens only as both agreed, to the offer both saw, all or nothing, and no item is doubled or lost |
| Session lifecycle (`session_loop.rs`, `world_registration.rs`) | `players` and a dozen maps keyed by player id; pending kicks | load from SQLite, register, hydrate in separate locks, serve, remove | one session per character; no ghost; nothing of an old session reaches a new one |
| Heartbeat and autosave (`heartbeat.rs`) | clock; what to save | advance, snapshot, write | it survives logouts at any moment; it does not overwrite newer rows |
| Inventory moves (`lib.rs` generic move, `world_transfers.rs`) | equipment and containers of a player | moves, swaps, stacks, nested contents | every move conserves items, every error leaves everything as it was |
| Ground items and map registry (`map_transfers.rs`, `runtime_items.rs`) | map tiles, runtime items, their tables | drop, pick up, expire, hydrate | one lock order; database and memory agree |
| Bank, shops, gifts (`bank.rs`, `npc_shop.rs`, `operator.rs`) | balance, containers | deposit, withdraw, buy, sell, give | no lost update between snapshot and replacement |
| Creatures and movement (`world_static.rs`, `world_movement.rs`) | creature runtimes, occupancy index, targets | spawn, despawn, move, attack, die, reactivate, walk | index equals positions of active creatures; targets exist; due spawns come back |
| Combat, vitals, progression (`world_combat.rs`, `world_death.rs`, `world_vitals.rs`, `world_conditions.rs`) | vitals, conditions, experience, death records | damage, heal, die, respawn, advance | health bounds, one death per life, level follows experience |
| Chat and VIP presence (`world_chat.rs`) | one bounded channel per recipient | register, deliver, drop, unregister | order per sender; presence converges |
| Epochs (`session_drain.rs`) | atomic counters and what each session observed | bump, sample, redraw | a change is drawn eventually |
| Authentication limits (`session_serve.rs`) | failure counts per address | check, count | at most the allowed failures per window |
| Guilds, quests, storage | SQLite rows | single transactions | rows validated |
| Protocol, configuration, scripting, CLI | none between calls | encode, decode, parse, call hooks | not modelled |

Behaviours that are hard here: handlers that take the lock several times;
snapshots written to SQLite after the lock is released; state keyed by player id
that outlives the session; things named by a place that changes under them; a
process that stops between two writes; errors in the middle of a multi-step
update.  `PROJECT.json` lists them at their lines under `hazards`, with the
properties that cover them or the reason why none does.

How the components meet in the models: `Lifecycle` has the threads and who owns a
character, which `Bank` repeats for the goods and `Refresh` for the screens;
`Trade`, `Bank`, `Inventory` and `Ground` are four views of the same inventories,
each with the part of it that its hazards need (references by index, copies held
across locks, slots and contents, places on tiles); `Creatures` has the heartbeat's
passes, of which `Lifecycle` keeps the hits and `Refresh` the fact that something
moved.

## The modules

### Party

`online` is `WorldState.players`; `party` is a record with the five `party_*`
maps; `storedLeader` is the table.  `session[p]` is the program counter of the
login: `registered`, `rowRead`, `leaderOnline`, then `attach` or `restore`, the
lock regions of `try_hydrate_persisted_party`.  `heartbeat` and `snapshot` split
the flush into the read under the mutex and the transaction.

The operators `RemoveLeader`, `HandOver`, `Disband`, `DisbandEmpty`,
`ClearPlayer` are the private helpers of `world_party.rs`; one action per public
method calls them.  `Restart` loses everything but the table.  Actions are the
successful calls: a refused call changes nothing and the handler goes on.
Abstracted: names, the value of activity ticks (only who has one), shields,
and the queries for shared-experience eligibility, which change nothing.

Properties: `PartyMapsAgree` ties the five maps to each other and to the world (a
member follows a live leader that follows nobody, invitations come from leaders,
requests belong to them, activity to players that are online);
`FlushNeverKillsHeartbeat` ties them to the validation in
`replace_player_parties`; `StoredRowsAreFlat` is about the table across flushes
and restarts; `PartyStaysTogether` is about single steps, succession above all:
members that stay in a party stay in the same one, and its invitations follow
the leadership.

### Trade

`trades` is `active_trades`, keyed by initiator; `containers` and `stored` are
the live and the durable containers; `task[p]` is where the session thread of
`p` stands between two locks: `probe`, `open`, `stage` of a request, `windows`
and `execute` of an acceptance, `save` and `write` of the persistence, `login`
and `hydrate` of a login.  `closing` is `pending_trades_closed`.

`Swap` is the whole of `execute_player_trade`: resolve, remove by index with the
explicit restores, deliver to the first container with room, and no restore when
a delivery fails.  `Execute` and `ExecuteFails` are its two outcomes.
`SessionEnds` stands for a logout, a dead socket and any `Err`; since a call
that fails ends the session, the other actions are the successful calls.
Two fields of a trade are not in the code: what the other side offered when one
side last accepted.  They only serve `AcceptanceOfCurrentOffer`.

Properties: `AcceptanceOfCurrentOffer`; `GoodsPassByAgreement` (goods change hands
only in the swap of a trade that both sides accepted and in which both take
part); `GoodsAreKept` (no step but a hydration doubles an item, and a completed
swap loses none); and `SwapTakesTheOffer`, which is violated.

Abstracted: an item is a stack of a kind of its own, so nothing merges; nested
contents; distance and death of the traders, which only refuse requests;
`unstage_trade_item`, which nothing calls.

### Refresh

How a change reaches the screens: `visibility_epoch` and `party_epoch` against
the sessions that drain them.  `phase[p]` is where the session thread of `p`
stands, from the registration over the reads of the first map and the baselines
to the game loop; `due[p]` are the epochs that moved since `p` observed them,
`passed` the sessions whose sample has become old.  Epochs only grow and are
only compared for equality, so no numbers are needed and nothing is bounded.
`stale[p]` are the things that changed since `p` was sent them, `shields[p]` the
party shields on its screen.  `lost[p]` is history: what was stale when `p` took
an epoch as observed without drawing.

Every change is two steps, the change under the world mutex and the epoch after
it (`Turn`, `Walk`, `Land`, `Dress`, `ChangeParty`, `Leave`, `HeartbeatMoves`,
then an announcement); only the registration does both under the lock.  A
refresh is four: sample, build and write, store, go on (`SampleVisibility`,
`SendView`, `StoreVisibility`; `SampleParty`, `SendShields`, `Store`).  A step
sends the strip of tiles that comes into view (`Walk` reads the creatures under
the lock of the move, `SendStrip` the players after the epoch moved), a teleport
the whole viewport; both then take the epoch as observed (`Resynchronise`), as
turns and changes of outfit do.  A change of vitals sends the viewport too
(`SendStats`) and stores no visibility epoch.  A player record on the wire
carries shield 0, so whatever draws a player wipes its shield (`Wiped`).

Abstracted: positions and the viewport (every change is visible to everybody,
a strip is any set); the two updates of outfit and facing at login are one;
the three passes of the heartbeat are one change of any set of things.  Left out:
attacks of a session on creatures (announced like its other changes), the pass of
the session loop that a lethal condition without a town breaks off before the
refreshes (it stores nothing, so the next pass draws), errors
inside a pass of the heartbeat (they end its thread), ground items,
invisibility, and the drains of the epochs for progression, equipment and
containers, which have the form of the one modelled.

Properties: `StaleViewsArePending` and `OutdatedShieldsArePending` say that the
refresh itself skips nothing, whatever happens between its steps;
`OutdatedShieldsAreReplaced` and `WatchersAreRedrawn` say that what is pending is
drawn in the end.  What a session absorbs with its own steps is kept in `lost`
and is a finding.

### Creatures and Tiles

`creatures` are the runtimes of static creatures and summons, `occupied` the index
the other checks rely on, `players` the positions, `hunts`, `follows` and each
creature's `target` the references between them, `rows` the stored creatures,
`saves` the snapshots taken under the lock and not yet written, `server` whether
the process is up, down or refused to start.  `beat` is where the heartbeat stands:
it advances the clock, reactivates what is due, lets creatures acquire targets,
pursue, attack, lets players follow, lets creatures wander, saves.  Every pass holds
the mutex for all its creatures; it is modelled creature by creature, in the order
of ids, with no session step in between.  Ticks are kept as distances (what is left
until due), which is what makes the state space finite without a bound on the clock.

Sessions enter, walk or teleport, hunt, follow, strike, leave; an operator summons;
the process crashes, is shut down (saving) and starts, or refuses to start when a
row does not fit.  The detour search of the pursuit is left open: a creature takes
any free step it could take.  One floor is modelled.  Abstracted: damage numbers
(health is counted in hits), loot, the invisible and god toggles.

`Tiles` is the abstract ground: one body per tile, moves only to free tiles, bodies
come and go only on free tiles.  `ImplementsTiles` maps the positions of players and
of active creatures to it, so every pass and every handler refines `Tiles`.
`OccupancyIsExact` is about the index; `ReferencesAreLive` about targets and
follows after deaths, defeats, logouts and restarts; `SpawnsOutliveRestarts` about
snapshots of any age and the delays in them; `SpawnsReturn` is the liveness of
reactivation.

### Lifecycle

`world` are the lives of the characters in `WorldState` (health, respawn state,
losses charged), `rows` the same in SQLite.  `phase`, `copy`, `job`, `observed`,
`told` belong to a session: how far its login is, the row it read, what it still
has to store, whether it has seen the death of its player, and how many death
records it sent.  `kicks` is `pending_kicks`, `beat` the heartbeat thread with the
copy it is about to write.  `deaths` and `revived` are history: how often a
character died, and how often a login brought a dead, uncharged life into the world.
A login reads the row, respawns the dead (reading the row again, writing it, and
reading it once more), registers, sets the town, hydrates and looks at its own
death, each in a step of its own; several connections may do that with one character.  Conditions, creatures
and other players hit; regeneration, potions and the operator heal; a death is
charged by whichever of the three threads comes first and stored by each that has
a copy.

Abstracted: health in hits, the progression to the number of losses charged; mana,
spells, skills and experience are left out, and errors that end a session are the
action `End`, which may happen at any moment anyhow.  A hit with a used item
(`world_interaction.rs:407`) has the effect of `HitOther` on its target and stores
nothing; it is covered only as a `HitOther` whose session ends before it writes.

Properties: `SoleOwner`, `ChargedOncePerDeath`, `ToldOnce`, `DeathsStayStored` hold at
or across every step.  `ChargedOncePerDeath` compares the losses with `deaths` and
`revived`: the heartbeat can write an old death between the respawn's write and the
re-read, the login then revives an uncharged death, and that one is charged again (a
finding).  What the property says is that there is no other way to be charged twice.
`DeathsAreTold`, `KicksAreObeyed` and `SavesCatchUp` say what
comes about in the end.

### Ground

`ground` is the map in memory, `origin` which imported item each of the first items
of a tile is, `removed` and `reduced` the journal and the counts of imported
items, `registry` the runtime records with their ordinals, `goods` what players
carry, `disk` the tables of all these.  `aim` is the place a session has looked up,
or whose corpse window it has open; looking and taking are two locks, so a place
can be old when it is used.  An operation that holds its mutexes while it commits
one transaction and publishes the result is one step.  `clock` and `beat` let
corpses decay; `Restart` rebuilds the ground from the tables.

Abstracted: positions of players, weights and free slots, which only refuse; the
contents of a corpse are a count of one kind of loot.

Properties: `DiskRestoresTheGround` (what a restart would build is what lies there),
`OnlyDecayLeavesGaps` (the ordinals that everything is numbered by stay contiguous
through drops, corpses and pickups by old places), `NothingIsMadeOrLost`.

### Bank

`live` and `rows` are the goods of each player in the world and in the database,
`balance` the account, `task` what each thread is in the middle of: a deal copies
equipment and containers under two locks, reads the balance, settles on the copies,
stores them, and puts them back under two more.  Deals are deposits, withdrawals,
purchases, sales and removals by scripts; besides them the operator bridge and
game masters give, loot is shared, quests reward, trades swap and players move
their own things.  Sessions log in and end at every step, transactions fail.

History: `receipts` is the balance by the replies players were given, `granted` the
worth of what gifts, loot and rewards brought, `harm` which of the recorded flaws
has struck (`crossed`: a thread changed goods another thread held a copy of;
`unsaved`: a save after a change of the world failed).  `BalanceIsReceipts` holds
without any premise; `WealthIsKept` and `RowsKeepUp` hold until harm is done, and the
findings say what happens after that.

Abstracted: goods are counts by kind, one slot for each kind; prices are one number
for all wares; the rows of quests, distances and catalogues are left out.

### Inventory

One player, slot by slot: `live` and `rows` hold what is worn and each container
with its stacks and the stacks inside them; `ground` counts dropped units by kind.
`closed`, `windows` and `shown` are the session's view: container ids the client
closed, content windows by container and index, and what the client was last sent
for them.  A request works on clones, puts them into the world and writes the
tables it names; when the world refuses, or the transaction fails, the session
ends, and the next login reads the rows.  Nothing else acts on the inventory here,
so a request is one step with two outcomes; the races are those of `Bank` and
`Trade`.

The requests are all transfers of `world_transfers.rs` with the handlers that call
them: between containers, slots and content windows, exchanges with a worn item,
drops and pickups, eating, runes and ammunition, and opening, closing and
refreshing content windows.  Merging stacks is by the first alike stack with room,
as the code does it.

History: `used` counts units consumed, `hollow` the tables last written without
contents the world had, `outdated` the windows whose item a request without a
window has changed since, and `harm` which flaws have struck: contents `copied` by a
split, `forgotten` by a merge, `spilled` by a drop or by the consumption of the last
unit, a rest `discarded`, a consumption `unconsumed` in the world or `unsaved` in the rows, contents found missing by a login
(`unstored`).  The bound `MaxHarm` is how much of it may have happened while requests
still come.

Properties: `UnitsAreKept` (conservation, in the world and in the rows),
`RowsKeepUp` (each request stores all it changed), `WindowsShowTheirItem` (a take by
place takes what the client saw).  `TypeOK` carries the bounds of stacks and
containers, which exchanges and put-backs could break.  `RowsKeepUp` looks past the
harms it names and `WindowsShowTheirItem` past `outdated` windows.

## The runs

| Run | Instance | What it shows |
|---|---|---|
| `party` | 3 players, 1 flush, 1 character with recorded activity | types, `PartyMapsAgree`, `FlushNeverKillsHeartbeat`, `StoredRowsAreFlat`, `PartyStaysTogether` hold |
| `trade` | 2 traders with an item each, 2 openings, 1 own move, 1 session end, 1 login | types, `AcceptanceOfCurrentOffer`, `GoodsAreKept`, `GoodsPassByAgreement` hold |
| `trade_goods` | 2 traders, offers of 2 items from a container of 3 | `SwapTakesTheOffer` is violated |
| `refresh_watch` | 2 players, one moves | types, `StaleViewsArePending`, `WatchersAreRedrawn` hold |
| `refresh_shields` | 2 players that change parties | `OutdatedShieldsArePending`, `OutdatedShieldsAreReplaced` hold |
| `creatures` | 2 players, 1 creature and 1 summon in a corridor of 3 tiles | `OccupancyIsExact`, `ReferencesAreLive`, `ImplementsTiles` hold |
| `creatures_restart` | 1 player, 2 creatures, 1 save, 1 restart | types, `SpawnsOutliveRestarts`, `SpawnsReturn` hold |
| `lifecycle` | 2 characters with a connection each, 3 hits, 3 logins | `ChargedOncePerDeath`, `DeathsStayStored` hold |
| `lifecycle_relog` | 1 character with 2 connections, 2 hits, 1 heal, 1 kick, 3 logins | types, `SoleOwner`, `ToldOnce`, `DeathsAreTold`, `KicksAreObeyed`, `SavesCatchUp` hold |
| `ground` | 1 tile with two coins and a rod, 2 players, 2 corpses, 1 drop, 1 restart | types, `DiskRestoresTheGround`, `OnlyDecayLeavesGaps`, `NothingIsMadeOrLost` hold |
| `bank` | 2 players, 3 connections and the operator bridge, 2 dealings, 3 logins | types, `BalanceIsReceipts`, `WealthIsKept`, `RowsKeepUp` hold |
| `inventory` | 1 player, 3 containers, a bag with two stacks of runes | types, `UnitsAreKept`, `RowsKeepUp`, `WindowsShowTheirItem` hold |

Why these bounds are enough.

*Party.*  A leader, a member and a third player that succeeds, is invited, or
hydrates while the others act; succession picks the lowest of at least two members
only with three players.  `MaxFlushes` bounds the heartbeat alone: one flush gives a
table to hydrate from after any number of logouts and restarts.

*Trade.*  Two traders do everything one trade does.  Two openings let a stale task
meet another trade than the one it was started for, and since either may open one,
they also give two trades at once that share both players, which the lookups
resolve by the lower initiator.  One move makes references stale; one session end
with one login crosses the trade with a logout, a failure and older rows.
`trade_goods` needs two items staged from one container.

*Refresh.*  One session and one other that changes things; both leave, log in again
and act any number of times.  Moving and changing parties touch different epochs,
hence two runs.  No run has a creature, which differs from a player moved by the
heartbeat only in being drawn by `Walk` and `ReadSpawns`; the proofs cover every set
of creatures.

*Creatures.*  In three tiles every walk, follow, pursuit, summon and return competes
with another body for its tile.  A clone beside its template covers summons, a
player without a temple the failing kill, one creature with an interval and one with
a cooldown the two kinds of delays in a row.  A restart needs one save before it to
find old rows.

*Lifecycle.*  Two hits kill a character of two health, or hit each of two; a death
needs one life, a respawn a second login, and a login that overlaps both a third.
Between two characters there are three hits: one that is survived and makes the
heartbeat store its victim, one that kills while the heartbeat holds the old health,
and one on a life that came back.  Heals and kicks are in the other run.
Two connections for one character are the only way to overlap, two characters with
one connection each the only way to be killed by another player.

*Ground.*  Places change only within a tile, so one tile is enough; two coins can be
reduced, a rod removed, and two corpses and a drop make three records, of which the
first may decay below the others.  Two looks let two players hold old places.

*Bank.*  Any race is between two dealings, and a session that ends and comes back
needs three logins.  One slot makes "no room" happen with the second kind of thing.

*Inventory.*  Stacks of at most two and containers of two places make full stacks, full
containers and splits happen at once; two stacks of the same kind inside a bag give
content moves an index to get wrong; a container with a parent is refused as a
target.  Both kinds can be consumed, so that the bag can be with things in it.  With
`MaxHarm` 0 the run goes on until a flaw strikes: the session can end and log in
again after it, which is where missing contents show, but no further request comes.  Window ids run from 0 to 3 and three of them are containers, so one content
window is open at a time; two windows that name each other's container are not
explored.

`CHECK_DEADLOCK FALSE` in the runs of trade, creatures, lifecycle, ground and bank:
there the bounded operations can be used up, a refused server stays down, or a
thread's next call would be refused for good.  The runs of party, refresh and
inventory check deadlock.

### Disagreements between the code and what it says

With a run:

- **A swap takes other items than the ones offered** (`trade_goods`).  References are
  removed one by one by their old index (`world_trade.rs:252`), so after the first
  removal from a container the next index points one item further.

Without a run, recorded as findings with the lines on both sides, and where the
models need it, as an explicit exception in the property:

- *Trades and parties*: a delivery without room loses the goods of both sides
  (`world_trade.rs:324`); a player can be in two trades; rejecting signals the wrong
  side; a logout cancels no trade; a staging resets one acceptance twice and the
  other never (harmless, as `AcceptanceOfCurrentOffer` shows); party rows of players
  that are offline are pruned by the next flush; leaving a party keeps the tick.
- *Sessions and heartbeat*: a pending kick meets the next session; the starter
  backpack never reaches the live world; a logout at the wrong moment, a death
  charged twice, or a town without a temple ends the heartbeat for everybody; the
  autosave stores a death's health without its record; a death that the heartbeat
  writes between a respawn's write and the re-read comes back into the game and is
  charged again; potions undo hits; the killer's client is sent the victim's death record.
- *Refresh*: changes between the first map and the baselines, and those around a
  session's own steps, are absorbed; the viewport wipes party shields.
- *Creatures*: a defeated creature with a cooldown makes every later start fail; a
  dead player keeps hitting; a summon of a defeated creature cannot be hurt.
- *Ground*: decay leaves gaps in the ordinals, which the next start refuses; drops and
  imported transfers take two locks in opposite orders; a pickup by an old place
  takes another item; contents are lost both ways; despawn ticks outlive the clock.
- *Bank*: deals, gifts and removals put copies back over what others did meanwhile;
  removals store equipment and containers by two transactions.
- *Inventory*: transactions that store an inventory with something else write no
  contents, and worn bags have no rows for them; a merge forgets contents and a split
  copies them; nothing asks what lies in an item before its last unit is eaten or
  fired, so that contents of a consumable would go with it; a window without its last item gets no close frame; a closed window's
  id stays closed; windows name an index that moves; corpse and content windows can
  share an id; ammunition is never stored; a slot is moved whole whatever count was
  asked for; a partial content drop discards the rest; a full or nested target ends
  the session, the latter after the clone was stored.

One behaviour is accepted by a comment and is therefore no finding: the two
inventories of a swap are persisted one after the other (`trade.rs:279-280`), so a
stop in between leaves a durable copy on both sides or on neither.

## The proofs

`Party_proofs` proves, for every set of characters and every number of flushes,
`Spec => []PartyInv` and from it the type invariant and every invariant of the
run `party`.  `PartyInv` strengthens the properties by what makes them
inductive:

- `WellFormed(P, on)`, a statement about one value of the party maps and one set
  of players in the world, so that each operator on the maps gets a lemma of its
  own (`HandOverWellFormed`, `DisbandWellFormed`, ...);
- a player whose session is not offline is in the world, and a hydration never
  holds the player itself as its leader: without it attaching could make a
  player its own member;
- the snapshot a flush holds outside the lock is a valid one, which the world
  at the time of the write says nothing about;
- the stored rows are flat, because rows written from a valid snapshot are.

From the same invariant follows the action property `PartyStaysTogether`: each
operator on the maps gets a second lemma (`Together`), that who is in a party before
and after it is in the same one.

`Trade_proofs` proves, for any players, items and inventories, every property of
the run `trade`.  `AcceptanceOfCurrentOffer` follows from `TradeInv`, which adds
that trades are well typed and that a thread in the middle of a request holds a
player and a reference.  `KeyOfTrade` shows that the lookup finds a trade of the
player; it needs that ids are natural numbers, since the lookup takes the first of
a `BTreeMap`.  The goods are moved by the folds of `Swap`.  No induction over the
folded sequence is available as a rule, so each fold is brought to the run of
states it goes through (`TakeRun`, `DeliverRun`, `RestoreRun`), and a claim about
all of them is proved for the least number of steps that would refute it.  `Tally`
counts the goods on their way and `Count` the copies in containers; that a pass
keeps their sum gives `GoodsAreKept`, that a fold touches the containers of one
player gives `GoodsPassByAgreement`, and that what a restore puts back fits where it
came from gives the type invariant (`TypeInv`).

`Refresh_proofs` proves, for any players, movers, partners and creatures,
`Spec => []TypeOK`, `Spec => []StaleViewsArePending` and
`Spec => []OutdatedShieldsArePending`.  Neither of the last two is inductive:
when a sample is stored, nothing may have changed since the frames were built.
`ViewInv` and `ShieldsInv` therefore speak also of a session that has sent its
frames and holds a sample that is not old (`ViewSettled`, `ShieldsSettled`): a
change in between is either announced, which makes the sample old, or not yet,
which leaves it in `Unmarked`.  `StepsAreNext` sorts the actions by what they do,
and the proofs go through the sorts.

`Lifecycle_proofs` proves `Spec => []TypeOK` and `Spec => []SoleOwner` for any
characters and connections.  The two need each other: a session works on the life of
its character without asking whether it is there, so the types hold only with
`Owned` (sessions past their registration and characters in the world correspond
one to one, and only a playing session has something to store).  It goes on to
`ChargedOncePerDeath`: the losses a life has suffered plus the one it still owes
never exceed its `Dues` (the deaths, and the logins that brought an uncharged death
back, which owe one more), and that has to be said of the world, the rows,
the copies of logins, and what sessions and the heartbeat are about to write
(`Accounts`).  `DeathsStayStored` follows from `StoredDeaths` (whatever is written
besides health is the record of a death), and `ToldOnce` from `Tells` (a death that
was told was observed, an observed one lasts as long as the session plays).

`Bank_proofs` proves the four invariants of the run `bank` for any players,
connections, kinds, prices and stocks.  The types say that no count and no
balance falls below zero, whichever thread puts back whichever copy; they follow
from `Sound`, in which each deal takes no more than the copy it holds has.  The
balance is read by one transaction and written by another; `Balanced` shows that
nothing comes between them, because a character has one session (`OneSession`)
and only a session at that point writes the balance (`Pending`).  `WealthIsKept` and
`RowsKeepUp` follow from `WealthInv`, which promises the following as long as no
recorded flaw has struck (`harm` is empty), and shows that the step that would break
it records one: every copy a thread holds is what the world, or the table, has
(`CopiesMatch`); whoever a thread works on stays in the world or out of it
(`TargetsStay`); goods of a player are half done by at most one thread
(`OneAtATime`); and the rows of everybody else are the goods in the world
(`OthersStored`).  `Estate` says for each player which of world and rows counts, so
that wealth is a sum over players, and a step changes the summands of the one or two
players it is about.  What a sum does when a summand changes is proved once, by the
well-founded order of finite sets.

`Creatures_proofs` proves the invariants of both runs of creatures for any map, any
players and creatures and any delays.  `OccupancyIsExact`, `ReferencesAreLive` and
the types need one another and two more facts: nobody stands on anybody
(`BodiesApart`, a theorem of its own), because a defeat frees the tile of the
defeated creature, which must be nobody else's; and while a pass holds the world,
whoever it has still to handle is there (`BeatSound`).  `StoresSound` says of the
rows and of each snapshot not yet written that it can be restored, however long ago
it was taken; `SpawnsOutliveRestarts` is read off it.  `CreaturesImplementTiles`
proves the refinement `Spec => ImplementsTiles`: every step of a pass, a session, an
operator or a start moves at most one body to a free tile, brings or removes one, or
leaves everybody where they are.

`Inventory_proofs` proves `Spec => []TypeOK`, `Spec => []RowsKeepUp`,
`Spec => []WindowsShowTheirItem` and `Spec => []UnitsAreKept` for any slots, container ids and capacities and any
starting inventory.  Each request is shown to satisfy the same contract, `Does`: it
leaves a well formed inventory and stores, for the tables it names, what it left
(`Stored`); it changes windows as `Viewed` says; it counts what it consumed and
harmed (`Counted`).  The invariants `Typed`, `Windowed` and `Kept` then follow from
the contract alone.  `Kept` adds that worn rows have no contents, without which a
login would not bring back what `RowsKeepUp` speaks of.

For `UnitsAreKept` a second contract, `Balances`, says of each request that it keeps
the units of every kind, ends the session before anything was stored, or harms.  It
rests on sums at three levels: over the contents of an item, over the items of a
container, and over slots and containers.  The lemmas about a list (`TotalAppended`,
`TotalChanged`, `TotalRemoved`) say what it adds up to when one member comes, changes
or goes; `TotalRemoved` needs that the places behind a removed one move up by one and
no member is met twice (`Skip`, `SumMoved`).  `Gone` is what leaves with n units of a
stack, all that lies in it with the last one; where `Spills`, `SplitHarm` and
`MergeHarm` record nothing it is the n units alone, or what arrives elsewhere.  The
rows need no sums of their own: in a session without harm and missing contents
`Kept` makes them the inventory of the world (`RowsAreLive`), and a failed
transaction leaves them as they were.  The proof failed at first on what `EatWorn`
and `FireRune` do to the last unit of an item with contents, which the run's kinds
could not show; the model now counts it as `spilled` and the run has such kinds.

`Ground_proofs` proves `Spec => []TypeOK`, `Spec => []DiskRestoresTheGround`,
`Spec => OnlyDecayLeavesGaps` and `Spec => NothingIsMadeOrLost` for any map, players
and limits.  The invariant
`GroundInv` says that the tables are what memory has, that the journal and the
counts speak of imported stacks that are still there (`Journaled`), and what lies on
each tile (`Laid`): the imported stacks the journal leaves, in their order, and then
as many items as the tile has records, which are those of the records by ordinal as
long as there is no gap.  Of a tile with a gap only the number of items is known,
and that is what the later operations on it need.  `Enumerates` says that putting a
finite set of numbers in order is unique; with it, leaving out one place of the
sequence is leaving out one member of the set.  The decay of a record opens a gap
exactly when a record lies above it (`GapBelow`).  For `NothingIsMadeOrLost` each
action is a change of one tile and of what one player carries of one thing
(`Moves`), decay apart, and the two changes of the sums cancel (`UnitsMoved`); what
a pickup loses is inside a corpse because nothing else ever holds loot (`HoldsLoot`).

Assumptions, beyond that bounds are natural numbers: `PlayersAssumption` and
`TradeAssumption` (ids are natural numbers where the code compares them; players and
containers are finitely many, being keys of maps in memory; no container starts
over its capacity), `RefreshAssumption` (movers and partners are players),
`LifecycleAssumption` (every connection asks for one character),
`BankAssumption` (finitely many players and kinds, well formed stocks),
`CreaturesAssumption` (spawn tiles are distinct and on the map, summons have ids
above those of the imported creatures), `InventoryAssumption` (slots and containers
are finitely many, contents are one level deep, and the starting inventory has worn
items without contents and no full container exceeded) and `GroundAssumption`
(finitely many players and tiles, imported stacks are not empty and no imported tile
holds more than a tile may, which the map refuses, `forgotten-core/src/lib.rs:1011`).

Only model-checked is liveness, everywhere: it needs fairness, which is out of the
provers' reach.  Every safety property the passing runs check is a theorem.

`SwapTakesTheOffer` of Trade is refuted by its run.

### Fairness

Party, Trade, Ground, Bank and Inventory assume none: every client may stop sending.

Refresh assumes weak fairness of the steps a session takes by itself, since its reads
and writes have time-outs (`session_loop.rs:22`, `611`) and no lock is held over
either; of the second half of a departure and of the announcement of the heartbeat,
which follow in straight code.  Nothing obliges a client to log in, to pause, to act
or to leave.  That is why the redrawing of the map is promised only to a client that
in the end pauses again and again without turning or walking: the map is redrawn in
pauses only, and each own step absorbs what is pending.  The shields are refreshed on
every pass and need no such premise.

Creatures assumes weak fairness of the heartbeat, a thread that only sleeps and
waits for nobody, and of a start after the server stopped.  `SpawnsReturn` promises
nothing of a spawn that is not in the end left clear, of a server that was refused
or of a heartbeat that ended.

Lifecycle assumes weak fairness of the rest of a login, of what a session does at the
top of its loop (look at its own death, obey a kick, finish what it has begun to
store) and of the heartbeat's storing and autosave, which is due every half minute.
Hits, heals, kicks, new connections and departures need not happen.

## Plan

In this order; each module gets an MC module, runs and mutants as it is written.

1. *Chat*: one bounded queue per recipient, registration and departure of the
   sessions of *Lifecycle*, presence messages that are dropped by a full queue.
2. *Session*: the limits on failed logins, whose check and count are two critical
   sections, and the starter goods and outfits of the first login.
3. *Trade* with stacks that merge and contents, as *Inventory* has them.
4. *Progression*: experience, levels, skills and their epochs.

Proofs: the safety properties of each as it is written; those of *Trade* again with
the lemmas of *Inventory* on the contents of items.

## Not modelled

Of the source lines the larger part has no control a model would add to.

- More than half of `forgotten-core/src/lib.rs` (from line 4142 on) and nearly all of
  `forgotten-host/src/lib.rs` are unit and integration tests, and the engine's CLI
  crate is administration commands and a test harness.
- `forgotten-persistence` is the SQL of rows: each call is one transaction.  What a
  transaction stores or leaves out is in the models that call it; the reading of
  columns is not.
- `forgotten-protocol`, `forgotten-config` and the importers encode, decode and parse
  without state between calls.  What a handler does with a decoded packet is in the
  model of the handler.
- `forgotten-scripting` runs Lua in a sandbox; the effects of its hooks on goods and
  health go through the calls that *Bank* and *Lifecycle* have.
- Guilds, quests, storage values and blessings are single transactions on rows.
- Chat and VIP presence and the limits on failed logins are next in the plan.
- Left out of modelled components: damage formulas, spells, mana, experience and
  skills; floors and the detour search of creatures; weights, attributes of items,
  the depot, imported items in windows; the epochs other than visibility and party;
  which trade window a client has open; lock order (a finding, as the two nestings
  are visible in the source).
