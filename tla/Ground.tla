------------------------------- MODULE Ground -------------------------------
(****************************************************************************)
(* Items on the ground: SharedNativeMap between the imported map, the       *)
(* registry of runtime items and the database.                              *)
(*                                                                          *)
(* The items of a tile are what is left of the imported ones, in their      *)
(* order, followed by a tail of runtime items: dropped stacks and corpses.  *)
(* A journal of removals and a table of reduced counts say what is gone of  *)
(* the former, a registry of records numbered tile by tile what the latter  *)
(* are.  An operation holds the map mutex (and the world mutex when an      *)
(* inventory is involved) while it commits one transaction and publishes    *)
(* the new state, so it is one action; a client names an item by its place  *)
(* on the tile, which was looked up under an earlier lock, so looking is an *)
(* action of its own.                                                       *)
(*                                                                          *)
(* An inventory is how many of each thing a player carries, a corpse holds  *)
(* a count of one kind of loot.  Positions of players, weights, free slots  *)
(* and whatever else refuses an operation without effect are left out.      *)
(****************************************************************************)
EXTENDS Integers, Sequences, FiniteSets, SequencesExt, FiniteSetsExt

CONSTANTS Players,     \* ids of players that reach the tiles
          Tiles,       \* positions
          Things,      \* plain items
          Loot,        \* the thing corpses hold
          Corpse,      \* the item a defeated creature leaves
          Source,      \* the imported items of each tile
          Stock,       \* what players carry at first
          Limit,       \* MAX_WORLD_MAP_ITEMS_PER_TILE
          MaxRecords,  \* MAX_RUNTIME_MAP_ITEMS
          DecayAfter,  \* corpseDespawnSeconds
          MaxLoot,     \* bound: loot of a corpse
          MaxTicks,    \* bound: the clock of the world
          MaxCorpses,  \* bound: corpses placed
          MaxDrops,    \* bound: stacks dropped
          MaxLooks,    \* bound: items looked up
          MaxStarts    \* bound: restarts of the server

ASSUME GroundAssumption ==
    /\ IsFiniteSet(Players) /\ IsFiniteSet(Tiles)
    /\ Loot \in Things
    /\ Corpse \notin Things
    /\ Source \in [Tiles -> Seq([thing : Things, count : Nat \ {0}])]
    /\ \A t \in Tiles : Len(Source[t]) <= Limit
    /\ Stock \in [Players -> [Things -> Nat]]
    /\ {Limit, MaxRecords, DecayAfter} \subseteq Nat \ {0}
    /\ {MaxLoot, MaxTicks, MaxCorpses, MaxDrops, MaxLooks, MaxStarts} \subseteq Nat

VARIABLES
    ground,    \* SharedNativeMap.map: the items of each tile
    origin,    \* source_item_indices: which imported item each of the first ones is
    removed,   \* removed_source_items
    reduced,   \* source_item_count_overrides
    registry,  \* runtime_tile_items
    goods,     \* equipment and containers of the players
    disk,      \* the tables of the last four
    aim,       \* the item a session has looked up, or whose window is open
    clock,     \* WorldState.tick
    beat,      \* the stage of the heartbeat thread
    server,
    spent      \* how often the bounded operations happened

memory == <<ground, origin, removed, reduced, registry, goods>>
vars == <<memory, disk, aim, clock, beat, server, spent>>

----------------------------------------------------------------------------
(* Types *)

Never == -1
Carried == Things \cup {Corpse}
Identities == UNION {{<<t, i>> : i \in DOMAIN Source[t]} : t \in Tiles}

Item == [thing : Carried, count : Nat \ {0}, inside : Nat]

(* RuntimeMapItemRecord; a registry never has two with the same position and *)
(* ordinal, so their order in the vector does not matter.                    *)
Record == [tile : Tiles, ordinal : Nat, item : Item, due : Nat \cup {Never}]

Aim == [kind : {"source", "runtime", "window"}, tile : Tiles, at : Nat \ {0}]
NoAim == [kind |-> "none"]

Bounded == {"corpses", "drops", "looks", "starts"}

(* What the tables may hold. *)
Tables(saved) ==
    /\ DOMAIN saved = {"removed", "reduced", "registry", "goods"}
    /\ saved.removed \subseteq Identities
    /\ DOMAIN saved.reduced \subseteq Identities
    /\ \A id \in DOMAIN saved.reduced : saved.reduced[id] \in Nat \ {0}
    /\ saved.registry \subseteq Record
    /\ Cardinality(saved.registry) <= MaxRecords
    /\ saved.goods \in [Players -> [Carried -> Nat]]

TypeOK ==
    /\ ground \in [Tiles -> Seq(Item)]
    /\ \A t \in Tiles : Len(ground[t]) <= Limit
    /\ origin \in [Tiles -> Seq(Nat \ {0})]
    /\ Tables([removed |-> removed, reduced |-> reduced, registry |-> registry, goods |-> goods])
    /\ Tables(disk)
    /\ aim \in [Players -> Aim \cup {NoAim}]
    /\ clock \in 0..MaxTicks
    /\ beat \in {"tick", "decay", "ended"}
    /\ server \in {"up", "refused"}
    /\ spent \in [Bounded -> Nat]

----------------------------------------------------------------------------
(* Tiles and records *)

Plain(thing, count) == [thing |-> thing, count |-> count, inside |-> 0]

Records(reg, t) == {r \in reg : r.tile = t}
Ordinals(reg, t) == {r.ordinal : r \in Records(reg, t)}
Gapless(reg, t) == Ordinals(reg, t) = 0..(Cardinality(Records(reg, t)) - 1)

(* The members of a finite set of numbers, the least first. *)
Ordered(S) ==
    [k \in 1..Cardinality(S) |-> CHOOSE x \in S : Cardinality({y \in S : y < x}) = k - 1]
Without(s, places) == LET kept == Ordered(DOMAIN s \ places)
                      IN  [k \in DOMAIN kept |-> s[kept[k]]]

(* runtime_tail_start: how many items precede the runtime ones. *)
TailStart(t) ==
    LET count == Cardinality(Records(registry, t))
    IN  IF count > Len(ground[t]) THEN 0 ELSE Len(ground[t]) - count

(* The place of a record on its tile. *)
Place(r) == TailStart(r.tile) + r.ordinal + 1

(* validate_runtime_map_item_records *)
Valid(reg) ==
    /\ Cardinality(reg) <= MaxRecords
    /\ \A r, q \in reg : r.tile = q.tile /\ r.ordinal = q.ordinal => r = q

(* The record that is pushed for an item appended to a tile; it is numbered *)
(* by the records the tile has.                                             *)
Appended(t, item, due) ==
    [tile |-> t, ordinal |-> Cardinality(Records(registry, t)), item |-> item, due |-> due]

Appends(t, item, due) ==
    /\ Len(ground[t]) < Limit
    /\ Valid(registry \cup {Appended(t, item, due)})
    /\ Appended(t, item, due) \notin registry
    /\ registry' = registry \cup {Appended(t, item, due)}
    /\ ground' = [ground EXCEPT ![t] = Append(@, item)]

(* Mutant of StoreAll: the reduced counts are not part of the transaction. *)
StoreWithoutCounts == disk' = [removed |-> removed', reduced |-> disk.reduced,
                               registry |-> registry', goods |-> goods']

StoreRegistry == disk' = [disk EXCEPT !.registry = registry']

(* Goods are counted, so they are stored as they are.  Which contents of them *)
(* the transactions leave behind is in Inventory.                             *)
StoreAll == disk' = [removed |-> removed', reduced |-> reduced',
                     registry |-> registry', goods |-> goods']

----------------------------------------------------------------------------
(* recover_complete_map_item_state *)

LeftOf(saved, t) == {i \in DOMAIN Source[t] : <<t, i>> \notin saved.removed}

Imported(saved, t, i) ==
    Plain(Source[t][i].thing,
          IF <<t, i>> \in DOMAIN saved.reduced THEN saved.reduced[<<t, i>>]
                                               ELSE Source[t][i].count)

RecoveredOrigin(saved, t) == Ordered(LeftOf(saved, t))

RecoveredTile(saved, t) ==
    LET left == RecoveredOrigin(saved, t)
        tail == Ordered(Ordinals(saved.registry, t))
    IN  [k \in DOMAIN left |-> Imported(saved, t, left[k])]
        \o [k \in DOMAIN tail |->
               (CHOOSE r \in Records(saved.registry, t) : r.ordinal = tail[k]).item]

Recoverable(saved) ==
    /\ \A id \in DOMAIN saved.reduced :
           id \notin saved.removed /\ saved.reduced[id] < Source[id[1]][id[2]].count
    /\ \A t \in Tiles :
           /\ Gapless(saved.registry, t)
           /\ Len(RecoveredTile(saved, t)) <= Limit

----------------------------------------------------------------------------
(* Initial state: a start on an empty journal and registry *)

Empty == [removed |-> {}, reduced |-> <<>>, registry |-> {},
          goods |-> [p \in Players |-> [x \in Carried |->
                        IF x = Corpse THEN 0 ELSE Stock[p][x]]]]

Init ==
    /\ ground = [t \in Tiles |-> RecoveredTile(Empty, t)]
    /\ origin = [t \in Tiles |-> RecoveredOrigin(Empty, t)]
    /\ removed = {}
    /\ reduced = <<>>
    /\ registry = {}
    /\ goods = Empty.goods
    /\ disk = Empty
    /\ aim = [p \in Players |-> NoAim]
    /\ clock = 0
    /\ beat = "tick"
    /\ server = "up"
    /\ spent = [b \in Bounded |-> 0]

Spend(b, bound) == spent[b] < bound /\ spent' = [spent EXCEPT ![b] = @ + 1]

Gains(p, x, n) == goods' = [goods EXCEPT ![p][x] = @ + n]

----------------------------------------------------------------------------
(* Sessions *)

(* runtime_tile_item or, when that finds nothing, validate_player_item_use:  *)
(* the handler decides by what lies there now which transfer it will ask for *)
(* by the place alone; a corpse's window keeps the place until it is closed. *)
LookAt(p, t, at) ==
    /\ server = "up" /\ aim[p] = NoAim
    /\ at \in DOMAIN ground[t]
    /\ \E kind \in IF at <= TailStart(t) THEN {"source"}
                   ELSE IF ground[t][at].thing = Corpse THEN {"runtime", "window"}
                   ELSE {"runtime"} :
           aim' = [aim EXCEPT ![p] = [kind |-> kind, tile |-> t, at |-> at]]
    /\ UNCHANGED <<memory, disk, clock, beat, server>>
    /\ Spend("looks", MaxLooks)

(* The transfer is refused, the window is closed, or the session ends. *)
LookAway(p) ==
    /\ server = "up" /\ aim[p] # NoAim
    /\ aim' = [aim EXCEPT ![p] = NoAim]
    /\ UNCHANGED <<memory, disk, clock, beat, server, spent>>

Aimed(p, kind) == server = "up" /\ aim[p].kind = kind

(* Mutant of DropStack: the stack stays in the inventory. *)
DropCopy(p, t, x, n) ==
    /\ server = "up" /\ aim[p] = NoAim
    /\ n \in 1..goods[p][x]
    /\ Appends(t, Plain(x, n), Never)
    /\ UNCHANGED <<origin, removed, reduced, goods>>
    /\ StoreAll
    /\ Spend("drops", MaxDrops)
    /\ UNCHANGED <<aim, clock, beat, server>>

(* move_player_stack_to_ground *)
DropStack(p, t, x, n) ==
    /\ server = "up" /\ aim[p] = NoAim
    /\ n \in 1..goods[p][x]
    /\ Appends(t, Plain(x, n), Never)
    /\ goods' = [goods EXCEPT ![p][x] = @ - n]
    /\ UNCHANGED <<origin, removed, reduced>>
    /\ StoreAll
    /\ Spend("drops", MaxDrops)
    /\ UNCHANGED <<aim, clock, beat, server>>

(* spawn_native_static_defeat_corpse and add_runtime_tile_item, from the     *)
(* session of the player that defeated the creature; the despawn tick is     *)
(* read from the world before the map is locked.                             *)
PlaceCorpse(t, n) ==
    /\ server = "up"
    /\ Appends(t, [thing |-> Corpse, count |-> 1, inside |-> n], clock + DecayAfter)
    /\ UNCHANGED <<origin, removed, reduced, goods>>
    /\ StoreRegistry
    /\ Spend("corpses", MaxCorpses)
    /\ UNCHANGED <<aim, clock, beat, server>>

(* Mutant of Renumbered: every record of the tile moves down. *)
AllRenumbered(reg, t, ordinal) ==
    {IF r.tile = t THEN [r EXCEPT !.ordinal = @ - 1] ELSE r : r \in reg}

(* Mutant of Renumbered: the records above keep their ordinals. *)
NotRenumbered(reg, t, ordinal) == reg

(* move_runtime_item_to_inventory looks the record up by the ordinal the *)
(* place has now.                                                        *)
Found(t, at, r) ==
    /\ at \in DOMAIN ground[t] /\ at > TailStart(t)
    /\ r \in Records(registry, t) /\ Place(r) = at

Renumbered(reg, t, ordinal) ==
    {IF r.tile = t /\ r.ordinal > ordinal THEN [r EXCEPT !.ordinal = @ - 1] ELSE r : r \in reg}

(* The whole item leaves the tile; what a corpse holds is not carried along. *)
TakeWhole(p) ==
    /\ Aimed(p, "runtime")
    /\ LET t == aim[p].tile
           at == aim[p].at
       IN  \E r \in registry :
               /\ Found(t, at, r)
               /\ registry' = Renumbered(registry \ {r}, t, r.ordinal)
               /\ Gains(p, ground[t][at].thing, ground[t][at].count)
               /\ ground' = [ground EXCEPT ![t] = Without(@, {at})]
    /\ UNCHANGED <<origin, removed, reduced>>
    /\ StoreAll
    /\ aim' = [aim EXCEPT ![p] = NoAim]
    /\ UNCHANGED <<clock, beat, server, spent>>

(* Only some of the stack: the rest stays, with the count the map had. *)
TakeSome(p, n) ==
    /\ Aimed(p, "runtime")
    /\ LET t == aim[p].tile
           at == aim[p].at
       IN  \E r \in registry :
               /\ Found(t, at, r)
               /\ n \in 1..(ground[t][at].count - 1)
               /\ registry' = (registry \ {r})
                    \cup {[r EXCEPT !.item.count = ground[t][at].count - n]}
               /\ Gains(p, ground[t][at].thing, n)
               /\ ground' = [ground EXCEPT ![t][at].count = @ - n]
    /\ UNCHANGED <<origin, removed, reduced>>
    /\ StoreAll
    /\ aim' = [aim EXCEPT ![p] = NoAim]
    /\ UNCHANGED <<clock, beat, server, spent>>

(* A stack out of the corpse whose window is open: whatever lies at the      *)
(* place now is taken for it, and stays on the tile when it becomes empty.   *)
TakeInside(p, n) ==
    /\ Aimed(p, "window")
    /\ LET t == aim[p].tile
           at == aim[p].at
       IN  \E r \in registry :
               /\ Found(t, at, r)
               /\ n \in 1..ground[t][at].inside
               /\ registry' = (registry \ {r})
                    \cup {[r EXCEPT !.item.inside = ground[t][at].inside - n]}
               /\ ground' = [ground EXCEPT ![t][at].inside = @ - n]
    /\ Gains(p, Loot, n)
    /\ UNCHANGED <<origin, removed, reduced>>
    /\ StoreAll
    /\ UNCHANGED <<aim, clock, beat, server, spent>>

(* Mutant of Reduced: the override of a stack stays when the rest is taken. *)
ReducedForever(id, rest) ==
    [i \in DOMAIN reduced \cup {id} |->
        IF i # id THEN reduced[i] ELSE IF rest = 0 THEN 1 ELSE rest]

(* The overrides when rest is left of an imported stack: a whole stack that *)
(* is taken has none.                                                      *)
Reduced(id, rest) ==
    IF rest = 0 THEN [i \in DOMAIN reduced \ {id} |-> reduced[i]]
    ELSE [i \in DOMAIN reduced \cup {id} |-> IF i = id THEN rest ELSE reduced[i]]

(* move_source_item_stack_to_equipment and _to_top_level_container *)
TakeSource(p, n) ==
    /\ Aimed(p, "source")
    /\ LET t == aim[p].tile
           at == aim[p].at
           id == <<t, origin[t][at]>>
           rest == ground[t][at].count - n
       IN  /\ at \in DOMAIN ground[t] /\ at \in DOMAIN origin[t]
           /\ id \notin removed
           /\ n \in 1..ground[t][at].count
           /\ Gains(p, ground[t][at].thing, n)
           /\ reduced' = Reduced(id, rest)
           /\ \/ /\ rest = 0
                 /\ ground' = [ground EXCEPT ![t] = Without(@, {at})]
                 /\ origin' = [origin EXCEPT ![t] = Without(@, {at})]
                 /\ removed' = removed \cup {id}
              \/ /\ rest > 0
                 /\ ground' = [ground EXCEPT ![t][at].count = rest]
                 /\ UNCHANGED <<origin, removed>>
    /\ UNCHANGED registry
    /\ StoreAll
    /\ aim' = [aim EXCEPT ![p] = NoAim]
    /\ UNCHANGED <<clock, beat, server, spent>>

----------------------------------------------------------------------------
(* The heartbeat thread *)

Tick ==
    /\ server = "up" /\ beat = "tick"
    /\ clock < MaxTicks
    /\ clock' = clock + 1
    /\ beat' = "decay"
    /\ UNCHANGED <<memory, disk, aim, server, spent>>

Expired == {r \in registry : r.due # Never /\ r.due <= clock}

(* remove_expired_runtime_items drops the records as they are numbered; the *)
(* survivors keep their ordinals.                                           *)
Survivors == registry \ Expired

Resolves == \A r \in Expired : Place(r) \in DOMAIN ground[r.tile]

Decay ==
    /\ server = "up" /\ beat = "decay"
    /\ Resolves
    /\ registry' = Survivors
    /\ ground' = [t \in Tiles |->
                     Without(ground[t], {Place(r) : r \in Records(Expired, t)})]
    /\ StoreRegistry
    /\ beat' = "tick"
    /\ UNCHANGED <<origin, removed, reduced, goods, aim, clock, server, spent>>

(* "an expired runtime item index no longer resolves" ends the thread. *)
DecayFails ==
    /\ server = "up" /\ beat = "decay"
    /\ ~Resolves
    /\ beat' = "ended"
    /\ UNCHANGED <<memory, disk, aim, clock, server, spent>>

----------------------------------------------------------------------------
(* The server stops at any moment and starts again *)

(* start_native_otclient_game_with_bridge, and the sessions that log in. *)
Restart ==
    /\ server = "up"
    /\ Recoverable(disk)
    /\ ground' = [t \in Tiles |-> RecoveredTile(disk, t)]
    /\ origin' = [t \in Tiles |-> RecoveredOrigin(disk, t)]
    /\ removed' = disk.removed
    /\ reduced' = disk.reduced
    /\ registry' = disk.registry
    /\ goods' = disk.goods
    /\ aim' = [p \in Players |-> NoAim]
    /\ clock' = 0
    /\ beat' = "tick"
    /\ Spend("starts", MaxStarts)
    /\ UNCHANGED <<disk, server>>

StartRefused ==
    /\ server = "up"
    /\ ~Recoverable(disk)
    /\ server' = "refused"
    /\ Spend("starts", MaxStarts)
    /\ UNCHANGED <<memory, disk, aim, clock, beat>>

----------------------------------------------------------------------------
Most == Max({1, MaxLoot} \cup {goods[p][x] : p \in Players, x \in Carried}
            \cup UNION {{i.count : i \in Range(ground[t])} : t \in Tiles})

SessionStep(p) ==
    \/ \E t \in Tiles, at \in 1..Limit : LookAt(p, t, at)
    \/ LookAway(p)
    \/ \E t \in Tiles, x \in Carried, n \in 1..Most : DropStack(p, t, x, n)
    \/ TakeWhole(p)
    \/ \E n \in 1..Most : TakeSome(p, n) \/ TakeInside(p, n) \/ TakeSource(p, n)

Next ==
    \/ \E p \in Players : SessionStep(p)
    \/ \E t \in Tiles, n \in 0..MaxLoot : PlaceCorpse(t, n)
    \/ Tick \/ Decay \/ DecayFails
    \/ Restart \/ StartRefused

Spec == Init /\ [][Next]_vars

----------------------------------------------------------------------------
(* Properties *)

(* Reading the journal, the reduced counts and the registry back rebuilds    *)
(* the tile that lies there now, stack by stack and with the same identities *)
(* of the imported items, and the inventories are stored as they are: nothing *)
(* that players took, dropped or looted comes back or is gone after a restart, *)
(* on every tile whose ordinals have no gap.  And a start refuses nothing the *)
(* server itself wrote except records with a gap in their ordinals.           *)
DiskRestoresTheGround ==
    /\ server = "up" =>
          /\ disk.goods = goods
          /\ \A t \in Tiles : Gapless(disk.registry, t) =>
                 /\ RecoveredTile(disk, t) = ground[t]
                 /\ RecoveredOrigin(disk, t) = origin[t]
    /\ (\A t \in Tiles : Gapless(disk.registry, t)) => Recoverable(disk)

(* Drops, corpses and pickups keep the ordinals of a tile contiguous, whatever *)
(* order they come in and however old the place is a client names; only the  *)
(* decay of a record below others leaves a gap.                              *)
OnlyDecayLeavesGaps ==
    [][\A t \in Tiles : Gapless(registry, t) /\ ~Gapless(registry', t) =>
           /\ beat = "decay"
           /\ \E r \in registry \ registry', q \in registry' :
                  r.tile = t /\ q.tile = t /\ r.ordinal < q.ordinal]_vars

(* Units of x in a stack that lies somewhere: itself, or the loot inside it. *)
Share(x, item) == (IF item.thing = x THEN item.count ELSE 0)
                  + (IF x = Loot THEN item.inside ELSE 0)

Units(x) ==
    SumFunction([p \in Players |-> goods[p][x]])
    + SumFunction([t \in Tiles |->
          SumFunction([k \in DOMAIN ground[t] |-> Share(x, ground[t][k])])])

Corpses ==
    SumFunction([t \in Tiles |->
        SumFunction([k \in DOMAIN ground[t] |-> IF ground[t][k].thing = Corpse THEN 1 ELSE 0])])

(* Between hands and tiles nothing is duplicated or lost, though players     *)
(* name items by places that have changed meanwhile: units appear only as    *)
(* the loot of a new corpse, and disappear only when the heartbeat lets      *)
(* corpses decay or when somebody carries a whole corpse away.               *)
NothingIsMadeOrLost ==
    [][\A x \in Things :
           /\ Units(x)' > Units(x) => x = Loot /\ Corpses' > Corpses
           /\ Units(x)' < Units(x) =>
                  \/ beat = "decay" /\ registry' # registry
                  \/ x = Loot /\ Corpses' < Corpses]_vars
=============================================================================
