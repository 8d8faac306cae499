----------------------------- MODULE Inventory -----------------------------
(****************************************************************************)
(* The inventory of one player, slot by slot: what is worn, what lies where *)
(* in the containers, and what lies in the items of those containers.       *)
(*                                                                          *)
(* Every request works on clones, puts them into the world and then writes  *)
(* the tables it names; when the world refuses, or the transaction fails,   *)
(* the session ends and the next login loads the rows.  No other thread     *)
(* takes part here: their races on the same inventory are in Bank, and the  *)
(* places on the ground are in Ground.                                      *)
(*                                                                          *)
(* A kind stands for a server id; action and unique ids, which the ground   *)
(* forgets, are left out.  Requests that the handlers defer without a change*)
(* are no steps.  Weights, what a dead player may not do and unmapped items,*)
(* which only defer, are left out, and so are the frames of top-level       *)
(* containers and corpse windows.                                           *)
(****************************************************************************)
EXTENDS Integers, Sequences, FiniteSets, SequencesExt

CONSTANTS Kinds,         \* kinds of items
          Slots,         \* equipment slots
          Backpack,      \* the slot whose use opens a container
          Ammo,          \* the slot distance weapons shoot from
          Ids,           \* container window ids
          Bags,          \* those of the containers the player owns
          Nested,        \* the owned ones marked as having a parent
          Capacity,      \* of a container
          MaxCount,      \* MAX_ITEM_STACK_COUNT
          Fits,          \* which kind may be put into which slot
          Edible,        \* kinds with a consumable effect
          Charged,       \* kinds that are runes
          Stock,         \* the stored inventory at first
          Closable,      \* bound: the windows the client closes
          MaxUsed,       \* bound: units consumed
          MaxHarm        \* bound: wrong steps after which requests still come

\* Contents are one level deep: insert_content refuses an item that has some.
PlainItems == [kind : Kinds, count : 1..MaxCount, contents : {<<>>}]
Items == [kind : Kinds, count : 1..MaxCount, contents : Seq(PlainItems)]

\* The table of the worn has no rows for contents.
ASSUME InventoryAssumption ==
    /\ Ids \subseteq Nat /\ IsFiniteSet(Bags) /\ IsFiniteSet(Slots)
    /\ {Capacity, MaxUsed} \subseteq Nat /\ MaxCount \in Nat \ {0}
    /\ Stock = [worn |-> Stock.worn, bags |-> Stock.bags]
    /\ Stock.worn \in [DOMAIN Stock.worn -> PlainItems] /\ DOMAIN Stock.worn \subseteq Slots
    /\ Stock.bags \in [Bags -> Seq(Items)]
    /\ \A c \in Bags : Len(Stock.bags[c]) <= Capacity

VARIABLES
    live,      \* equipment and containers of the player in WorldState
    rows,      \* the same in the database
    hollow,    \* tables last written without contents the world had
    ground,    \* units dropped, by kind
    phase,     \* "in" the game, the session is "ending", "out"
    closed,    \* closed_container_ids of the session
    windows,   \* open_content_windows: window id to container and index
    shown,     \* what the client was last sent for each of them
    outdated,  \* windows whose item another request has changed since
    used,      \* units consumed, by kind
    harm       \* what has gone wrong so far

vars == <<live, rows, hollow, ground, phase, closed, windows, shown, outdated, used, harm>>
views == <<closed, windows, shown>>

----------------------------------------------------------------------------
(* Items, stacks and containers *)

Item(kind, count, contents) ==
    [kind |-> kind, count |-> count, contents |-> contents]

IsItem(item) ==
    /\ DOMAIN item = {"kind", "count", "contents"}
    /\ item.kind \in Kinds /\ item.count \in 1..MaxCount

\* The parts a stack is split into: both keep the contents.
Part(item, n) == [item EXCEPT !.count = n]
Rest(item, n) == [item EXCEPT !.count = @ - n]

\* A container from whose item n units were taken.
WithoutKeepsEmpty(items, i, n) ==  \* mutant
    [items EXCEPT ![i] = Rest(@, n)]
Without(items, i, n) ==
    IF items[i].count = n THEN RemoveAt(items, i)
    ELSE [items EXCEPT ![i] = Rest(@, n)]

Alike(items, item) == {i \in DOMAIN items : items[i].kind = item.kind}
Roomy(items, item) ==
    {i \in Alike(items, item) : items[i].count + item.count <= MaxCount}

\* A stack goes to the first alike with room; it never starts a second one
\* beside alike stacks that are full.
Accepts(items, item) ==
    \/ Roomy(items, item) # {}
    \/ Alike(items, item) = {} /\ Len(items) < Capacity

Stacked(items, item) ==
    IF Roomy(items, item) # {}
    THEN LET i == Min(Roomy(items, item))
         IN  [items EXCEPT ![i].count = @ + item.count]
    ELSE Append(items, item)

\* Merging forgets the contents of what is merged; splitting copies them.
SplitHarm(item, n) ==
    IF item.contents # <<>> /\ n < item.count THEN {"copied"} ELSE {}
MergeHarm(item, merges) ==
    IF item.contents # <<>> /\ merges THEN {"forgotten"} ELSE {}

\* What lies in an item is gone when its last unit is dropped or consumed.
Spills(item, n) ==
    IF item.contents # <<>> /\ n = item.count THEN {"spilled"} ELSE {}

\* Equipment: a function on the occupied slots.
Worn(worn, slot, item) == [s \in DOMAIN worn \cup {slot} |->
                              IF s = slot THEN item ELSE worn[s]]
Bare(worn, slot) == Restrict(worn, DOMAIN worn \ {slot})
Lessened(worn, slot, n) ==
    IF worn[slot].count = n THEN Bare(worn, slot)
    ELSE [worn EXCEPT ![slot] = Rest(@, n)]

Inventory(worn, bags) == [worn |-> worn, bags |-> bags]

\* The item of a container at an index, or none.
ItemAt(bags, c, i) ==
    IF c \in DOMAIN bags /\ i \in DOMAIN bags[c] THEN <<bags[c][i]>> ELSE <<>>
Addressed(inventory, w) == ItemAt(inventory.bags, windows[w][1], windows[w][2])

----------------------------------------------------------------------------
(* Storing and showing *)

Ready == phase = "in" /\ Cardinality(harm) <= MaxHarm

Tables == {"worn", "bags"}

\* The table of the worn has no rows for contents, and of the transactions
\* that replace the containers only those of the inventory alone write them.
Hollowed(items) == [p \in DOMAIN items |-> [items[p] EXCEPT !.contents = <<>>]]
WornRows(inventory) == Hollowed(inventory.worn)
BagRows(inventory) == [c \in Bags |-> Hollowed(inventory.bags[c])]

\* The named tables hold the inventory now.
WriteRows(inventory, tables) ==
    LET written == Inventory(WornRows(inventory), inventory.bags)
    IN  /\ rows' = [t \in Tables |-> IF t \in tables THEN written[t] ELSE rows[t]]
        /\ hollow' = (hollow \ tables)
                         \cup {t \in tables : written[t] # inventory[t]}

\* So do both, but without contents.
WriteRowsWithGround(inventory) ==
    LET written == Inventory(WornRows(inventory), BagRows(inventory))
    IN  /\ rows' = written
        /\ hollow' = {t \in Tables : written[t] # inventory[t]}

\* The changed inventory is in the world; the named tables are replaced, or
\* the transaction fails and the error ends the session.
Stores(inventory, tables) ==
    /\ live' = inventory
    /\ \/ WriteRows(inventory, tables) /\ phase' = phase
       \/ phase' = "ending" /\ UNCHANGED <<rows, hollow>>

\* A request that names no content window leaves those windows alone.
LeavesWindows(inventory) ==
    /\ outdated' = outdated \cup
          {w \in DOMAIN windows : Addressed(inventory, w) # Addressed(live, w)}
    /\ UNCHANGED views

\* native_refresh_open_content_windows: windows whose item is gone or empty
\* are forgotten, all the others are sent again.
RefreshOnlyForgets(inventory) ==  \* mutant: what is left is not sent again
    LET open == {w \in DOMAIN windows :
                    /\ Addressed(inventory, w) # <<>>
                    /\ Addressed(inventory, w)[1].contents # <<>>}
    IN  /\ windows' = Restrict(windows, open)
        /\ shown' = Restrict(shown, open)
        /\ outdated' = {}
        /\ closed' = closed

RefreshWindows(inventory) ==
    LET open == {w \in DOMAIN windows :
                    /\ Addressed(inventory, w) # <<>>
                    /\ Addressed(inventory, w)[1].contents # <<>>}
    IN  /\ windows' = Restrict(windows, open)
        /\ shown' = [w \in open |-> Addressed(inventory, w)[1].contents]
        /\ outdated' = {}
        /\ closed' = closed

\* The world refuses, or a transaction fails before the world is changed: the
\* error leaves the handler and ends the session.
Refused ==
    /\ phase' = "ending"
    /\ UNCHANGED <<live, rows, hollow, ground, views, outdated, used, harm>>

Moves(inventory, tables, harms) ==
    /\ Stores(inventory, tables)
    /\ LeavesWindows(inventory)
    /\ harm' = harm \cup harms
    /\ UNCHANGED <<ground, used>>

----------------------------------------------------------------------------
(* Moves within the inventory *)

\* apply_native_throw_item_container_to_container for a top-level source.
MoveBetweenBags(c, i, d, n) ==
    /\ Ready
    /\ c # d /\ {c, d} \cap (closed \cup Nested) = {}
    /\ i \in DOMAIN live.bags[c] /\ n \in 1..live.bags[c][i].count
    /\ LET item == live.bags[c][i]
           moved == Part(item, n)
           merges == Roomy(live.bags[d], moved) # {}
       IN  IF Accepts(live.bags[d], moved)
           THEN Moves([live EXCEPT !.bags[c] = Without(@, i, n),
                                   !.bags[d] = Stacked(@, moved)],
                      {"bags"},
                      SplitHarm(item, n) \cup MergeHarm(moved, merges))
           ELSE Refused

\* The rest of the requests from a container into an equipment slot: a part
\* of a stack, a stack onto its like, an exchange, an item into a free slot.
StackToSlot(c, i, s, n) ==
    LET item == live.bags[c][i]
        moved == Part(item, n)
        occupied == s \in DOMAIN live.worn
        worn == IF occupied
                THEN [live.worn EXCEPT ![s].count = @ + n]
                ELSE Worn(live.worn, s, moved)
    IN  IF occupied /\ live.worn[s].count + n > MaxCount THEN Refused
        ELSE Moves([live EXCEPT !.worn = worn, !.bags[c] = Without(@, i, n)],
                   Tables,
                   SplitHarm(item, n) \cup MergeHarm(moved, occupied))

SwapForgetsDisplaced(c, i, s) ==  \* mutant: nothing goes back
    Moves([live EXCEPT !.worn[s] = live.bags[c][i], !.bags[c] = RemoveAt(@, i)],
          Tables, {})

SwapWithSlot(c, i, s) ==
    Moves([live EXCEPT !.worn[s] = live.bags[c][i], !.bags[c][i] = live.worn[s]],
          Tables, {})

ItemToSlot(c, i, s) ==
    Moves([live EXCEPT !.worn = Worn(@, s, live.bags[c][i]), !.bags[c] = RemoveAt(@, i)],
          Tables, {})

\* apply_native_throw_item_container_to_equipment for a top-level source.
MoveToSlot(c, i, s, n) ==
    /\ Ready
    /\ c \notin Nested
    /\ i \in DOMAIN live.bags[c] /\ n \in 1..live.bags[c][i].count
    /\ LET item == live.bags[c][i]
           free == s \notin DOMAIN live.worn
           alike == ~free /\ live.worn[s].kind = item.kind
       IN  \/ (alike \/ (free /\ n < item.count)) /\ StackToSlot(c, i, s, n)
           \/ ~free /\ ~alike /\ n = item.count /\ SwapWithSlot(c, i, s)
           \/ free /\ n = item.count /\ <<item.kind, s>> \in Fits /\ ItemToSlot(c, i, s)

\* Equipment to equipment: occupied slots are exchanged, and a free slot gets
\* the whole stack whatever count was asked for.  The latter writes the row
\* first and then the world.
SwapSlots(s, t) ==
    /\ Ready
    /\ s # t /\ {s, t} \subseteq DOMAIN live.worn
    /\ Moves([live EXCEPT !.worn[s] = live.worn[t], !.worn[t] = live.worn[s]],
             {"worn"}, {})

MoveSlot(s, t) ==
    /\ Ready
    /\ s \in DOMAIN live.worn /\ t \notin DOMAIN live.worn
    /\ LET worn == Worn(Bare(live.worn, s), t, live.worn[s])
       IN  \/ /\ WriteRows([live EXCEPT !.worn = worn], {"worn"})
              /\ live' = [live EXCEPT !.worn = worn]
              /\ UNCHANGED <<ground, phase, views, outdated, used, harm>>
           \/ Refused

\* From equipment onto an index of a container: an item of the kind at the
\* index makes it a stack move, which may end on another index; onto a free
\* index only whole items go.
StackToBag(s, c, n) ==
    LET item == live.worn[s]
        moved == Part(item, n)
        merges == Roomy(live.bags[c], moved) # {}
    IN  IF Accepts(live.bags[c], moved)
        THEN Moves([live EXCEPT !.worn = Lessened(@, s, n), !.bags[c] = Stacked(@, moved)],
                   Tables,
                   SplitHarm(item, n) \cup MergeHarm(moved, merges))
        ELSE Refused

ItemToBagHalfStored(s, c) ==  \* mutant: one table only
    IF Len(live.bags[c]) < Capacity
    THEN Moves([live EXCEPT !.worn = Bare(@, s), !.bags[c] = Append(@, live.worn[s])],
               {"worn"}, {})
    ELSE Refused

ItemToBag(s, c) ==
    IF Len(live.bags[c]) < Capacity
    THEN Moves([live EXCEPT !.worn = Bare(@, s), !.bags[c] = Append(@, live.worn[s])],
               Tables, {})
    ELSE Refused

MoveToBag(s, c, n, at) ==
    /\ Ready
    /\ c \notin Nested
    /\ s \in DOMAIN live.worn /\ n \in 1..live.worn[s].count
    /\ \/ /\ at \in Alike(live.bags[c], live.worn[s])
          /\ StackToBag(s, c, n)
       \/ /\ at = Len(live.bags[c]) + 1 /\ n = live.worn[s].count
          /\ ItemToBag(s, c)

----------------------------------------------------------------------------
(* Content windows *)

\* What the address of a window stands for now, as a place of the containers.
HasContent(w, j) ==
    LET found == Addressed(live, w) IN found # <<>> /\ j \in DOMAIN found[1].contents
Content(w, j) == Addressed(live, w)[1].contents[j]
WithoutContent(w, j) ==
    [live.bags EXCEPT ![windows[w][1]][windows[w][2]].contents = RemoveAt(@, j)]

MovesContent(inventory) ==
    /\ Stores(inventory, Tables)
    /\ IF phase' = "in" THEN RefreshWindows(inventory)
       ELSE UNCHANGED <<views, outdated>>
    /\ UNCHANGED <<ground, used, harm>>

\* Neither the item nor the count the client names is compared.  A target
\* with a parent is refused after the clone without the item was stored.
ContentToBag(w, j, d) ==
    /\ Ready
    /\ w \in DOMAIN windows
    /\ \/ (~HasContent(w, j) \/ d \notin Bags) /\ Refused
       \/ /\ HasContent(w, j) /\ d \in Nested
          /\ live' = [live EXCEPT !.bags = WithoutContent(w, j)]
          /\ phase' = "ending"
          /\ UNCHANGED <<rows, hollow, ground, views, outdated, used, harm>>
       \/ /\ HasContent(w, j) /\ d \in Bags \ Nested
          /\ LET bags == WithoutContent(w, j)
             IN  IF Accepts(bags[d], Content(w, j))
                 THEN MovesContent([live EXCEPT !.bags =
                          [bags EXCEPT ![d] = Stacked(@, Content(w, j))]])
                 ELSE Refused

ContentToSlot(w, j, s) ==
    /\ Ready
    /\ w \in DOMAIN windows
    /\ IF s \in DOMAIN live.worn \/ ~HasContent(w, j) THEN Refused
       ELSE MovesContent(Inventory(Worn(live.worn, s, Content(w, j)),
                                   WithoutContent(w, j)))

\* The lowest id that is neither an owned container nor such a window.
FreeIds == Ids \ (Bags \cup DOMAIN windows)

OpenContent(c, i) ==
    /\ Ready
    /\ i \in DOMAIN live.bags[c] /\ live.bags[c][i].contents # <<>>
    /\ FreeIds # {}
    /\ LET w == Min(FreeIds)
       IN  /\ windows' = [v \in DOMAIN windows \cup {w} |->
                             IF v = w THEN <<c, i>> ELSE windows[v]]
           /\ shown' = [v \in DOMAIN shown \cup {w} |->
                           IF v = w THEN live.bags[c][i].contents ELSE shown[v]]
    /\ UNCHANGED <<live, rows, hollow, ground, phase, closed, outdated, used, harm>>

CloseWindow(w) ==
    /\ Ready
    /\ w \in Closable
    /\ closed' = closed \cup {w}
    /\ windows' = Restrict(windows, DOMAIN windows \ {w})
    /\ shown' = Restrict(shown, DOMAIN shown \ {w})
    /\ outdated' = outdated \ {w}
    /\ UNCHANGED <<live, rows, hollow, ground, phase, used, harm>>

\* UpdateContainer, and the use of the backpack for the lowest container.
Reopen(c) ==
    /\ closed' = closed \ {c}
    /\ UNCHANGED <<live, rows, hollow, ground, phase, windows, shown, outdated, used, harm>>

UpdateContainer(c) == Ready /\ c \in Bags \ Nested /\ Reopen(c)

UseBackpack ==
    /\ Ready
    /\ Backpack \in DOMAIN live.worn
    /\ Bags \ Nested # {}
    /\ Reopen(Min(Bags \ Nested))

----------------------------------------------------------------------------
(* Ground *)

\* move_player_stack_to_ground: inventory and registry in one transaction.
\* What lay in a dropped item does not reach the registry.
Drops(inventory, item, n, harms) ==
    /\ live' = inventory /\ WriteRowsWithGround(inventory)
    /\ ground' = [ground EXCEPT ![item.kind] = @ + n]
    /\ harm' = harm \cup harms
    /\ UNCHANGED <<phase, used>>

DropWorn(s, n) ==
    /\ Ready
    /\ s \in DOMAIN live.worn /\ n \in 1..live.worn[s].count
    /\ \/ Refused
       \/ /\ Drops([live EXCEPT !.worn = Lessened(@, s, n)],
                   live.worn[s], n, Spills(live.worn[s], n))
          /\ UNCHANGED <<views, outdated>>

DropCarried(c, i, n) ==
    /\ Ready
    /\ c \notin closed
    /\ i \in DOMAIN live.bags[c] /\ n \in 1..live.bags[c][i].count
    /\ LET left == [live EXCEPT !.bags[c] = Without(@, i, n)]
       IN  \/ Refused
           \/ /\ Drops(left, live.bags[c][i], n, Spills(live.bags[c][i], n))
              /\ LeavesWindows(left)

\* The rest of a content stack taken in part is not put back.
DropContent(w, j, n) ==
    /\ Ready
    /\ w \in DOMAIN windows \ closed
    /\ HasContent(w, j) /\ n \in 1..Content(w, j).count
    /\ LET left == [live EXCEPT !.bags = WithoutContent(w, j)]
       IN  \/ Refused
           \/ /\ Drops(left, Content(w, j), n,
                       IF n < Content(w, j).count THEN {"discarded"} ELSE {})
              /\ RefreshWindows(left)

\* move_runtime_item_to_inventory: a stack of the ground, in one transaction.
Takes(inventory, kind, n) ==
    \/ Refused
    \/ /\ live' = inventory /\ WriteRowsWithGround(inventory)
       /\ ground' = [ground EXCEPT ![kind] = @ - n]
       /\ LeavesWindows(inventory)
       /\ UNCHANGED <<phase, used, harm>>

PickUpToSlot(kind, n, s) ==
    /\ Ready
    /\ n \in 1..ground[kind] /\ n <= MaxCount
    /\ \/ /\ s \notin DOMAIN live.worn
          /\ Takes([live EXCEPT !.worn = Worn(@, s, Item(kind, n, <<>>))], kind, n)
       \/ /\ s \in DOMAIN live.worn
          /\ live.worn[s].kind = kind /\ live.worn[s].count + n <= MaxCount
          /\ Takes([live EXCEPT !.worn[s].count = @ + n], kind, n)

PickUpToBag(kind, n, c) ==
    /\ Ready
    /\ n \in 1..ground[kind] /\ n <= MaxCount
    /\ c \notin closed \cup Nested
    /\ Accepts(live.bags[c], Item(kind, n, <<>>))
    /\ Takes([live EXCEPT !.bags[c] = Stacked(@, Item(kind, n, <<>>))], kind, n)

----------------------------------------------------------------------------
(* Consumption *)

Consumed(kind) == used' = [used EXCEPT ![kind] = @ + 1]
MayUse(kind) == used[kind] < MaxUsed

\* apply_native_owned_consumable_use.  From a slot the world comes first; an
\* error of the row ends the session before the effect.  From a container
\* only the row is written: the world keeps the unit.
EatWorn(s) ==
    /\ Ready
    /\ s \in DOMAIN live.worn
    /\ LET kind == live.worn[s].kind
           worn == Lessened(live.worn, s, 1)
       IN  /\ kind \in Edible /\ MayUse(kind)
           /\ live' = [live EXCEPT !.worn = worn]
           /\ \/ /\ WriteRows([live EXCEPT !.worn = worn], {"worn"})
                 /\ phase' = phase
                 /\ harm' = harm \cup Spills(live.worn[s], 1)
                 /\ Consumed(kind)
              \/ phase' = "ending" /\ UNCHANGED <<rows, hollow, used, harm>>
    /\ UNCHANGED <<ground, views, outdated>>

EatCarried(c, i) ==
    /\ Ready
    /\ i \in DOMAIN live.bags[c] /\ live.bags[c][i].contents = <<>>
    /\ LET kind == live.bags[c][i].kind
       IN  /\ kind \in Edible /\ MayUse(kind)
           /\ \/ /\ WriteRows([live EXCEPT !.bags[c] = Without(@, i, 1)], {"bags"})
                 /\ phase' = phase
                 /\ harm' = harm \cup {"unconsumed"}
                 /\ Consumed(kind)
              \/ phase' = "ending" /\ UNCHANGED <<rows, hollow, harm, used>>
    /\ UNCHANGED <<live, ground, views, outdated>>

\* consume_declared_rune_charge: the result of the row is ignored.
FireRune(c, i) ==
    /\ Ready
    /\ i \in DOMAIN live.bags[c]
    /\ LET kind == live.bags[c][i].kind
           left == [live EXCEPT !.bags[c] = Without(@, i, 1)]
           harms == Spills(live.bags[c][i], 1)
       IN  /\ kind \in Charged /\ MayUse(kind)
           /\ live' = left
           /\ Consumed(kind)
           /\ LeavesWindows(left)
           /\ \/ WriteRows(left, {"bags"}) /\ harm' = harm \cup harms
              \/ harm' = harm \cup harms \cup {"unsaved"} /\ UNCHANGED <<rows, hollow>>
    /\ UNCHANGED <<ground, phase>>

\* The shot of a distance weapon: no row is written at all.
ShootAmmo ==
    /\ Ready
    /\ Ammo \in DOMAIN live.worn
    /\ MayUse(live.worn[Ammo].kind)
    /\ live' = [live EXCEPT !.worn = Lessened(@, Ammo, 1)]
    /\ Consumed(live.worn[Ammo].kind)
    /\ harm' = harm \cup {"unsaved"}
    /\ UNCHANGED <<rows, hollow, ground, phase, views, outdated>>

----------------------------------------------------------------------------
(* The session *)

Login ==
    /\ phase = "out"
    /\ phase' = "in"
    /\ live' = rows
    /\ hollow' = {}
    /\ harm' = harm \cup (IF hollow # {} THEN {"unstored"} ELSE {})
    /\ UNCHANGED <<rows, ground, views, outdated, used>>

Disconnect ==
    /\ phase = "in"
    /\ phase' = "ending"
    /\ UNCHANGED <<live, rows, hollow, ground, views, outdated, used, harm>>

\* remove_player: equipment and containers leave the world unsaved, and the
\* locals of the session are gone.
Leave ==
    /\ phase = "ending"
    /\ phase' = "out"
    /\ live' = Inventory(<<>>, [c \in Bags |-> <<>>])
    /\ closed' = {} /\ windows' = <<>> /\ shown' = <<>> /\ outdated' = {}
    /\ UNCHANGED <<rows, hollow, ground, used, harm>>

Init ==
    /\ live = Inventory(<<>>, [c \in Bags |-> <<>>])
    /\ rows = Stock
    /\ hollow = {}
    /\ ground = [k \in Kinds |-> 0]
    /\ phase = "out"
    /\ closed = {} /\ windows = <<>> /\ shown = <<>> /\ outdated = {}
    /\ used = [k \in Kinds |-> 0]
    /\ harm = {}

Counts == 1..MaxCount
Places == 1..Capacity

MoveItems ==
    \/ \E c, d \in Bags, i \in Places, n \in Counts : MoveBetweenBags(c, i, d, n)
    \/ \E c \in Bags, i \in Places, s \in Slots, n \in Counts : MoveToSlot(c, i, s, n)
    \/ \E s, t \in Slots : SwapSlots(s, t) \/ MoveSlot(s, t)
    \/ \E s \in Slots, c \in Bags, n \in Counts, at \in 1..(Capacity + 1) :
          MoveToBag(s, c, n, at)

UseWindows ==
    \/ \E w, d \in Ids, j \in Places : ContentToBag(w, j, d)
    \/ \E w \in Ids, j \in Places, s \in Slots : ContentToSlot(w, j, s)
    \/ \E c \in Bags, i \in Places : OpenContent(c, i)
    \/ \E w \in Ids : CloseWindow(w) \/ UpdateContainer(w)
    \/ UseBackpack

UseGround ==
    \/ \E s \in Slots, n \in Counts : DropWorn(s, n)
    \/ \E c \in Bags, i \in Places, n \in Counts : DropCarried(c, i, n)
    \/ \E w \in Ids, j \in Places, n \in Counts : DropContent(w, j, n)
    \/ \E k \in Kinds, n \in Counts, s \in Slots : PickUpToSlot(k, n, s)
    \/ \E k \in Kinds, n \in Counts, c \in Bags : PickUpToBag(k, n, c)

Consume ==
    \/ \E s \in Slots : EatWorn(s)
    \/ \E c \in Bags, i \in Places : EatCarried(c, i) \/ FireRune(c, i)
    \/ ShootAmmo

Next == MoveItems \/ UseWindows \/ UseGround \/ Consume
        \/ Login \/ Disconnect \/ Leave

Spec == Init /\ [][Next]_vars

----------------------------------------------------------------------------
(* Properties *)

Bounded(inventory) ==
    /\ DOMAIN inventory.worn \subseteq Slots
    /\ DOMAIN inventory.bags = Bags
    /\ \A s \in DOMAIN inventory.worn : IsItem(inventory.worn[s])
    /\ \A c \in Bags :
          /\ Len(inventory.bags[c]) <= Capacity
          /\ \A i \in DOMAIN inventory.bags[c] : IsItem(inventory.bags[c][i])

\* No stack is empty or above its bound and no container above its capacity,
\* although exchanges and put-backs insert without asking for room.
TypeOK ==
    /\ Bounded(live) /\ Bounded(rows)
    /\ ground \in [Kinds -> Nat] /\ used \in [Kinds -> 0..MaxUsed]
    /\ hollow \subseteq Tables
    /\ phase \in {"in", "ending", "out"}
    /\ closed \subseteq Ids /\ outdated \subseteq DOMAIN windows
    /\ DOMAIN windows \subseteq Ids \ Bags /\ DOMAIN shown = DOMAIN windows
    /\ harm \subseteq {"copied", "forgotten", "spilled", "discarded",
                       "unconsumed", "unsaved", "unstored"}

\* Units of a kind in a stack and what it holds, in a container, in all.
Own(item, k) == IF item.kind = k THEN item.count ELSE 0
UnitsOf(item, k) ==
    Own(item, k)
    + SumFunction([j \in DOMAIN item.contents |-> Own(item.contents[j], k)])
Inside(items, k) == SumFunction([i \in DOMAIN items |-> UnitsOf(items[i], k)])
Units(inventory, k) ==
    SumFunction([s \in DOMAIN inventory.worn |-> UnitsOf(inventory.worn[s], k)])
    + SumFunction([c \in DOMAIN inventory.bags |-> Inside(inventory.bags[c], k)])

\* Whatever a player moves, wears, drops, picks up and consumes, in whatever
\* windows, and however often a refusal or a failed transaction ends the
\* session: what is owned, lies on the ground and was consumed is what there
\* was at first, for the inventory in the world and for the stored one unless
\* contents are missing there.  Only stacking, splitting, dropping and
\* consuming items with contents, taking a part of a content stack, consumption
\* that is not stored and a login that finds contents missing make or lose units.
UnitsAreKept ==
    harm = {} =>
        \A k \in Kinds :
            LET kept(inventory) ==
                    Units(inventory, k) + ground[k] + used[k] = Units(Stock, k)
            IN  (phase = "in" => kept(live)) /\ (hollow = {} => kept(rows))

\* Each request stores all it changed: while the session goes on the rows are
\* the inventory of the world, but for consumption, and for contents until a
\* transaction writes them.
RowsKeepUp ==
    phase = "in" /\ harm \cap {"unconsumed", "unsaved"} = {} =>
        /\ rows.worn = WornRows(live)
        /\ rows.bags = IF "bags" \in hollow THEN BagRows(live) ELSE live.bags
        /\ "worn" \notin hollow => rows.worn = live.worn

\* A content window the session still knows shows the item it stands for, so
\* that a take by place takes what the client saw, until a request that names
\* no content window changes that item or moves it to another index.
WindowsShowTheirItem ==
    phase = "in" =>
        \A w \in DOMAIN windows \ outdated :
            \E item \in ToSet(Addressed(live, w)) : shown[w] = item.contents
=============================================================================
