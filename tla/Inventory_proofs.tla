-------------------------- MODULE Inventory_proofs --------------------------
(***************************************************************************)
(* Proofs about Inventory for every set of kinds, slots, containers and    *)
(* windows, every capacity and stack bound and every stored inventory.     *)
(*                                                                         *)
(* First what the operators on stacks and containers do to well-formed     *)
(* ones; then what each request makes of the inventory (Good), what it     *)
(* stores of it (Stored) and which windows it leaves to be sent again      *)
(* (Viewed); three of the invariants follow from these.  UnitsAreKept also *)
(* takes what each request does to the sums over slots, containers and     *)
(* contents (Balances).                                                    *)
(***************************************************************************)
EXTENDS Inventory, FiniteSetTheorems, SequenceTheorems, TLAPS

Wearings == UNION {[S -> Items] : S \in SUBSET Slots}
Carried == [Bags -> Seq(Items)]
Inventories == [worn : Wearings, bags : Carried]

(* An inventory of whole stacks in which no container is too full. *)
Good(inventory) ==
    /\ inventory \in Inventories
    /\ \A c \in Bags : Len(inventory.bags[c]) <= Capacity

----------------------------------------------------------------------------
(* Items and stacks *)

LEMMA ItemFields ==
  ASSUME NEW item \in Items
  PROVE  /\ item.kind \in Kinds /\ item.count \in 1..MaxCount
         /\ item.contents \in Seq(PlainItems)
         /\ item.count \in Nat /\ item.count >= 1 /\ item.count <= MaxCount
         /\ DOMAIN item = {"kind", "count", "contents"}
BY InventoryAssumption DEF Items

LEMMA PlainItemsAreItems == PlainItems \subseteq Items
BY EmptySeq DEF PlainItems, Items

(* A part of a stack is one, and so is the rest of it. *)
LEMMA PartIs ==
  ASSUME NEW item \in Items, NEW n \in 1..MaxCount
  PROVE  /\ Part(item, n) \in Items
         /\ Part(item, n).kind = item.kind /\ Part(item, n).count = n
         /\ Part(item, n).contents = item.contents
BY DEF Items, Part

LEMMA RestIs ==
  ASSUME NEW item \in Items, NEW n \in 1..item.count, n # item.count
  PROVE  Rest(item, n) \in Items /\ Rest(item, n).contents = item.contents
<1>1. item.count - n \in 1..MaxCount
  BY ItemFields, InventoryAssumption
<1> QED
  BY <1>1 DEF Items, Rest

LEMMA MoreIs ==
  ASSUME NEW item \in Items, NEW n \in Nat, item.count + n <= MaxCount
  PROVE  [item EXCEPT !.count = @ + n] \in Items
<1>1. item.count + n \in 1..MaxCount
  BY ItemFields, InventoryAssumption
<1> QED
  BY <1>1 DEF Items

LEMMA NoContentsIs ==
  ASSUME NEW item \in Items
  PROVE  /\ [item EXCEPT !.contents = <<>>] \in PlainItems
         /\ [[item EXCEPT !.contents = <<>>] EXCEPT !.contents = <<>>]
               = [item EXCEPT !.contents = <<>>]
BY DEF Items, PlainItems

LEMMA ItemsOf ==
  ASSUME NEW T, NEW items \in Seq(T)
  PROVE  /\ DOMAIN items = 1..Len(items) /\ Len(items) \in Nat
         /\ \A i \in DOMAIN items : items[i] \in T
BY LenProperties, ElementOfSeq

(* Updating a sequence at an index. *)
LEMMA SetAt ==
  ASSUME NEW T, NEW items \in Seq(T), NEW i \in DOMAIN items, NEW x \in T
  PROVE  /\ [items EXCEPT ![i] = x] \in Seq(T)
         /\ Len([items EXCEPT ![i] = x]) = Len(items)
BY ExceptSeq, ItemsOf

LEMMA RemoveAtIs ==
  ASSUME NEW T, NEW s \in Seq(T), NEW i \in DOMAIN s
  PROVE  RemoveAt(s, i) \in Seq(T) /\ Len(RemoveAt(s, i)) = Len(s) - 1
<1> DEFINE a == SubSeq(s, 1, i - 1)
           b == SubSeq(s, i + 1, Len(s))
<1>0. Len(s) \in Nat /\ i \in 1..Len(s) /\ \A j \in 1..Len(s) : s[j] \in T
  BY ItemsOf
<1>1. a \in Seq(T) /\ Len(a) = i - 1
  <2>1. \A j \in 1..(i - 1) : s[j] \in T
    BY <1>0
  <2>2. a \in Seq(T) /\ Len(a) = IF 1 <= i - 1 THEN (i - 1) - 1 + 1 ELSE 0
    BY <1>0, <2>1, SubSeqProperties
  <2> HIDE DEF a
  <2> QED BY <1>0, <2>2
<1>2. b \in Seq(T) /\ Len(b) = Len(s) - i
  <2>1. \A j \in (i + 1)..Len(s) : s[j] \in T
    BY <1>0
  <2>2. b \in Seq(T) /\ Len(b) = IF i + 1 <= Len(s) THEN Len(s) - (i + 1) + 1 ELSE 0
    BY <1>0, <2>1, SubSeqProperties
  <2> HIDE DEF b
  <2> QED BY <1>0, <2>2
<1>3. RemoveAt(s, i) = a \o b
  BY DEF RemoveAt
<1> HIDE DEF a, b
<1>4. a \o b \in Seq(T) /\ Len(a \o b) = Len(a) + Len(b)
  BY <1>1, <1>2, ConcatProperties
<1> QED
  BY <1>0, <1>1, <1>2, <1>3, <1>4

(* The least member of a set of natural numbers. *)
LEMMA Least ==
  ASSUME NEW S, S \subseteq Nat, S # {}
  PROVE  \E least \in S : \A q \in S : least <= q
<1> DEFINE R == OpToRel(<, Nat)
<1>1. IsWellFoundedOn(R, Nat)
  BY NatLessThanWellFounded
<1>2. \A x, y \in Nat : <<x, y>> \in R <=> x < y
  BY DEF OpToRel
<1> HIDE DEF R
<1>3. PICK least \in S : \A q \in S : <<q, least>> \notin R
  BY <1>1, WFMin
<1>4. ASSUME NEW q \in S
      PROVE  least <= q
  <2>1. q \in Nat /\ least \in Nat
    OBVIOUS
  <2>2. ~ (q < least)
    BY <1>2, <1>3, <2>1
  <2> QED BY <2>1, <2>2
<1> QED
  BY <1>4

LEMMA MinIs ==
  ASSUME NEW S \in SUBSET Nat, S # {}
  PROVE  Min(S) \in S
BY Least DEF Min

----------------------------------------------------------------------------
(* Containers *)

(* Taking units of one item out of a container. *)
LEMMA WithoutIs ==
  ASSUME NEW items \in Seq(Items), NEW i \in DOMAIN items, NEW n \in 1..items[i].count
  PROVE  Without(items, i, n) \in Seq(Items) /\ Len(Without(items, i, n)) <= Len(items)
<1>0. items[i] \in Items /\ Len(items) \in Nat
  BY ItemsOf
<1>1. CASE items[i].count = n
  BY <1>0, <1>1, RemoveAtIs DEF Without
<1>2. CASE items[i].count # n
  <2>1. Rest(items[i], n) \in Items
    BY <1>0, <1>2, RestIs
  <2>2. Without(items, i, n) = [items EXCEPT ![i] = Rest(items[i], n)]
    BY <1>2 DEF Without
  <2>3. /\ [items EXCEPT ![i] = Rest(items[i], n)] \in Seq(Items)
        /\ Len([items EXCEPT ![i] = Rest(items[i], n)]) = Len(items)
    BY <2>1, SetAt
  <2> QED BY <1>0, <2>2, <2>3
<1> QED
  BY <1>1, <1>2

(* Stacking an item where the container accepts it. *)
LEMMA StackedIs ==
  ASSUME NEW items \in Seq(Items), NEW item \in Items, Accepts(items, item),
         Len(items) <= Capacity
  PROVE  Stacked(items, item) \in Seq(Items) /\ Len(Stacked(items, item)) <= Capacity
<1>0. Len(items) \in Nat /\ DOMAIN items = 1..Len(items) /\ Capacity \in Nat
  BY ItemsOf, InventoryAssumption
<1>1. CASE Roomy(items, item) # {}
  <2> DEFINE i == Min(Roomy(items, item))
             more == [items[i] EXCEPT !.count = @ + item.count]
  <2>1. i \in Roomy(items, item)
    <3>1. Roomy(items, item) \in SUBSET Nat
      BY <1>0 DEF Roomy, Alike
    <3> QED BY <1>1, <3>1, MinIs
  <2>2. i \in DOMAIN items /\ items[i] \in Items /\ items[i].count + item.count <= MaxCount
    BY <2>1, ItemsOf DEF Roomy, Alike
  <2>3. item.count \in Nat
    BY ItemFields
  <2>4. more \in Items
    <3> HIDE DEF i
    <3> QED BY <2>2, <2>3, MoreIs
  <2>5. Stacked(items, item) = [items EXCEPT ![i] = more]
    BY <1>1 DEF Stacked
  <2> HIDE DEF i, more
  <2>6. /\ [items EXCEPT ![i] = more] \in Seq(Items)
        /\ Len([items EXCEPT ![i] = more]) = Len(items)
    BY <2>2, <2>4, SetAt
  <2> QED BY <1>0, <2>5, <2>6
<1>2. CASE Roomy(items, item) = {}
  <2>1. Len(items) < Capacity /\ Stacked(items, item) = Append(items, item)
    BY <1>2 DEF Accepts, Stacked
  <2>2. Append(items, item) \in Seq(Items) /\ Len(Append(items, item)) = Len(items) + 1
    BY AppendProperties
  <2> QED BY <1>0, <2>1, <2>2
<1> QED
  BY <1>1, <1>2

----------------------------------------------------------------------------
(* Equipment *)

LEMMA WearingsAre ==
  ASSUME NEW worn \in Wearings
  PROVE  /\ DOMAIN worn \subseteq Slots /\ worn \in [DOMAIN worn -> Items]
         /\ \A s \in DOMAIN worn : worn[s] \in Items
BY DEF Wearings

LEMMA WearingsIf ==
  ASSUME NEW S \in SUBSET Slots, NEW worn \in [S -> Items]
  PROVE  worn \in Wearings
BY DEF Wearings

LEMMA WornIs ==
  ASSUME NEW worn \in Wearings, NEW s \in Slots, NEW item \in Items
  PROVE  Worn(worn, s, item) \in Wearings
<1>1. Worn(worn, s, item) \in [DOMAIN worn \cup {s} -> Items]
  BY WearingsAre DEF Worn
<1> QED
  BY <1>1, WearingsAre, WearingsIf

LEMMA BareIs ==
  ASSUME NEW worn \in Wearings, NEW s
  PROVE  Bare(worn, s) \in Wearings
<1>1. Bare(worn, s) \in [DOMAIN worn \ {s} -> Items]
  BY WearingsAre DEF Bare, Restrict
<1> QED
  BY <1>1, WearingsAre, WearingsIf

LEMMA PutOnIs ==
  ASSUME NEW worn \in Wearings, NEW s \in DOMAIN worn, NEW item \in Items
  PROVE  [worn EXCEPT ![s] = item] \in Wearings
<1>1. [worn EXCEPT ![s] = item] \in [DOMAIN worn -> Items]
  BY WearingsAre
<1> QED
  BY <1>1, WearingsAre, WearingsIf

LEMMA LessenedIs ==
  ASSUME NEW worn \in Wearings, NEW s \in DOMAIN worn, NEW n \in 1..worn[s].count
  PROVE  Lessened(worn, s, n) \in Wearings
<1>1. CASE worn[s].count = n
  BY <1>1, BareIs DEF Lessened
<1>2. CASE worn[s].count # n
  <2>1. Rest(worn[s], n) \in Items
    BY <1>2, WearingsAre, RestIs
  <2> QED BY <1>2, <2>1, PutOnIs DEF Lessened
<1> QED
  BY <1>1, <1>2

----------------------------------------------------------------------------
(* Inventories *)

Roomed(bags) == bags \in Carried /\ \A c \in Bags : Len(bags[c]) <= Capacity

LEMMA GoodParts ==
  ASSUME NEW inventory, Good(inventory)
  PROVE  /\ inventory.worn \in Wearings /\ Roomed(inventory.bags)
         /\ inventory = [worn |-> inventory.worn, bags |-> inventory.bags]
BY DEF Good, Inventories, Roomed

LEMMA GoodIf ==
  ASSUME NEW worn \in Wearings, NEW bags, Roomed(bags)
  PROVE  Good([worn |-> worn, bags |-> bags])
BY DEF Good, Inventories, Roomed

LEMMA BagOf ==
  ASSUME NEW bags, Roomed(bags), NEW c \in Bags
  PROVE  /\ bags[c] \in Seq(Items) /\ Len(bags[c]) \in Nat /\ Len(bags[c]) <= Capacity
         /\ DOMAIN bags[c] = 1..Len(bags[c])
         /\ \A i \in DOMAIN bags[c] : bags[c][i] \in Items
<1>1. bags[c] \in Seq(Items) /\ Len(bags[c]) <= Capacity
  BY DEF Roomed, Carried
<1> QED
  BY <1>1, ItemsOf

LEMMA NewBag ==
  ASSUME NEW bags, Roomed(bags), NEW c \in Bags, NEW items \in Seq(Items),
         Len(items) <= Capacity
  PROVE  Roomed([bags EXCEPT ![c] = items])
BY DEF Roomed, Carried

(* The forms in which the requests change an inventory. *)
NewWorn(inventory, w) == [inventory EXCEPT !.worn = w]
NewSlot(inventory, s, x) == [inventory EXCEPT !.worn[s] = x]
NewSlots(inventory, s, x, t, y) == [inventory EXCEPT !.worn[s] = x, !.worn[t] = y]
NewBags(inventory, b) == [inventory EXCEPT !.bags = b]
NewIn(inventory, c, q) == [inventory EXCEPT !.bags[c] = q]
NewInTwo(inventory, c, q, d, r) == [inventory EXCEPT !.bags[c] = q, !.bags[d] = r]
NewWornAndIn(inventory, w, c, q) == [inventory EXCEPT !.worn = w, !.bags[c] = q]
NewSlotAndIn(inventory, s, x, c, q) == [inventory EXCEPT !.worn[s] = x, !.bags[c] = q]

LEMMA RecordIs ==
  ASSUME NEW r, DOMAIN r = {"worn", "bags"}, r = [x \in DOMAIN r |-> r[x]], NEW w, NEW b,
         r.worn = w, r.bags = b
  PROVE  r = [worn |-> w, bags |-> b]
OBVIOUS

LEMMA NewWornIs ==
  ASSUME NEW inventory \in Inventories, NEW w
  PROVE  NewWorn(inventory, w)
           = [worn |-> w,
              bags |-> inventory.bags]
<1> DEFINE i == NewWorn(inventory, w)
<1>1. DOMAIN i = {"worn", "bags"} /\ i = [z \in DOMAIN i |-> i[z]]
  BY DEF Inventories, NewWorn
<1>2. i.worn = w
  BY DEF Inventories, NewWorn
<1>3. i.bags = inventory.bags
  BY DEF Inventories, NewWorn
<1> HIDE DEF i
<1>4. i = [worn |-> w,
           bags |-> inventory.bags]
  BY <1>1, <1>2, <1>3, RecordIs
<1> QED
  BY <1>4 DEF i

LEMMA NewSlotIs ==
  ASSUME NEW inventory \in Inventories, NEW s, NEW x
  PROVE  NewSlot(inventory, s, x)
           = [worn |-> [inventory.worn EXCEPT ![s] = x],
              bags |-> inventory.bags]
<1> DEFINE i == NewSlot(inventory, s, x)
<1>1. DOMAIN i = {"worn", "bags"} /\ i = [z \in DOMAIN i |-> i[z]]
  BY DEF Inventories, NewSlot
<1>2. i.worn = [inventory.worn EXCEPT ![s] = x]
  BY DEF Inventories, NewSlot
<1>3. i.bags = inventory.bags
  BY DEF Inventories, NewSlot
<1> HIDE DEF i
<1>4. i = [worn |-> [inventory.worn EXCEPT ![s] = x],
           bags |-> inventory.bags]
  BY <1>1, <1>2, <1>3, RecordIs
<1> QED
  BY <1>4 DEF i

LEMMA NewSlotsIs ==
  ASSUME NEW inventory \in Inventories, NEW s, NEW x, NEW t, NEW y
  PROVE  NewSlots(inventory, s, x, t, y)
           = [worn |-> [[inventory.worn EXCEPT ![s] = x] EXCEPT ![t] = y],
              bags |-> inventory.bags]
<1> DEFINE i == NewSlots(inventory, s, x, t, y)
<1>1. DOMAIN i = {"worn", "bags"} /\ i = [z \in DOMAIN i |-> i[z]]
  BY DEF Inventories, NewSlots
<1>2. i.worn = [[inventory.worn EXCEPT ![s] = x] EXCEPT ![t] = y]
  BY DEF Inventories, NewSlots
<1>3. i.bags = inventory.bags
  BY DEF Inventories, NewSlots
<1> HIDE DEF i
<1>4. i = [worn |-> [[inventory.worn EXCEPT ![s] = x] EXCEPT ![t] = y],
           bags |-> inventory.bags]
  BY <1>1, <1>2, <1>3, RecordIs
<1> QED
  BY <1>4 DEF i

LEMMA NewBagsIs ==
  ASSUME NEW inventory \in Inventories, NEW b
  PROVE  NewBags(inventory, b)
           = [worn |-> inventory.worn,
              bags |-> b]
<1> DEFINE i == NewBags(inventory, b)
<1>1. DOMAIN i = {"worn", "bags"} /\ i = [z \in DOMAIN i |-> i[z]]
  BY DEF Inventories, NewBags
<1>2. i.worn = inventory.worn
  BY DEF Inventories, NewBags
<1>3. i.bags = b
  BY DEF Inventories, NewBags
<1> HIDE DEF i
<1>4. i = [worn |-> inventory.worn,
           bags |-> b]
  BY <1>1, <1>2, <1>3, RecordIs
<1> QED
  BY <1>4 DEF i

LEMMA NewInIs ==
  ASSUME NEW inventory \in Inventories, NEW c, NEW q
  PROVE  NewIn(inventory, c, q)
           = [worn |-> inventory.worn,
              bags |-> [inventory.bags EXCEPT ![c] = q]]
<1> DEFINE i == NewIn(inventory, c, q)
<1>1. DOMAIN i = {"worn", "bags"} /\ i = [z \in DOMAIN i |-> i[z]]
  BY DEF Inventories, NewIn
<1>2. i.worn = inventory.worn
  BY DEF Inventories, NewIn
<1>3. i.bags = [inventory.bags EXCEPT ![c] = q]
  BY DEF Inventories, NewIn
<1> HIDE DEF i
<1>4. i = [worn |-> inventory.worn,
           bags |-> [inventory.bags EXCEPT ![c] = q]]
  BY <1>1, <1>2, <1>3, RecordIs
<1> QED
  BY <1>4 DEF i

LEMMA NewInTwoIs ==
  ASSUME NEW inventory \in Inventories, NEW c, NEW q, NEW d, NEW r
  PROVE  NewInTwo(inventory, c, q, d, r)
           = [worn |-> inventory.worn,
              bags |-> [[inventory.bags EXCEPT ![c] = q] EXCEPT ![d] = r]]
<1> DEFINE i == NewInTwo(inventory, c, q, d, r)
<1>1. DOMAIN i = {"worn", "bags"} /\ i = [z \in DOMAIN i |-> i[z]]
  BY DEF Inventories, NewInTwo
<1>2. i.worn = inventory.worn
  BY DEF Inventories, NewInTwo
<1>3. i.bags = [[inventory.bags EXCEPT ![c] = q] EXCEPT ![d] = r]
  BY DEF Inventories, NewInTwo
<1> HIDE DEF i
<1>4. i = [worn |-> inventory.worn,
           bags |-> [[inventory.bags EXCEPT ![c] = q] EXCEPT ![d] = r]]
  BY <1>1, <1>2, <1>3, RecordIs
<1> QED
  BY <1>4 DEF i

LEMMA NewWornAndInIs ==
  ASSUME NEW inventory \in Inventories, NEW w, NEW c, NEW q
  PROVE  NewWornAndIn(inventory, w, c, q)
           = [worn |-> w,
              bags |-> [inventory.bags EXCEPT ![c] = q]]
<1> DEFINE i == NewWornAndIn(inventory, w, c, q)
<1>1. DOMAIN i = {"worn", "bags"} /\ i = [z \in DOMAIN i |-> i[z]]
  BY DEF Inventories, NewWornAndIn
<1>2. i.worn = w
  BY DEF Inventories, NewWornAndIn
<1>3. i.bags = [inventory.bags EXCEPT ![c] = q]
  BY DEF Inventories, NewWornAndIn
<1> HIDE DEF i
<1>4. i = [worn |-> w,
           bags |-> [inventory.bags EXCEPT ![c] = q]]
  BY <1>1, <1>2, <1>3, RecordIs
<1> QED
  BY <1>4 DEF i

LEMMA NewSlotAndInIs ==
  ASSUME NEW inventory \in Inventories, NEW s, NEW x, NEW c, NEW q
  PROVE  NewSlotAndIn(inventory, s, x, c, q)
           = [worn |-> [inventory.worn EXCEPT ![s] = x],
              bags |-> [inventory.bags EXCEPT ![c] = q]]
<1> DEFINE i == NewSlotAndIn(inventory, s, x, c, q)
<1>1. DOMAIN i = {"worn", "bags"} /\ i = [z \in DOMAIN i |-> i[z]]
  BY DEF Inventories, NewSlotAndIn
<1>2. i.worn = [inventory.worn EXCEPT ![s] = x]
  BY DEF Inventories, NewSlotAndIn
<1>3. i.bags = [inventory.bags EXCEPT ![c] = q]
  BY DEF Inventories, NewSlotAndIn
<1> HIDE DEF i
<1>4. i = [worn |-> [inventory.worn EXCEPT ![s] = x],
           bags |-> [inventory.bags EXCEPT ![c] = q]]
  BY <1>1, <1>2, <1>3, RecordIs
<1> QED
  BY <1>4 DEF i

(* Only the named tables of the live inventory change. *)
Changes(inventory, tables) ==
    /\ Good(inventory)
    /\ tables \subseteq Tables
    /\ "worn" \notin tables => inventory.worn = live.worn
    /\ "bags" \notin tables => inventory.bags = live.bags

Harms == {"copied", "forgotten", "spilled", "discarded",
          "unconsumed", "unsaved", "unstored"}

Typed ==
    /\ Good(live) /\ Good(rows)
    /\ ground \in [Kinds -> Nat] /\ used \in [Kinds -> 0..MaxUsed]
    /\ hollow \subseteq Tables
    /\ phase \in {"in", "ending", "out"}
    /\ harm \subseteq Harms

(* What a step makes of the inventory, and what of it is stored. *)
Stored ==
    \/ phase' = "ending" /\ Good(live') /\ UNCHANGED <<rows, hollow>>
    \/ phase' = phase /\ UNCHANGED <<live, rows, hollow>>
    \/ /\ phase' = phase
       /\ \E tables : Changes(live', tables) /\ WriteRows(live', tables)
    \/ phase' = phase /\ Good(live') /\ WriteRowsWithGround(live')
    \/ /\ phase' = phase /\ Good(live')
       /\ harm' \cap {"unconsumed", "unsaved"} # {}
       /\ \/ UNCHANGED <<rows, hollow>>
          \/ \E inventory, tables :
                Good(inventory) /\ tables \subseteq Tables /\ WriteRows(inventory, tables)

(* Which windows it leaves as they are, and which it sends again. *)
Viewed ==
    \/ phase' = "ending" /\ UNCHANGED <<views, outdated>>
    \/ LeavesWindows(live')
    \/ RefreshWindows(live')
    \/ live'.bags = live.bags /\ UNCHANGED <<views, outdated>>

Counted ==
    /\ ground' \in [Kinds -> Nat] /\ used' \in [Kinds -> 0..MaxUsed]
    /\ harm \subseteq harm' /\ harm' \subseteq Harms

Does == Stored /\ Viewed /\ Counted

LEMMA RefusedDoes ==
  ASSUME Typed, Refused
  PROVE  Does
BY DEF Typed, Refused, Does, Stored, Viewed, Counted

LEMMA MovesDoes ==
  ASSUME Typed, NEW inventory, NEW tables, NEW harms, Moves(inventory, tables, harms),
         Changes(inventory, tables), harms \subseteq Harms
  PROVE  Does
<1>1. live' = inventory
  BY DEF Moves, Stores
<1>2. Stored
  BY <1>1 DEF Moves, Stores, Stored, Changes
<1>3. Viewed
  BY <1>1 DEF Moves, Viewed
<1>4. Counted
  BY DEF Moves, Counted, Typed
<1> QED
  BY <1>2, <1>3, <1>4 DEF Does

LEMMA HarmsAre ==
  ASSUME NEW item, NEW n, NEW merges
  PROVE  /\ SplitHarm(item, n) \subseteq Harms /\ MergeHarm(item, merges) \subseteq Harms
         /\ Spills(item, n) \subseteq Harms
         /\ SplitHarm(item, n) \cup MergeHarm(item, merges) \subseteq Harms
BY DEF SplitHarm, MergeHarm, Spills, Harms

LEMMA LiveIs ==
  ASSUME Typed
  PROVE  /\ live \in Inventories /\ live.worn \in Wearings /\ Roomed(live.bags)
         /\ \A s \in DOMAIN live.worn : s \in Slots /\ live.worn[s] \in Items
BY GoodParts, WearingsAre DEF Typed, Good

LEMMA WornChange ==
  ASSUME Typed, NEW worn \in Wearings
  PROVE  Changes([worn |-> worn, bags |-> live.bags], {"worn"})
BY LiveIs, GoodIf DEF Changes, Tables

LEMMA BagsChange ==
  ASSUME Typed, NEW bags, Roomed(bags)
  PROVE  Changes([worn |-> live.worn, bags |-> bags], {"bags"})
BY LiveIs, GoodIf DEF Changes, Tables

LEMMA BothChange ==
  ASSUME NEW worn \in Wearings, NEW bags, Roomed(bags)
  PROVE  Changes([worn |-> worn, bags |-> bags], Tables)
BY GoodIf DEF Changes, Tables

LEMMA NewBagOfLive ==
  ASSUME Typed, NEW c \in Bags, NEW items \in Seq(Items), Len(items) <= Capacity
  PROVE  Roomed([live.bags EXCEPT ![c] = items])
BY LiveIs, NewBag

(* What the requests make of the live inventory is one, and differs from it *)
(* in those tables only.                                                    *)
LEMMA NewWornChanges ==
  ASSUME Typed, NEW worn \in Wearings
  PROVE  Changes(NewWorn(live, worn), {"worn"})
BY LiveIs, NewWornIs, WornChange

LEMMA NewSlotChanges ==
  ASSUME Typed, NEW s \in DOMAIN live.worn, NEW x \in Items
  PROVE  Changes(NewSlot(live, s, x), {"worn"})
<1>1. [live.worn EXCEPT ![s] = x] \in Wearings
  BY LiveIs, PutOnIs
<1> QED
  BY <1>1, LiveIs, NewSlotIs, WornChange

LEMMA NewSlotsChanges ==
  ASSUME Typed, NEW s \in DOMAIN live.worn, NEW x \in Items,
         NEW t \in DOMAIN live.worn, NEW y \in Items
  PROVE  Changes(NewSlots(live, s, x, t, y), {"worn"})
<1> DEFINE once == [live.worn EXCEPT ![s] = x]
<1>1. once \in Wearings /\ t \in DOMAIN once
  BY LiveIs, PutOnIs
<1>2. NewSlots(live, s, x, t, y) = [worn |-> [once EXCEPT ![t] = y], bags |-> live.bags]
  BY LiveIs, NewSlotsIs
<1> HIDE DEF once
<1>3. [once EXCEPT ![t] = y] \in Wearings
  BY <1>1, PutOnIs
<1> QED
  BY <1>2, <1>3, WornChange

LEMMA NewBagsChanges ==
  ASSUME Typed, NEW bags, Roomed(bags)
  PROVE  Changes(NewBags(live, bags), {"bags"})
BY LiveIs, NewBagsIs, BagsChange

LEMMA NewInChanges ==
  ASSUME Typed, NEW c \in Bags, NEW q \in Seq(Items), Len(q) <= Capacity
  PROVE  Changes(NewIn(live, c, q), {"bags"})
BY LiveIs, NewInIs, NewBagOfLive, BagsChange

LEMMA NewInTwoChanges ==
  ASSUME Typed, NEW c \in Bags, NEW q \in Seq(Items), Len(q) <= Capacity,
         NEW d \in Bags, NEW r \in Seq(Items), Len(r) <= Capacity
  PROVE  Changes(NewInTwo(live, c, q, d, r), {"bags"})
<1> DEFINE once == [live.bags EXCEPT ![c] = q]
<1>1. Roomed(once)
  BY NewBagOfLive
<1>2. NewInTwo(live, c, q, d, r) = [worn |-> live.worn, bags |-> [once EXCEPT ![d] = r]]
  BY LiveIs, NewInTwoIs
<1> HIDE DEF once
<1>3. Roomed([once EXCEPT ![d] = r])
  BY <1>1, NewBag
<1> QED
  BY <1>2, <1>3, BagsChange

LEMMA NewWornAndInChanges ==
  ASSUME Typed, NEW worn \in Wearings, NEW c \in Bags, NEW q \in Seq(Items),
         Len(q) <= Capacity
  PROVE  Changes(NewWornAndIn(live, worn, c, q), Tables)
BY LiveIs, NewWornAndInIs, NewBagOfLive, BothChange

LEMMA NewSlotAndInChanges ==
  ASSUME Typed, NEW s \in DOMAIN live.worn, NEW x \in Items,
         NEW c \in Bags, NEW q \in Seq(Items), Len(q) <= Capacity
  PROVE  Changes(NewSlotAndIn(live, s, x, c, q), Tables)
<1>1. [live.worn EXCEPT ![s] = x] \in Wearings
  BY LiveIs, PutOnIs
<1> QED
  BY <1>1, LiveIs, NewSlotAndInIs, NewBagOfLive, BothChange

LEMMA ChangesAny ==
  ASSUME NEW inventory, NEW tables, Changes(inventory, tables)
  PROVE  Good(inventory)
BY DEF Changes

(* Taking from and adding to the containers of a live inventory. *)
LEMMA TakenFrom ==
  ASSUME Typed, NEW c \in Bags, NEW i \in DOMAIN live.bags[c],
         NEW n \in 1..live.bags[c][i].count
  PROVE  /\ live.bags[c][i] \in Items /\ n \in 1..MaxCount
         /\ Without(live.bags[c], i, n) \in Seq(Items)
         /\ Len(Without(live.bags[c], i, n)) <= Capacity
<1> DEFINE q == Without(live.bags[c], i, n)
<1>1. /\ live.bags[c] \in Seq(Items) /\ live.bags[c][i] \in Items
      /\ Len(live.bags[c]) <= Capacity /\ Len(live.bags[c]) \in Nat
  BY LiveIs, BagOf
<1>2. q \in Seq(Items) /\ Len(q) <= Len(live.bags[c]) /\ Len(q) \in Nat
  BY <1>1, WithoutIs, ItemsOf
<1>3. n \in 1..MaxCount
  BY <1>1, ItemFields, InventoryAssumption
<1> HIDE DEF q
<1>4. Len(q) <= Capacity
  BY <1>1, <1>2, InventoryAssumption
<1> QED
  BY <1>1, <1>2, <1>3, <1>4 DEF q

LEMMA AddedTo ==
  ASSUME Typed, NEW d \in Bags, NEW item \in Items, Accepts(live.bags[d], item)
  PROVE  /\ Stacked(live.bags[d], item) \in Seq(Items)
         /\ Len(Stacked(live.bags[d], item)) <= Capacity
BY LiveIs, BagOf, StackedIs

LEMMA AppendedTo ==
  ASSUME Typed, NEW d \in Bags, NEW item \in Items, Len(live.bags[d]) < Capacity
  PROVE  /\ Append(live.bags[d], item) \in Seq(Items)
         /\ Len(Append(live.bags[d], item)) <= Capacity
<1>1. live.bags[d] \in Seq(Items) /\ Len(live.bags[d]) \in Nat
  BY LiveIs, BagOf
<1>2. /\ Append(live.bags[d], item) \in Seq(Items)
      /\ Len(Append(live.bags[d], item)) = Len(live.bags[d]) + 1
  BY <1>1, AppendProperties
<1> QED
  BY <1>1, <1>2, InventoryAssumption

LEMMA RemovedFrom ==
  ASSUME Typed, NEW c \in Bags, NEW i \in DOMAIN live.bags[c]
  PROVE  /\ RemoveAt(live.bags[c], i) \in Seq(Items)
         /\ Len(RemoveAt(live.bags[c], i)) <= Capacity
<1>1. /\ live.bags[c] \in Seq(Items) /\ Len(live.bags[c]) \in Nat
      /\ Len(live.bags[c]) <= Capacity
  BY LiveIs, BagOf
<1>2. /\ RemoveAt(live.bags[c], i) \in Seq(Items)
      /\ Len(RemoveAt(live.bags[c], i)) = Len(live.bags[c]) - 1
  BY <1>1, RemoveAtIs
<1> QED
  BY <1>1, <1>2, InventoryAssumption

----------------------------------------------------------------------------
(* Moves within the inventory *)

LEMMA MoveBetweenBagsDoes ==
  ASSUME Typed, NEW c \in Bags, NEW d \in Bags, NEW i, NEW n, MoveBetweenBags(c, i, d, n)
  PROVE  Does
<1> DEFINE item == live.bags[c][i]
           moved == Part(item, n)
           q == Without(live.bags[c], i, n)
           r == Stacked(live.bags[d], moved)
           left == NewInTwo(live, c, q, d, r)
           harms == SplitHarm(item, n) \cup MergeHarm(moved, Roomy(live.bags[d], moved) # {})
<1>1. i \in DOMAIN live.bags[c] /\ n \in 1..live.bags[c][i].count
  BY DEF MoveBetweenBags
<1>2. \/ Accepts(live.bags[d], moved) /\ Moves(left, {"bags"}, harms)
      \/ Refused
  BY DEF MoveBetweenBags, NewInTwo
<1>3. harms \subseteq Harms
  BY HarmsAre
<1>4. CASE Accepts(live.bags[d], moved) /\ Moves(left, {"bags"}, harms)
  <2>1. q \in Seq(Items) /\ Len(q) <= Capacity /\ moved \in Items
    BY <1>1, TakenFrom, PartIs
  <2> HIDE DEF moved
  <2>2. r \in Seq(Items) /\ Len(r) <= Capacity
    BY <1>4, <2>1, AddedTo
  <2> HIDE DEF q, r, harms
  <2>3. Changes(left, {"bags"})
    BY <2>1, <2>2, NewInTwoChanges
  <2> HIDE DEF left
  <2> QED BY <1>3, <1>4, <2>3, MovesDoes
<1> QED
  BY <1>2, <1>4, RefusedDoes

LEMMA StackToSlotDoes ==
  ASSUME Typed, NEW c \in Bags, NEW i \in DOMAIN live.bags[c], NEW s \in Slots,
         NEW n \in 1..live.bags[c][i].count, StackToSlot(c, i, s, n)
  PROVE  Does
<1> DEFINE item == live.bags[c][i]
           moved == Part(item, n)
           q == Without(live.bags[c], i, n)
           occupied == s \in DOMAIN live.worn
           worn == IF occupied THEN [live.worn EXCEPT ![s].count = @ + n]
                   ELSE Worn(live.worn, s, moved)
           left == NewWornAndIn(live, worn, c, q)
           harms == SplitHarm(item, n) \cup MergeHarm(moved, occupied)
<1>1. \/ ~ (occupied /\ live.worn[s].count + n > MaxCount) /\ Moves(left, Tables, harms)
      \/ Refused
  BY DEF StackToSlot, NewWornAndIn
<1>2. harms \subseteq Harms
  BY HarmsAre
<1>3. CASE ~ (occupied /\ live.worn[s].count + n > MaxCount) /\ Moves(left, Tables, harms)
  <2>1. q \in Seq(Items) /\ Len(q) <= Capacity /\ moved \in Items /\ n \in Nat
    BY TakenFrom, PartIs
  <2>2. worn \in Wearings
    <3>1. CASE occupied
      <4>1. live.worn[s] \in Items
        BY <3>1, LiveIs
      <4>2. live.worn[s].count + n <= MaxCount
        BY <1>3, <2>1, <3>1, <4>1, ItemFields, InventoryAssumption
      <4>3. [live.worn[s] EXCEPT !.count = @ + n] \in Items
        BY <2>1, <4>1, <4>2, MoreIs
      <4>4. worn = [live.worn EXCEPT ![s] = [live.worn[s] EXCEPT !.count = @ + n]]
        BY <3>1
      <4> QED BY <3>1, <4>3, <4>4, LiveIs, PutOnIs
    <3>2. CASE ~ occupied
      BY <2>1, <3>2, LiveIs, WornIs
    <3> QED BY <3>1, <3>2
  <2> HIDE DEF q, worn, harms
  <2>3. Changes(left, Tables)
    BY <2>1, <2>2, NewWornAndInChanges
  <2> HIDE DEF left
  <2> QED BY <1>2, <1>3, <2>3, MovesDoes
<1> QED
  BY <1>1, <1>3, RefusedDoes

LEMMA SwapWithSlotDoes ==
  ASSUME Typed, NEW c \in Bags, NEW i \in DOMAIN live.bags[c], NEW s \in DOMAIN live.worn,
         SwapWithSlot(c, i, s)
  PROVE  Does
<1> DEFINE q == [live.bags[c] EXCEPT ![i] = live.worn[s]]
           left == NewSlotAndIn(live, s, live.bags[c][i], c, q)
<1>1. Moves(left, Tables, {})
  BY DEF SwapWithSlot, NewSlotAndIn
<1>2. /\ live.bags[c] \in Seq(Items) /\ Len(live.bags[c]) <= Capacity
      /\ live.bags[c][i] \in Items /\ live.worn[s] \in Items
  BY LiveIs, BagOf
<1>3. q \in Seq(Items) /\ Len(q) <= Capacity
  BY <1>2, SetAt
<1> HIDE DEF q
<1>4. Changes(left, Tables)
  BY <1>2, <1>3, NewSlotAndInChanges
<1> HIDE DEF left
<1> QED
  BY <1>1, <1>4, MovesDoes

LEMMA ItemToSlotDoes ==
  ASSUME Typed, NEW c \in Bags, NEW i \in DOMAIN live.bags[c], NEW s \in Slots,
         ItemToSlot(c, i, s)
  PROVE  Does
<1> DEFINE q == RemoveAt(live.bags[c], i)
           worn == Worn(live.worn, s, live.bags[c][i])
           left == NewWornAndIn(live, worn, c, q)
<1>1. Moves(left, Tables, {})
  BY DEF ItemToSlot, NewWornAndIn
<1>2. q \in Seq(Items) /\ Len(q) <= Capacity
  BY RemovedFrom
<1>3. worn \in Wearings
  BY LiveIs, BagOf, WornIs
<1> HIDE DEF q, worn
<1>4. Changes(left, Tables)
  BY <1>2, <1>3, NewWornAndInChanges
<1> HIDE DEF left
<1> QED
  BY <1>1, <1>4, MovesDoes

LEMMA MoveToSlotDoes ==
  ASSUME Typed, NEW c \in Bags, NEW i, NEW s \in Slots, NEW n, MoveToSlot(c, i, s, n)
  PROVE  Does
<1>1. i \in DOMAIN live.bags[c] /\ n \in 1..live.bags[c][i].count
  BY DEF MoveToSlot
<1>2. \/ StackToSlot(c, i, s, n)
      \/ s \in DOMAIN live.worn /\ SwapWithSlot(c, i, s)
      \/ ItemToSlot(c, i, s)
  BY DEF MoveToSlot
<1> QED
  BY <1>1, <1>2, StackToSlotDoes, SwapWithSlotDoes, ItemToSlotDoes

LEMMA SwapSlotsDoes ==
  ASSUME Typed, NEW s, NEW t, SwapSlots(s, t)
  PROVE  Does
<1> DEFINE left == NewSlots(live, s, live.worn[t], t, live.worn[s])
<1>1. Moves(left, {"worn"}, {}) /\ {s, t} \subseteq DOMAIN live.worn
  BY DEF SwapSlots, NewSlots
<1>2. Changes(left, {"worn"})
  <2>1. /\ s \in DOMAIN live.worn /\ t \in DOMAIN live.worn
        /\ live.worn[s] \in Items /\ live.worn[t] \in Items
    BY <1>1, LiveIs
  <2> QED BY <2>1, NewSlotsChanges
<1> HIDE DEF left
<1> QED
  BY <1>1, <1>2, MovesDoes

(* What leaves a free slot goes to one, whatever the count. *)
LEMMA MoveSlotDoes ==
  ASSUME Typed, NEW s \in Slots, NEW t \in Slots, MoveSlot(s, t)
  PROVE  Does
<1> DEFINE worn == Worn(Bare(live.worn, s), t, live.worn[s])
           left == NewWorn(live, worn)
<1>1. \/ /\ WriteRows(left, {"worn"}) /\ live' = left
         /\ UNCHANGED <<ground, phase, views, outdated, used, harm>>
      \/ Refused
  BY DEF MoveSlot, NewWorn
<1>2. worn \in Wearings
  <2>1. s \in DOMAIN live.worn /\ live.worn[s] \in Items
    BY LiveIs DEF MoveSlot
  <2>2. Bare(live.worn, s) \in Wearings
    BY LiveIs, BareIs
  <2> QED BY <2>1, <2>2, WornIs
<1> HIDE DEF worn
<1>3. Changes(left, {"worn"})
  BY <1>2, NewWornChanges
<1> HIDE DEF left
<1>4. ASSUME WriteRows(left, {"worn"}), live' = left,
             UNCHANGED <<ground, phase, views, outdated, used, harm>>
      PROVE  Does
  <2>1. Stored
    BY <1>3, <1>4 DEF Stored
  <2>2. Viewed
    BY <1>3, <1>4 DEF Viewed, Changes
  <2>3. Counted
    BY <1>4 DEF Counted, Typed
  <2> QED BY <2>1, <2>2, <2>3 DEF Does
<1> QED
  BY <1>1, <1>4, RefusedDoes

LEMMA StackToBagDoes ==
  ASSUME Typed, NEW s \in DOMAIN live.worn, NEW c \in Bags, NEW n \in 1..live.worn[s].count,
         StackToBag(s, c, n)
  PROVE  Does
<1> DEFINE item == live.worn[s]
           moved == Part(item, n)
           q == Stacked(live.bags[c], moved)
           worn == Lessened(live.worn, s, n)
           left == NewWornAndIn(live, worn, c, q)
           harms == SplitHarm(item, n) \cup MergeHarm(moved, Roomy(live.bags[c], moved) # {})
<1>1. \/ Accepts(live.bags[c], moved) /\ Moves(left, Tables, harms)
      \/ Refused
  BY DEF StackToBag, NewWornAndIn
<1>2. harms \subseteq Harms
  BY HarmsAre
<1>3. CASE Accepts(live.bags[c], moved) /\ Moves(left, Tables, harms)
  <2>1. worn \in Wearings /\ moved \in Items
    <3>1. item \in Items
      BY LiveIs
    <3>2. n \in 1..MaxCount
      BY <3>1, ItemFields, InventoryAssumption
    <3> QED BY <3>1, <3>2, PartIs, LiveIs, LessenedIs
  <2> HIDE DEF moved
  <2>2. q \in Seq(Items) /\ Len(q) <= Capacity
    BY <1>3, <2>1, AddedTo
  <2> HIDE DEF q, worn, harms
  <2>3. Changes(left, Tables)
    BY <2>1, <2>2, NewWornAndInChanges
  <2> HIDE DEF left
  <2> QED BY <1>2, <1>3, <2>3, MovesDoes
<1> QED
  BY <1>1, <1>3, RefusedDoes

LEMMA ItemToBagDoes ==
  ASSUME Typed, NEW s \in DOMAIN live.worn, NEW c \in Bags, ItemToBag(s, c)
  PROVE  Does
<1> DEFINE q == Append(live.bags[c], live.worn[s])
           worn == Bare(live.worn, s)
           left == NewWornAndIn(live, worn, c, q)
<1>1. \/ Len(live.bags[c]) < Capacity /\ Moves(left, Tables, {})
      \/ Refused
  BY DEF ItemToBag, NewWornAndIn
<1>2. CASE Len(live.bags[c]) < Capacity /\ Moves(left, Tables, {})
  <2>1. q \in Seq(Items) /\ Len(q) <= Capacity
    BY <1>2, LiveIs, AppendedTo
  <2>2. worn \in Wearings
    BY LiveIs, BareIs
  <2> HIDE DEF q, worn
  <2>3. Changes(left, Tables)
    BY <2>1, <2>2, NewWornAndInChanges
  <2> HIDE DEF left
  <2> QED BY <1>2, <2>3, MovesDoes
<1> QED
  BY <1>1, <1>2, RefusedDoes

LEMMA MoveToBagDoes ==
  ASSUME Typed, NEW s, NEW c \in Bags, NEW n, NEW at, MoveToBag(s, c, n, at)
  PROVE  Does
BY StackToBagDoes, ItemToBagDoes DEF MoveToBag

----------------------------------------------------------------------------
(* Content windows *)

(* The address of a window that has content is a place of the containers. *)
LEMMA ContentIs ==
  ASSUME Typed, NEW w, NEW j, HasContent(w, j)
  PROVE  /\ windows[w][1] \in Bags /\ windows[w][2] \in DOMAIN live.bags[windows[w][1]]
         /\ live.bags[windows[w][1]][windows[w][2]] \in Items
         /\ j \in DOMAIN live.bags[windows[w][1]][windows[w][2]].contents
         /\ Content(w, j) = live.bags[windows[w][1]][windows[w][2]].contents[j]
         /\ Content(w, j) \in Items
<1> DEFINE c == windows[w][1]
           i == windows[w][2]
<1>1. DOMAIN live.bags = Bags
  BY LiveIs DEF Roomed, Carried
<1>2. Addressed(live, w) = ItemAt(live.bags, c, i)
  BY DEF Addressed
<1> HIDE DEF c, i
<1>3. Addressed(live, w) # <<>> /\ j \in DOMAIN Addressed(live, w)[1].contents
  BY DEF HasContent
<1>4. c \in Bags /\ i \in DOMAIN live.bags[c] /\ Addressed(live, w) = <<live.bags[c][i]>>
  BY <1>1, <1>2, <1>3 DEF ItemAt
<1>5. Addressed(live, w)[1] = live.bags[c][i]
  BY <1>4
<1>6. live.bags[c][i] \in Items
  BY <1>4, LiveIs, BagOf
<1>7. j \in DOMAIN live.bags[c][i].contents /\ Content(w, j) = live.bags[c][i].contents[j]
  BY <1>3, <1>5 DEF Content
<1>8. live.bags[c][i].contents \in Seq(PlainItems)
  BY <1>6, ItemFields
<1>9. live.bags[c][i].contents[j] \in PlainItems
  BY <1>7, <1>8, ItemsOf
<1> QED
  BY <1>4, <1>6, <1>7, <1>9, PlainItemsAreItems DEF c, i

LEMMA WithoutContentIs ==
  ASSUME Typed, NEW w, NEW j, HasContent(w, j)
  PROVE  Roomed(WithoutContent(w, j))
<1> DEFINE c == windows[w][1]
           i == windows[w][2]
           item == live.bags[c][i]
           less == [item EXCEPT !.contents = RemoveAt(item.contents, j)]
           q == [live.bags[c] EXCEPT ![i] = less]
<1>1. c \in Bags /\ i \in DOMAIN live.bags[c] /\ item \in Items /\ j \in DOMAIN item.contents
  BY ContentIs
<1>2. WithoutContent(w, j) = [live.bags EXCEPT ![c] = q]
  BY DEF WithoutContent
<1>3. RemoveAt(item.contents, j) \in Seq(PlainItems)
  BY <1>1, ItemFields, RemoveAtIs
<1>4. less \in Items
  BY <1>1, <1>3 DEF Items
<1>5. live.bags[c] \in Seq(Items) /\ Len(live.bags[c]) <= Capacity
  BY <1>1, LiveIs, BagOf
<1> HIDE DEF c, i, less
<1>6. q \in Seq(Items) /\ Len(q) <= Capacity
  BY <1>1, <1>4, <1>5, SetAt
<1> HIDE DEF q
<1> QED
  BY <1>1, <1>2, <1>6, NewBagOfLive

LEMMA MovesContentDoes ==
  ASSUME Typed, phase = "in", NEW inventory, Good(inventory), MovesContent(inventory)
  PROVE  Does
<1>1. live' = inventory /\ Changes(live', Tables)
  BY DEF MovesContent, Stores, Changes, Tables
<1>2. \/ WriteRows(inventory, Tables) /\ phase' = phase
      \/ phase' = "ending" /\ UNCHANGED <<rows, hollow>>
  BY DEF MovesContent, Stores
<1>3. Stored
  BY <1>1, <1>2 DEF Stored, Changes
<1>4. Viewed
  BY <1>1, <1>2 DEF MovesContent, Viewed
<1>5. Counted
  BY DEF MovesContent, Counted, Typed
<1> QED
  BY <1>3, <1>4, <1>5 DEF Does

LEMMA ContentToBagDoes ==
  ASSUME Typed, NEW w, NEW j, NEW d, ContentToBag(w, j, d)
  PROVE  Does
<1> DEFINE bags == WithoutContent(w, j)
           item == Content(w, j)
           left == NewBags(live, bags)
           more == [bags EXCEPT ![d] = Stacked(bags[d], item)]
           then == NewBags(live, more)
<1>1. \/ Refused
      \/ /\ HasContent(w, j) /\ live' = left /\ phase' = "ending"
         /\ UNCHANGED <<rows, hollow, ground, views, outdated, used, harm>>
      \/ /\ HasContent(w, j) /\ d \in Bags /\ phase = "in"
         /\ Accepts(bags[d], item) /\ MovesContent(then)
  BY DEF ContentToBag, NewBags, Ready
<1>2. ASSUME HasContent(w, j), live' = left, phase' = "ending",
             UNCHANGED <<rows, hollow, ground, views, outdated, used, harm>>
      PROVE  Does
  <2>1. Roomed(bags)
    BY <1>2, WithoutContentIs
  <2> HIDE DEF bags
  <2>2. Good(left)
    BY <2>1, NewBagsChanges, ChangesAny
  <2> HIDE DEF left
  <2>3. Stored
    BY <1>2, <2>2 DEF Stored
  <2>4. Viewed
    BY <1>2 DEF Viewed
  <2>5. Counted
    BY <1>2 DEF Counted, Typed
  <2> QED BY <2>3, <2>4, <2>5 DEF Does
<1>3. ASSUME HasContent(w, j), d \in Bags, phase = "in", Accepts(bags[d], item),
             MovesContent(then)
      PROVE  Does
  <2>1. Roomed(bags) /\ item \in Items
    BY <1>3, WithoutContentIs, ContentIs
  <2> HIDE DEF bags, item
  <2>2. bags[d] \in Seq(Items) /\ Len(bags[d]) <= Capacity
    BY <1>3, <2>1, BagOf
  <2>3. Stacked(bags[d], item) \in Seq(Items) /\ Len(Stacked(bags[d], item)) <= Capacity
    BY <1>3, <2>1, <2>2, StackedIs
  <2>4. Roomed(more)
    BY <1>3, <2>1, <2>3, NewBag
  <2> HIDE DEF more
  <2>5. Good(then)
    BY <2>4, NewBagsChanges, ChangesAny
  <2> HIDE DEF then
  <2> QED BY <1>3, <2>5, MovesContentDoes
<1> HIDE DEF bags, item, left, more, then
<1> QED
  BY <1>1, <1>2, <1>3, RefusedDoes

LEMMA ContentToSlotDoes ==
  ASSUME Typed, NEW w, NEW j, NEW s \in Slots, ContentToSlot(w, j, s)
  PROVE  Does
<1> DEFINE bags == WithoutContent(w, j)
           item == Content(w, j)
           worn == Worn(live.worn, s, item)
<1>1. \/ Refused
      \/ HasContent(w, j) /\ phase = "in" /\ MovesContent([worn |-> worn, bags |-> bags])
  BY DEF ContentToSlot, Ready, Inventory
<1>2. ASSUME HasContent(w, j), phase = "in", MovesContent([worn |-> worn, bags |-> bags])
      PROVE  Does
  <2>1. Roomed(bags) /\ item \in Items
    BY <1>2, WithoutContentIs, ContentIs
  <2> HIDE DEF item, bags
  <2>2. worn \in Wearings
    BY <2>1, LiveIs, WornIs
  <2> HIDE DEF worn
  <2>3. Good([worn |-> worn, bags |-> bags])
    BY <2>1, <2>2, GoodIf
  <2> QED BY <1>2, <2>3, MovesContentDoes
<1> HIDE DEF item, bags, worn
<1> QED
  BY <1>1, <1>2, RefusedDoes

----------------------------------------------------------------------------
(* Ground *)

LEMMA DropsStores ==
  ASSUME Typed, NEW inventory, Good(inventory), NEW item \in Items, NEW n \in Nat,
         NEW harms, harms \subseteq Harms, Drops(inventory, item, n, harms)
  PROVE  Stored /\ Counted /\ live' = inventory
<1>1. live' = inventory
  BY DEF Drops
<1>2. Stored
  BY <1>1 DEF Drops, Stored
<1>3. ground' \in [Kinds -> Nat]
  <2>1. item.kind \in Kinds
    BY ItemFields
  <2>2. ground[item.kind] + n \in Nat
    BY <2>1 DEF Typed
  <2> QED BY <2>2 DEF Drops, Typed
<1>4. Counted
  BY <1>3 DEF Drops, Counted, Typed
<1> QED
  BY <1>1, <1>2, <1>4

LEMMA DropWornDoes ==
  ASSUME Typed, NEW s, NEW n, DropWorn(s, n)
  PROVE  Does
<1> DEFINE worn == Lessened(live.worn, s, n)
           left == NewWorn(live, worn)
           item == live.worn[s]
           harms == Spills(item, n)
<1>1. s \in DOMAIN live.worn /\ n \in 1..live.worn[s].count
  BY DEF DropWorn
<1>2. Refused \/ (Drops(left, item, n, harms) /\ UNCHANGED <<views, outdated>>)
  BY DEF DropWorn, NewWorn
<1>3. worn \in Wearings /\ item \in Items /\ n \in Nat /\ harms \subseteq Harms
  BY <1>1, LiveIs, LessenedIs, HarmsAre
<1> HIDE DEF worn, item, harms
<1>4. Changes(left, {"worn"}) /\ Good(left)
  BY <1>3, NewWornChanges, ChangesAny
<1> HIDE DEF left
<1>5. ASSUME Drops(left, item, n, harms), UNCHANGED <<views, outdated>>
      PROVE  Does
  <2>1. Stored /\ Counted /\ live' = left
    BY <1>3, <1>4, <1>5, DropsStores
  <2>2. Viewed
    BY <1>4, <1>5, <2>1 DEF Viewed, Changes
  <2> QED BY <2>1, <2>2 DEF Does
<1> QED
  BY <1>2, <1>5, RefusedDoes

LEMMA DropCarriedDoes ==
  ASSUME Typed, NEW c \in Bags, NEW i, NEW n, DropCarried(c, i, n)
  PROVE  Does
<1> DEFINE q == Without(live.bags[c], i, n)
           left == NewIn(live, c, q)
           item == live.bags[c][i]
           harms == Spills(item, n)
<1>1. i \in DOMAIN live.bags[c] /\ n \in 1..live.bags[c][i].count
  BY DEF DropCarried
<1>2. Refused \/ (Drops(left, item, n, harms) /\ LeavesWindows(left))
  BY DEF DropCarried, NewIn
<1>3. q \in Seq(Items) /\ Len(q) <= Capacity /\ item \in Items /\ n \in Nat /\ harms \subseteq Harms
  <2>1. q \in Seq(Items) /\ Len(q) <= Capacity /\ item \in Items /\ n \in 1..MaxCount
    BY <1>1, TakenFrom
  <2>2. harms \subseteq Harms
    BY HarmsAre
  <2> QED BY <2>1, <2>2
<1> HIDE DEF q, item, harms
<1>4. Good(left)
  BY <1>3, NewInChanges, ChangesAny
<1> HIDE DEF left
<1>5. ASSUME Drops(left, item, n, harms), LeavesWindows(left)
      PROVE  Does
  <2>1. Stored /\ Counted /\ live' = left
    BY <1>3, <1>4, <1>5, DropsStores
  <2>2. Viewed
    BY <1>5, <2>1 DEF Viewed
  <2> QED BY <2>1, <2>2 DEF Does
<1> QED
  BY <1>2, <1>5, RefusedDoes

LEMMA DropContentDoes ==
  ASSUME Typed, NEW w, NEW j, NEW n, DropContent(w, j, n)
  PROVE  Does
<1> DEFINE bags == WithoutContent(w, j)
           left == NewBags(live, bags)
           item == Content(w, j)
           harms == IF n < item.count THEN {"discarded"} ELSE {}
<1>1. HasContent(w, j) /\ n \in Nat
  BY ContentIs, ItemFields DEF DropContent
<1>2. Refused \/ (Drops(left, item, n, harms) /\ RefreshWindows(left))
  BY DEF DropContent, NewBags
<1>3. Roomed(bags) /\ item \in Items /\ harms \subseteq Harms
  BY <1>1, WithoutContentIs, ContentIs DEF Harms
<1> HIDE DEF bags, item, harms
<1>4. Good(left)
  BY <1>3, NewBagsChanges, ChangesAny
<1> HIDE DEF left
<1>5. ASSUME Drops(left, item, n, harms), RefreshWindows(left)
      PROVE  Does
  <2>1. Stored /\ Counted /\ live' = left
    BY <1>1, <1>3, <1>4, <1>5, DropsStores
  <2>2. Viewed
    BY <1>5, <2>1 DEF Viewed
  <2> QED BY <2>1, <2>2 DEF Does
<1> QED
  BY <1>2, <1>5, RefusedDoes

LEMMA TakesDoes ==
  ASSUME Typed, NEW inventory, Good(inventory), NEW kind \in Kinds, NEW n \in 1..ground[kind],
         Takes(inventory, kind, n)
  PROVE  Does
<1>1. ASSUME live' = inventory, WriteRowsWithGround(inventory),
             ground' = [ground EXCEPT ![kind] = @ - n], LeavesWindows(inventory),
             UNCHANGED <<phase, used, harm>>
      PROVE  Does
  <2>1. Stored
    BY <1>1 DEF Stored
  <2>2. Viewed
    BY <1>1 DEF Viewed
  <2>3. ground[kind] - n \in Nat
    BY DEF Typed
  <2>4. ground' \in [Kinds -> Nat]
    BY <1>1, <2>3 DEF Typed
  <2>5. Counted
    BY <1>1, <2>4 DEF Counted, Typed
  <2> QED BY <2>1, <2>2, <2>5 DEF Does
<1> QED
  BY <1>1, RefusedDoes DEF Takes

LEMMA StackIs ==
  ASSUME NEW kind \in Kinds, NEW n \in 1..MaxCount
  PROVE  Item(kind, n, <<>>) \in Items
BY EmptySeq DEF Item, Items

LEMMA PickUpToSlotDoes ==
  ASSUME Typed, NEW kind \in Kinds, NEW n \in Counts, NEW s \in Slots,
         PickUpToSlot(kind, n, s)
  PROVE  Does
<1> DEFINE item == Item(kind, n, <<>>)
           worn == Worn(live.worn, s, item)
           one == NewWorn(live, worn)
           more == [live.worn[s] EXCEPT !.count = @ + n]
           two == NewSlot(live, s, more)
<1>1. /\ n \in 1..ground[kind] /\ n \in 1..MaxCount /\ n \in Nat
      /\ \/ s \notin DOMAIN live.worn /\ Takes(one, kind, n)
         \/ /\ s \in DOMAIN live.worn /\ live.worn[s].count + n <= MaxCount
            /\ Takes(two, kind, n)
  BY DEF PickUpToSlot, NewWorn, NewSlot, Counts
<1>2. Good(one)
  <2>1. item \in Items
    BY <1>1, StackIs
  <2> HIDE DEF item
  <2>2. worn \in Wearings
    BY <2>1, LiveIs, WornIs
  <2> HIDE DEF worn
  <2>3. Changes(one, {"worn"})
    BY <2>2, NewWornChanges
  <2> HIDE DEF one
  <2> QED BY <2>3, ChangesAny
<1>3. ASSUME s \in DOMAIN live.worn, live.worn[s].count + n <= MaxCount
      PROVE  Good(two)
  <2>1. live.worn[s] \in Items
    BY <1>3, LiveIs
  <2>2. more \in Items
    BY <1>1, <1>3, <2>1, MoreIs
  <2> HIDE DEF more
  <2>3. Changes(two, {"worn"})
    BY <1>3, <2>2, NewSlotChanges
  <2> HIDE DEF two
  <2> QED BY <2>3, ChangesAny
<1> HIDE DEF one, two
<1> QED
  BY <1>1, <1>2, <1>3, TakesDoes

LEMMA PickUpToBagDoes ==
  ASSUME Typed, NEW kind \in Kinds, NEW n \in Counts, NEW c \in Bags, PickUpToBag(kind, n, c)
  PROVE  Does
<1> DEFINE item == Item(kind, n, <<>>)
           q == Stacked(live.bags[c], item)
           left == NewIn(live, c, q)
<1>1. /\ n \in 1..ground[kind] /\ n \in 1..MaxCount /\ Accepts(live.bags[c], item)
      /\ Takes(left, kind, n)
  BY DEF PickUpToBag, NewIn, Counts
<1>2. item \in Items
  BY <1>1, StackIs
<1> HIDE DEF item
<1>3. q \in Seq(Items) /\ Len(q) <= Capacity
  BY <1>1, <1>2, AddedTo
<1> HIDE DEF q
<1>4. Good(left)
  BY <1>3, NewInChanges, ChangesAny
<1> HIDE DEF left
<1> QED
  BY <1>1, <1>4, TakesDoes

----------------------------------------------------------------------------
(* Consumption *)

LEMMA ConsumedIs ==
  ASSUME Typed, NEW kind \in Kinds, MayUse(kind), Consumed(kind)
  PROVE  used' \in [Kinds -> 0..MaxUsed]
<1>1. used[kind] + 1 \in 0..MaxUsed
  BY InventoryAssumption DEF Typed, MayUse
<1> QED
  BY <1>1 DEF Typed, Consumed

LEMMA EatWornDoes ==
  ASSUME Typed, NEW s \in Slots, EatWorn(s)
  PROVE  Does
<1> DEFINE kind == live.worn[s].kind
           worn == Lessened(live.worn, s, 1)
           left == NewWorn(live, worn)
           harms == Spills(live.worn[s], 1)
<1>1. /\ s \in DOMAIN live.worn /\ MayUse(kind) /\ live' = left
      /\ \/ /\ WriteRows(left, {"worn"}) /\ phase' = phase /\ Consumed(kind)
            /\ harm' = harm \cup harms
         \/ phase' = "ending" /\ UNCHANGED <<rows, hollow, used, harm>>
      /\ UNCHANGED <<ground, views, outdated>>
  BY DEF EatWorn, NewWorn
<1>2. kind \in Kinds /\ worn \in Wearings
  <2>1. live.worn[s] \in Items
    BY <1>1, LiveIs
  <2>2. 1 \in 1..live.worn[s].count
    BY <2>1, ItemFields
  <2> QED BY <1>1, <2>1, <2>2, LiveIs, ItemFields, LessenedIs
<1>h. harms \subseteq Harms
  BY HarmsAre
<1> HIDE DEF kind, worn, harms
<1>3. Changes(left, {"worn"}) /\ Good(left)
  BY <1>2, NewWornChanges, ChangesAny
<1> HIDE DEF left
<1>4. Stored
  BY <1>1, <1>3 DEF Stored
<1>5. Viewed
  BY <1>1, <1>3 DEF Viewed, Changes
<1>6. Counted
  BY <1>1, <1>2, <1>h, ConsumedIs DEF Counted, Typed
<1> QED
  BY <1>4, <1>5, <1>6 DEF Does

(* The world keeps what was eaten out of a container. *)
LEMMA EatCarriedDoes ==
  ASSUME Typed, NEW c \in Bags, NEW i, EatCarried(c, i)
  PROVE  Does
<1> DEFINE kind == live.bags[c][i].kind
           q == Without(live.bags[c], i, 1)
           left == NewIn(live, c, q)
<1>1. /\ i \in DOMAIN live.bags[c] /\ MayUse(kind)
      /\ \/ /\ WriteRows(left, {"bags"}) /\ phase' = phase
            /\ harm' = harm \cup {"unconsumed"} /\ Consumed(kind)
         \/ phase' = "ending" /\ UNCHANGED <<rows, hollow, harm, used>>
      /\ UNCHANGED <<live, ground, views, outdated>>
  BY DEF EatCarried, NewIn
<1>2. live.bags[c][i] \in Items
  BY <1>1, LiveIs, BagOf
<1>3. kind \in Kinds /\ 1 \in 1..live.bags[c][i].count
  BY <1>2, ItemFields
<1>4. q \in Seq(Items) /\ Len(q) <= Capacity
  BY <1>1, <1>3, TakenFrom
<1> HIDE DEF kind, q
<1>5. Good(left)
  BY <1>4, NewInChanges, ChangesAny
<1> HIDE DEF left
<1>6. Stored
  BY <1>1, <1>5 DEF Stored, Typed, Tables
<1>7. Viewed
  BY <1>1 DEF Viewed
<1>8. Counted
  BY <1>1, <1>3, ConsumedIs DEF Counted, Typed, Harms
<1> QED
  BY <1>6, <1>7, <1>8 DEF Does

LEMMA FireRuneDoes ==
  ASSUME Typed, NEW c \in Bags, NEW i, FireRune(c, i)
  PROVE  Does
<1> DEFINE kind == live.bags[c][i].kind
           q == Without(live.bags[c], i, 1)
           left == NewIn(live, c, q)
           harms == Spills(live.bags[c][i], 1)
<1>1. /\ i \in DOMAIN live.bags[c] /\ MayUse(kind)
      /\ live' = left /\ Consumed(kind) /\ LeavesWindows(left)
      /\ \/ WriteRows(left, {"bags"}) /\ harm' = harm \cup harms
         \/ harm' = harm \cup harms \cup {"unsaved"} /\ UNCHANGED <<rows, hollow>>
      /\ UNCHANGED <<ground, phase>>
  BY DEF FireRune, NewIn
<1>2. live.bags[c][i] \in Items
  BY <1>1, LiveIs, BagOf
<1>3. kind \in Kinds /\ 1 \in 1..live.bags[c][i].count
  BY <1>2, ItemFields
<1>4. q \in Seq(Items) /\ Len(q) <= Capacity
  BY <1>1, <1>3, TakenFrom
<1>h. harms \subseteq Harms
  BY HarmsAre
<1> HIDE DEF kind, q, harms
<1>5. Changes(left, {"bags"}) /\ Good(left)
  BY <1>4, NewInChanges, ChangesAny
<1> HIDE DEF left
<1>6. Stored
  BY <1>1, <1>5 DEF Stored
<1>7. Viewed
  BY <1>1 DEF Viewed
<1>8. Counted
  BY <1>1, <1>3, <1>h, ConsumedIs DEF Counted, Typed, Harms
<1> QED
  BY <1>6, <1>7, <1>8 DEF Does

LEMMA ShootAmmoDoes ==
  ASSUME Typed, ShootAmmo
  PROVE  Does
<1> DEFINE kind == live.worn[Ammo].kind
           worn == Lessened(live.worn, Ammo, 1)
           left == NewWorn(live, worn)
<1>1. /\ Ammo \in DOMAIN live.worn /\ MayUse(kind) /\ live' = left /\ Consumed(kind)
      /\ harm' = harm \cup {"unsaved"}
      /\ UNCHANGED <<rows, hollow, ground, phase, views, outdated>>
  BY DEF ShootAmmo, NewWorn
<1>2. kind \in Kinds /\ worn \in Wearings
  <2>1. live.worn[Ammo] \in Items
    BY <1>1, LiveIs
  <2>2. 1 \in 1..live.worn[Ammo].count
    BY <2>1, ItemFields
  <2> QED BY <1>1, <2>1, <2>2, LiveIs, ItemFields, LessenedIs
<1> HIDE DEF kind, worn
<1>3. Changes(left, {"worn"}) /\ Good(left)
  BY <1>2, NewWornChanges, ChangesAny
<1> HIDE DEF left
<1>4. Stored
  BY <1>1, <1>3 DEF Stored
<1>5. Viewed
  BY <1>1, <1>3 DEF Viewed, Changes
<1>6. Counted
  BY <1>1, <1>2, ConsumedIs DEF Counted, Typed, Harms
<1> QED
  BY <1>4, <1>5, <1>6 DEF Does

LEMMA DisconnectDoes ==
  ASSUME Typed, Disconnect
  PROVE  Does
BY DEF Typed, Disconnect, Does, Stored, Viewed, Counted

----------------------------------------------------------------------------
(* Every step *)

(* Windows that open, close or come back, logins and leaves are no requests *)
(* that change the inventory.                                               *)
LEMMA NextDoes ==
  ASSUME Typed, Next
  PROVE  \/ Does
         \/ \E c \in Bags, i \in Places : OpenContent(c, i)
         \/ \E w \in Ids : CloseWindow(w)
         \/ \E c : Reopen(c)
         \/ Login \/ Leave
<1>1. CASE MoveItems
  <2>1. ASSUME NEW c \in Bags, NEW d \in Bags, NEW i \in Places, NEW n \in Counts,
               MoveBetweenBags(c, i, d, n)
        PROVE  Does
    BY <2>1, MoveBetweenBagsDoes
  <2>2. ASSUME NEW c \in Bags, NEW i \in Places, NEW s \in Slots, NEW n \in Counts,
               MoveToSlot(c, i, s, n)
        PROVE  Does
    BY <2>2, MoveToSlotDoes
  <2>3. ASSUME NEW s \in Slots, NEW t \in Slots, SwapSlots(s, t) \/ MoveSlot(s, t)
        PROVE  Does
    BY <2>3, SwapSlotsDoes, MoveSlotDoes
  <2>4. ASSUME NEW s \in Slots, NEW c \in Bags, NEW n \in Counts, NEW at \in 1..(Capacity + 1),
               MoveToBag(s, c, n, at)
        PROVE  Does
    BY <2>4, MoveToBagDoes
  <2> QED BY <1>1, <2>1, <2>2, <2>3, <2>4 DEF MoveItems
<1>2. CASE UseWindows
  <2>1. ASSUME NEW w \in Ids, NEW d \in Ids, NEW j \in Places, ContentToBag(w, j, d)
        PROVE  Does
    BY <2>1, ContentToBagDoes
  <2>2. ASSUME NEW w \in Ids, NEW j \in Places, NEW s \in Slots, ContentToSlot(w, j, s)
        PROVE  Does
    BY <2>2, ContentToSlotDoes
  <2>3. ASSUME UseBackpack \/ \E w \in Ids : UpdateContainer(w)
        PROVE  \E c : Reopen(c)
    BY <2>3 DEF UseBackpack, UpdateContainer
  <2> QED BY <1>2, <2>1, <2>2, <2>3 DEF UseWindows
<1>3. CASE UseGround
  <2>1. ASSUME NEW s \in Slots, NEW n \in Counts, DropWorn(s, n)
        PROVE  Does
    BY <2>1, DropWornDoes
  <2>2. ASSUME NEW c \in Bags, NEW i \in Places, NEW n \in Counts, DropCarried(c, i, n)
        PROVE  Does
    BY <2>2, DropCarriedDoes
  <2>3. ASSUME NEW w \in Ids, NEW j \in Places, NEW n \in Counts, DropContent(w, j, n)
        PROVE  Does
    BY <2>3, DropContentDoes
  <2>4. ASSUME NEW k \in Kinds, NEW n \in Counts, NEW s \in Slots, PickUpToSlot(k, n, s)
        PROVE  Does
    BY <2>4, PickUpToSlotDoes
  <2>5. ASSUME NEW k \in Kinds, NEW n \in Counts, NEW c \in Bags, PickUpToBag(k, n, c)
        PROVE  Does
    BY <2>5, PickUpToBagDoes
  <2> QED BY <1>3, <2>1, <2>2, <2>3, <2>4, <2>5 DEF UseGround
<1>4. CASE Consume
  BY <1>4, EatWornDoes, EatCarriedDoes, FireRuneDoes, ShootAmmoDoes DEF Consume
<1> QED
  BY <1>1, <1>2, <1>3, <1>4, DisconnectDoes DEF Next

----------------------------------------------------------------------------
(* What is written *)

LEMMA HollowedSeq ==
  ASSUME NEW items \in Seq(Items)
  PROVE  Hollowed(items) \in Seq(Items) /\ Len(Hollowed(items)) = Len(items)
<1>1. Len(items) \in Nat /\ DOMAIN items = 1..Len(items)
      /\ \A i \in 1..Len(items) : items[i] \in Items
  BY ItemsOf
<1>2. \A i \in 1..Len(items) : [items[i] EXCEPT !.contents = <<>>] \in Items
  BY <1>1, NoContentsIs, PlainItemsAreItems
<1>3. Hollowed(items) \in [1..Len(items) -> Items]
  BY <1>1, <1>2 DEF Hollowed
<1> QED
  BY <1>1, <1>3, SeqDef, LenProperties

LEMMA HollowedWorn ==
  ASSUME NEW worn \in Wearings
  PROVE  Hollowed(worn) \in Wearings /\ Hollowed(Hollowed(worn)) = Hollowed(worn)
<1>1. \A s \in DOMAIN worn : [worn[s] EXCEPT !.contents = <<>>] \in Items
  BY WearingsAre, NoContentsIs, PlainItemsAreItems
<1>2. Hollowed(worn) \in [DOMAIN worn -> Items]
  BY <1>1 DEF Hollowed
<1>3. \A s \in DOMAIN worn : [[worn[s] EXCEPT !.contents = <<>>] EXCEPT !.contents = <<>>]
                                = [worn[s] EXCEPT !.contents = <<>>]
  BY WearingsAre, NoContentsIs
<1>4. Hollowed(Hollowed(worn)) = Hollowed(worn)
  BY <1>3 DEF Hollowed
<1> QED
  BY <1>2, <1>4, WearingsAre, WearingsIf

LEMMA HollowedBags ==
  ASSUME NEW inventory, Good(inventory)
  PROVE  Roomed(BagRows(inventory))
<1>1. \A c \in Bags : inventory.bags[c] \in Seq(Items) /\ Len(inventory.bags[c]) <= Capacity
  BY DEF Good, Inventories, Carried
<1>2. \A c \in Bags : /\ Hollowed(inventory.bags[c]) \in Seq(Items)
                      /\ Len(Hollowed(inventory.bags[c])) <= Capacity
  BY <1>1, HollowedSeq
<1> QED
  BY <1>2 DEF BagRows, Roomed, Carried

(* The rows after a transaction that names tables. *)
LEMMA WrittenRows ==
  ASSUME Typed, NEW inventory, Good(inventory), NEW tables, tables \subseteq Tables,
         WriteRows(inventory, tables)
  PROVE  /\ rows' = [worn |-> IF "worn" \in tables THEN Hollowed(inventory.worn) ELSE rows.worn,
                     bags |-> IF "bags" \in tables THEN inventory.bags ELSE rows.bags]
         /\ Good(rows') /\ hollow' \subseteq Tables
         /\ "worn" \in hollow' <=> IF "worn" \in tables
                                   THEN Hollowed(inventory.worn) # inventory.worn
                                   ELSE "worn" \in hollow
         /\ "bags" \in hollow' <=> "bags" \notin tables /\ "bags" \in hollow
<1> DEFINE written == [worn |-> Hollowed(inventory.worn), bags |-> inventory.bags]
           w == IF "worn" \in tables THEN Hollowed(inventory.worn) ELSE rows.worn
           b == IF "bags" \in tables THEN inventory.bags ELSE rows.bags
<1>1. /\ rows' = [t \in Tables |-> IF t \in tables THEN written[t] ELSE rows[t]]
      /\ hollow' = (hollow \ tables) \cup {t \in tables : written[t] # inventory[t]}
  BY DEF WriteRows, WornRows, Inventory
<1>2. rows' = [worn |-> w, bags |-> b]
  BY <1>1 DEF Tables
<1>3. /\ inventory.worn \in Wearings /\ Roomed(inventory.bags)
      /\ rows.worn \in Wearings /\ Roomed(rows.bags)
  BY GoodParts DEF Typed
<1>4. w \in Wearings /\ Roomed(b)
  BY <1>3, HollowedWorn
<1>5. Good(rows')
  <2> HIDE DEF w, b
  <2> QED BY <1>2, <1>4, GoodIf
<1>6. hollow' \subseteq Tables
  BY <1>1 DEF Typed
<1>7. "worn" \in hollow' <=> IF "worn" \in tables
                             THEN Hollowed(inventory.worn) # inventory.worn
                             ELSE "worn" \in hollow
  BY <1>1
<1>8. "bags" \in hollow' <=> "bags" \notin tables /\ "bags" \in hollow
  BY <1>1
<1> QED
  BY <1>2, <1>5, <1>6, <1>7, <1>8

LEMMA WrittenWithGround ==
  ASSUME NEW inventory, Good(inventory), WriteRowsWithGround(inventory)
  PROVE  /\ rows' = [worn |-> Hollowed(inventory.worn), bags |-> BagRows(inventory)]
         /\ Good(rows') /\ hollow' \subseteq Tables
         /\ "worn" \in hollow' <=> Hollowed(inventory.worn) # inventory.worn
         /\ "bags" \in hollow' <=> BagRows(inventory) # inventory.bags
<1> DEFINE written == [worn |-> Hollowed(inventory.worn), bags |-> BagRows(inventory)]
<1>1. rows' = written /\ hollow' = {t \in Tables : written[t] # inventory[t]}
  BY DEF WriteRowsWithGround, WornRows, Inventory
<1>2. Good(written)
  BY GoodParts, HollowedWorn, HollowedBags, GoodIf
<1>3. hollow' \subseteq Tables
  BY <1>1
<1>4. "worn" \in hollow' <=> Hollowed(inventory.worn) # inventory.worn
  BY <1>1 DEF Tables
<1>5. "bags" \in hollow' <=> BagRows(inventory) # inventory.bags
  BY <1>1 DEF Tables
<1> QED
  BY <1>1, <1>2, <1>3, <1>4, <1>5

----------------------------------------------------------------------------
(* The inventory and its rows are well formed *)

LEMMA EmptyIs == Good(Inventory(<<>>, [c \in Bags |-> <<>>]))
<1>1. <<>> \in Wearings
  <2>1. <<>> \in [{} -> Items]
    OBVIOUS
  <2>2. {} \in SUBSET Slots
    OBVIOUS
  <2> QED BY <2>1, <2>2, WearingsIf
<1>2. Roomed([c \in Bags |-> <<>>])
  <2>1. <<>> \in Seq(Items) /\ Len(<<>>) = 0
    BY EmptySeq
  <2>2. 0 <= Capacity
    BY InventoryAssumption
  <2> QED BY <2>1, <2>2 DEF Roomed, Carried
<1> QED
  BY <1>1, <1>2, GoodIf DEF Inventory

LEMMA StockIs == Good(Stock) /\ Hollowed(Stock.worn) = Stock.worn
<1>1. \A item \in PlainItems : [item EXCEPT !.contents = <<>>] = item
  BY DEF PlainItems
<1>2. Stock.worn \in [DOMAIN Stock.worn -> Items] /\ DOMAIN Stock.worn \in SUBSET Slots
  BY InventoryAssumption, PlainItemsAreItems
<1>3. Stock.worn \in Wearings
  BY <1>2, WearingsIf
<1>4. Roomed(Stock.bags)
  BY InventoryAssumption DEF Roomed, Carried
<1>5. Good(Stock)
  BY <1>3, <1>4, GoodIf, InventoryAssumption
<1>6. \A s \in DOMAIN Stock.worn : Stock.worn[s] \in PlainItems
  BY InventoryAssumption
<1>7. Hollowed(Stock.worn) = [s \in DOMAIN Stock.worn |-> Stock.worn[s]]
  BY <1>1, <1>6 DEF Hollowed
<1> QED
  BY <1>5, <1>7, InventoryAssumption

LEMMA DoesKeepsTyped ==
  ASSUME Typed, Does
  PROVE  Typed'
<1>1. Counted /\ Stored
  BY DEF Does
<1>2. /\ Good(live)' /\ Good(rows)'
      /\ hollow' \subseteq Tables /\ phase' \in {"in", "ending", "out"}
  <2>1. CASE phase' = "ending" /\ Good(live') /\ UNCHANGED <<rows, hollow>>
    BY <2>1 DEF Typed
  <2>2. CASE phase' = phase /\ UNCHANGED <<live, rows, hollow>>
    BY <2>2 DEF Typed
  <2>3. ASSUME phase' = phase, NEW tables, Changes(live', tables), WriteRows(live', tables)
        PROVE  /\ Good(live') /\ Good(rows')
               /\ hollow' \subseteq Tables /\ phase' \in {"in", "ending", "out"}
    <3>1. Good(live') /\ tables \subseteq Tables
      BY <2>3 DEF Changes
    <3>2. Good(rows') /\ hollow' \subseteq Tables
      BY <2>3, <3>1, WrittenRows
    <3> QED BY <2>3, <3>1, <3>2 DEF Typed
  <2>4. CASE phase' = phase /\ Good(live') /\ WriteRowsWithGround(live')
    BY <2>4, WrittenWithGround DEF Typed
  <2>5. ASSUME phase' = phase, Good(live'), NEW inventory, NEW tables,
               Good(inventory), tables \subseteq Tables, WriteRows(inventory, tables)
        PROVE  /\ Good(live') /\ Good(rows')
               /\ hollow' \subseteq Tables /\ phase' \in {"in", "ending", "out"}
    BY <2>5, WrittenRows DEF Typed
  <2>6. CASE phase' = phase /\ Good(live') /\ UNCHANGED <<rows, hollow>>
    BY <2>6 DEF Typed
  <2> QED BY <1>1, <2>1, <2>2, <2>3, <2>4, <2>5, <2>6 DEF Stored
<1> QED
  BY <1>1, <1>2 DEF Typed, Counted

LEMMA InitTyped == Init => Typed
BY EmptyIs, StockIs, InventoryAssumption DEF Init, Typed, Tables, Harms

LEMMA NextKeepsTyped ==
  ASSUME Typed, [Next]_vars
  PROVE  Typed'
<1>1. CASE Does
  BY <1>1, DoesKeepsTyped
<1>2. ASSUME UNCHANGED <<live, rows, hollow, ground, phase, used, harm>>
      PROVE  Typed'
  BY <1>2 DEF Typed
<1>3. CASE Login
  BY <1>3 DEF Login, Typed, Harms
<1>4. CASE Leave
  BY <1>4, EmptyIs DEF Leave, Typed
<1>5. CASE \E c \in Bags, i \in Places : OpenContent(c, i)
  BY <1>2, <1>5 DEF OpenContent
<1>6. CASE \E w \in Ids : CloseWindow(w)
  BY <1>2, <1>6 DEF CloseWindow
<1>7. CASE \E c : Reopen(c)
  BY <1>2, <1>7 DEF Reopen
<1>8. CASE UNCHANGED vars
  BY <1>2, <1>8 DEF vars
<1> QED
  BY <1>1, <1>3, <1>4, <1>5, <1>6, <1>7, <1>8, NextDoes

----------------------------------------------------------------------------
(* Content windows show their items *)

(* Windows have ids that no container of the player has, and what the      *)
(* client was sent is known for each.                                      *)
Windowed ==
    /\ closed \subseteq Ids
    /\ DOMAIN windows \subseteq Ids \ Bags /\ DOMAIN shown = DOMAIN windows
    /\ outdated \subseteq DOMAIN windows
    /\ phase = "out" => DOMAIN windows = {}
    /\ WindowsShowTheirItem

LEMMA InitWindowed == Init => Windowed
BY DEF Init, Windowed, WindowsShowTheirItem

(* A window that is sent again shows what is in its item. *)
LEMMA SentAgain ==
  ASSUME NEW inventory, live' = inventory, RefreshWindows(inventory)
  PROVE  /\ DOMAIN windows' \subseteq DOMAIN windows /\ DOMAIN shown' = DOMAIN windows'
         /\ outdated' = {} /\ closed' = closed
         /\ WindowsShowTheirItem'
<1> DEFINE open == {w \in DOMAIN windows :
                       /\ Addressed(inventory, w) # <<>>
                       /\ Addressed(inventory, w)[1].contents # <<>>}
<1>1. /\ windows' = [w \in open |-> windows[w]]
      /\ shown' = [w \in open |-> Addressed(inventory, w)[1].contents]
      /\ outdated' = {} /\ closed' = closed
  BY DEF RefreshWindows, Restrict
<1>2. open \subseteq DOMAIN windows
  OBVIOUS
<1>3. ASSUME NEW w \in open
      PROVE  \E item \in ToSet(Addressed(live, w)') : shown'[w] = item.contents
  <2>1. Addressed(inventory, w) = Addressed(live, w)'
    BY <1>1 DEF Addressed
  <2> DEFINE found == Addressed(inventory, w)
  <2>2. PICK item : found = <<item>>
    BY DEF Addressed, ItemAt
  <2> HIDE DEF found
  <2>3. item \in ToSet(found) /\ found[1] = item
    BY <2>2 DEF ToSet
  <2>4. shown'[w] = item.contents
    BY <1>1, <2>3 DEF found
  <2> QED BY <2>1, <2>3, <2>4 DEF found
<1> HIDE DEF open
<1> QED
  BY <1>1, <1>2, <1>3 DEF WindowsShowTheirItem

LEMMA LeftAlone ==
  ASSUME Windowed, phase = "in", LeavesWindows(live')
  PROVE  WindowsShowTheirItem'
<1>1. /\ UNCHANGED <<closed, windows, shown>>
      /\ outdated' = outdated \cup
            {w \in DOMAIN windows : Addressed(live', w) # Addressed(live, w)}
  BY DEF LeavesWindows, views
<1>2. ASSUME NEW w \in DOMAIN windows' \ outdated'
      PROVE  \E item \in ToSet(Addressed(live, w)') : shown'[w] = item.contents
  <2>1. w \in DOMAIN windows \ outdated /\ Addressed(live', w) = Addressed(live, w)
    BY <1>1, <1>2
  <2>2. Addressed(live, w)' = Addressed(live', w)
    BY <1>1 DEF Addressed
  <2>3. PICK item \in ToSet(Addressed(live, w)) : shown[w] = item.contents
    BY <2>1 DEF Windowed, WindowsShowTheirItem
  <2> QED BY <1>1, <2>1, <2>2, <2>3
<1> QED
  BY <1>2 DEF WindowsShowTheirItem

LEMMA SameBags ==
  ASSUME Windowed, phase = "in", live'.bags = live.bags,
         UNCHANGED <<windows, shown, outdated>>
  PROVE  WindowsShowTheirItem'
<1>1. ASSUME NEW w
      PROVE  Addressed(live, w)' = Addressed(live, w)
  BY DEF Addressed
<1> QED
  BY <1>1 DEF Windowed, WindowsShowTheirItem

LEMMA DoesKeepsWindowed ==
  ASSUME Typed, Windowed, Does
  PROVE  Windowed'
<1>1. phase' = "ending" \/ phase' = phase
  BY DEF Does, Stored
<1>2. CASE phase' = "ending" /\ UNCHANGED <<views, outdated>>
  BY <1>2 DEF Windowed, WindowsShowTheirItem, views
<1>3. CASE LeavesWindows(live')
  <2>1. UNCHANGED <<closed, windows, shown>> /\ outdated' \subseteq DOMAIN windows
    BY <1>3 DEF LeavesWindows, views, Windowed
  <2>2. WindowsShowTheirItem'
    <3>1. CASE phase = "in"
      BY <1>3, <3>1, LeftAlone
    <3>2. CASE phase # "in"
      BY <1>1, <3>2 DEF WindowsShowTheirItem
    <3> QED BY <3>1, <3>2
  <2> QED BY <1>1, <2>1, <2>2 DEF Windowed
<1>4. CASE RefreshWindows(live')
  <2>1. /\ DOMAIN windows' \subseteq DOMAIN windows /\ DOMAIN shown' = DOMAIN windows'
        /\ outdated' = {} /\ closed' = closed /\ WindowsShowTheirItem'
    BY <1>4, SentAgain
  <2> QED BY <1>1, <2>1 DEF Windowed
<1>5. CASE live'.bags = live.bags /\ UNCHANGED <<views, outdated>>
  <2>1. UNCHANGED <<closed, windows, shown, outdated>>
    BY <1>5 DEF views
  <2>2. WindowsShowTheirItem'
    <3>1. CASE phase = "in"
      BY <1>5, <2>1, <3>1, SameBags
    <3>2. CASE phase # "in"
      BY <1>1, <3>2 DEF WindowsShowTheirItem
    <3> QED BY <3>1, <3>2
  <2> QED BY <1>1, <2>1, <2>2 DEF Windowed
<1> QED
  BY <1>2, <1>3, <1>4, <1>5 DEF Does, Viewed

LEMMA OpenKeepsWindowed ==
  ASSUME Typed, Windowed, NEW c \in Bags, NEW i \in Places, OpenContent(c, i)
  PROVE  Windowed'
<1> DEFINE w == Min(FreeIds)
<1>1. w \in Ids \ Bags /\ w \notin DOMAIN windows
  <2>1. FreeIds \in SUBSET Nat /\ FreeIds # {}
    BY InventoryAssumption DEF FreeIds, OpenContent
  <2>2. Min(FreeIds) \in FreeIds
    BY <2>1, MinIs
  <2> QED BY <2>2 DEF FreeIds
<1>2. /\ i \in DOMAIN live.bags[c] /\ phase = "in"
      /\ windows' = [v \in DOMAIN windows \cup {w} |-> IF v = w THEN <<c, i>> ELSE windows[v]]
      /\ shown' = [v \in DOMAIN shown \cup {w} |->
                      IF v = w THEN live.bags[c][i].contents ELSE shown[v]]
      /\ UNCHANGED <<live, phase, closed, outdated>>
  BY DEF OpenContent, Ready
<1> HIDE DEF w
<1>3. ASSUME NEW v \in DOMAIN windows' \ outdated'
      PROVE  \E item \in ToSet(Addressed(live, v)') : shown'[v] = item.contents
  <2>1. CASE v = w
    <3>1. windows'[v] = <<c, i>> /\ shown'[v] = live.bags[c][i].contents
      BY <1>2, <2>1 DEF Windowed
    <3>2. Addressed(live, v)' = ItemAt(live.bags, c, i)
      BY <1>2, <3>1 DEF Addressed
    <3>3. DOMAIN live.bags = Bags
      BY LiveIs DEF Roomed, Carried
    <3>4. ItemAt(live.bags, c, i) = <<live.bags[c][i]>>
      BY <1>2, <3>3 DEF ItemAt
    <3>5. live.bags[c][i] \in ToSet(<<live.bags[c][i]>>)
      BY DEF ToSet
    <3> QED BY <3>1, <3>2, <3>4, <3>5
  <2>2. CASE v # w
    <3>1. v \in DOMAIN windows \ outdated /\ windows'[v] = windows[v] /\ shown'[v] = shown[v]
      BY <1>2, <1>3, <2>2 DEF Windowed
    <3>2. Addressed(live, v)' = Addressed(live, v)
      BY <1>2, <3>1 DEF Addressed
    <3>3. PICK item \in ToSet(Addressed(live, v)) : shown[v] = item.contents
      BY <1>2, <3>1 DEF Windowed, WindowsShowTheirItem
    <3> QED BY <3>1, <3>2, <3>3
  <2> QED BY <2>1, <2>2
<1>4. WindowsShowTheirItem'
  BY <1>3 DEF WindowsShowTheirItem
<1>5. DOMAIN windows' = DOMAIN windows \cup {w} /\ DOMAIN shown' = DOMAIN shown \cup {w}
  BY <1>2
<1> QED
  BY <1>1, <1>2, <1>4, <1>5 DEF Windowed

LEMMA CloseKeepsWindowed ==
  ASSUME Typed, Windowed, NEW w \in Ids, CloseWindow(w)
  PROVE  Windowed'
<1>1. /\ closed' = closed \cup {w} /\ outdated' = outdated \ {w}
      /\ windows' = [v \in DOMAIN windows \ {w} |-> windows[v]]
      /\ shown' = [v \in DOMAIN shown \ {w} |-> shown[v]]
      /\ UNCHANGED <<live, phase>>
  BY DEF CloseWindow, Restrict, Windowed
<1>2. ASSUME NEW v \in DOMAIN windows' \ outdated', phase' = "in"
      PROVE  \E item \in ToSet(Addressed(live, v)') : shown'[v] = item.contents
  <2>1. v \in DOMAIN windows \ outdated /\ windows'[v] = windows[v] /\ shown'[v] = shown[v]
    BY <1>1, <1>2 DEF Windowed
  <2>2. Addressed(live, v)' = Addressed(live, v)
    BY <1>1, <2>1 DEF Addressed
  <2>3. PICK item \in ToSet(Addressed(live, v)) : shown[v] = item.contents
    BY <1>1, <1>2, <2>1 DEF Windowed, WindowsShowTheirItem
  <2> QED BY <2>1, <2>2, <2>3
<1>3. WindowsShowTheirItem'
  BY <1>2 DEF WindowsShowTheirItem
<1>4. DOMAIN windows' = DOMAIN windows \ {w} /\ DOMAIN shown' = DOMAIN shown \ {w}
  BY <1>1
<1> QED
  BY <1>1, <1>3, <1>4 DEF Windowed

LEMMA NextKeepsWindowed ==
  ASSUME Typed, Windowed, [Next]_vars
  PROVE  Windowed'
<1>1. CASE Does
  BY <1>1, DoesKeepsWindowed
<1>2. CASE Login
  <2>1. DOMAIN windows = {} /\ UNCHANGED <<closed, windows, shown, outdated>> /\ phase' = "in"
    BY <1>2 DEF Login, views, Windowed
  <2> QED BY <2>1 DEF Windowed, WindowsShowTheirItem
<1>3. CASE Leave
  BY <1>3 DEF Leave, Windowed, WindowsShowTheirItem
<1>4. CASE \E c \in Bags, i \in Places : OpenContent(c, i)
  BY <1>4, OpenKeepsWindowed
<1>5. CASE \E w \in Ids : CloseWindow(w)
  BY <1>5, CloseKeepsWindowed
<1>6. CASE (\E c : Reopen(c)) \/ UNCHANGED vars
  <2>1. UNCHANGED <<live, phase, windows, shown, outdated>> /\ closed' \subseteq closed
    BY <1>6 DEF Reopen, vars
  <2>2. \A w : Addressed(live, w)' = Addressed(live, w)
    BY <2>1 DEF Addressed
  <2>3. WindowsShowTheirItem'
    BY <2>1, <2>2 DEF Windowed, WindowsShowTheirItem
  <2> QED BY <2>1, <2>3 DEF Windowed
<1> QED
  BY <1>1, <1>2, <1>3, <1>4, <1>5, <1>6, NextDoes

----------------------------------------------------------------------------
(* The rows keep up *)

(* What is worn is stored without contents, so that it is its own row after *)
(* the next login.                                                          *)
Kept ==
    /\ RowsKeepUp
    /\ Hollowed(rows.worn) = rows.worn

LEMMA InitKept == Init => Kept
BY StockIs DEF Init, Kept, RowsKeepUp

LEMMA WritingKeeps ==
  ASSUME Typed, Kept, phase' = phase, harm \subseteq harm', NEW tables,
         Changes(live', tables), WriteRows(live', tables)
  PROVE  Kept'
<1>1. /\ Good(live') /\ tables \subseteq Tables
      /\ "worn" \notin tables => live'.worn = live.worn
      /\ "bags" \notin tables => live'.bags = live.bags
  BY DEF Changes
<1>2. /\ rows' = [worn |-> IF "worn" \in tables THEN Hollowed(live'.worn) ELSE rows.worn,
                  bags |-> IF "bags" \in tables THEN live'.bags ELSE rows.bags]
      /\ "worn" \in hollow' <=> IF "worn" \in tables
                                THEN Hollowed(live'.worn) # live'.worn
                                ELSE "worn" \in hollow
      /\ "bags" \in hollow' <=> "bags" \notin tables /\ "bags" \in hollow
  BY <1>1, WrittenRows
<1>3. live'.worn \in Wearings
  BY <1>1, GoodParts
<1>4. Hollowed(rows'.worn) = rows'.worn
  BY <1>2, <1>3, HollowedWorn DEF Kept
<1>5. ASSUME phase' = "in", harm' \cap {"unconsumed", "unsaved"} = {}
      PROVE  /\ rows'.worn = Hollowed(live'.worn)
             /\ rows'.bags = IF "bags" \in hollow' THEN BagRows(live') ELSE live'.bags
             /\ "worn" \notin hollow' => rows'.worn = live'.worn
  <2>1. /\ rows.worn = Hollowed(live.worn)
        /\ rows.bags = IF "bags" \in hollow THEN BagRows(live) ELSE live.bags
        /\ "worn" \notin hollow => rows.worn = live.worn
    BY <1>5 DEF Kept, RowsKeepUp, WornRows
  <2>2. rows'.worn = Hollowed(live'.worn)
    BY <1>1, <1>2, <2>1
  <2>3. "worn" \notin hollow' => rows'.worn = live'.worn
    BY <1>1, <1>2, <2>1
  <2>4. CASE "bags" \in tables
    BY <1>2, <2>2, <2>3, <2>4
  <2>5. CASE "bags" \notin tables
    <3>1. BagRows(live') = BagRows(live)
      BY <1>1, <2>5 DEF BagRows
    <3> QED BY <1>1, <1>2, <2>1, <2>2, <2>3, <2>5, <3>1
  <2> QED BY <2>4, <2>5
<1> QED
  BY <1>4, <1>5 DEF Kept, RowsKeepUp, WornRows, BagRows

LEMMA GroundKeeps ==
  ASSUME Good(live'), WriteRowsWithGround(live')
  PROVE  Kept'
<1>1. /\ rows' = [worn |-> Hollowed(live'.worn), bags |-> BagRows(live')]
      /\ "worn" \in hollow' <=> Hollowed(live'.worn) # live'.worn
      /\ "bags" \in hollow' <=> BagRows(live') # live'.bags
  BY WrittenWithGround
<1>2. live'.worn \in Wearings
  BY GoodParts
<1> QED
  BY <1>1, <1>2, HollowedWorn DEF Kept, RowsKeepUp, WornRows, BagRows

(* Consumption that is not stored in both places has been counted as harm. *)
LEMMA HarmKeeps ==
  ASSUME Typed, Kept, harm' \cap {"unconsumed", "unsaved"} # {},
         \/ UNCHANGED <<rows, hollow>>
         \/ \E inventory, tables :
               Good(inventory) /\ tables \subseteq Tables /\ WriteRows(inventory, tables)
  PROVE  Kept'
<1>1. Hollowed(rows'.worn) = rows'.worn
  <2>1. CASE UNCHANGED <<rows, hollow>>
    BY <2>1 DEF Kept
  <2>2. ASSUME NEW inventory, NEW tables,
               Good(inventory), tables \subseteq Tables, WriteRows(inventory, tables)
        PROVE  Hollowed(rows'.worn) = rows'.worn
    <3>1. rows'.worn = IF "worn" \in tables THEN Hollowed(inventory.worn) ELSE rows.worn
      BY <2>2, WrittenRows
    <3>2. inventory.worn \in Wearings
      BY <2>2, GoodParts
    <3> QED BY <3>1, <3>2, HollowedWorn DEF Kept
  <2> QED BY <2>1, <2>2
<1> QED
  BY <1>1 DEF Kept, RowsKeepUp

LEMMA SameKeeps ==
  ASSUME Kept, UNCHANGED <<live, rows, hollow>>, phase' = phase, harm \subseteq harm'
  PROVE  Kept'
<1>1. ASSUME phase' = "in", harm' \cap {"unconsumed", "unsaved"} = {}
      PROVE  phase = "in" /\ harm \cap {"unconsumed", "unsaved"} = {}
  BY <1>1
<1>2. WornRows(live)' = WornRows(live) /\ BagRows(live)' = BagRows(live)
      /\ Hollowed(rows.worn)' = Hollowed(rows.worn)
  BY DEF WornRows, BagRows, Hollowed
<1> QED
  BY <1>1, <1>2 DEF Kept, RowsKeepUp

LEMMA DoesKeepsKept ==
  ASSUME Typed, Kept, Does
  PROVE  Kept'
<1>1. Stored /\ harm \subseteq harm'
  BY DEF Does, Counted
<1>2. CASE phase' = "ending" /\ UNCHANGED <<rows, hollow>>
  BY <1>2 DEF Kept, RowsKeepUp, Hollowed
<1>3. CASE phase' = phase /\ UNCHANGED <<live, rows, hollow>>
  BY <1>1, <1>3, SameKeeps
<1>4. CASE phase' = phase /\ \E tables : Changes(live', tables) /\ WriteRows(live', tables)
  BY <1>1, <1>4, WritingKeeps
<1>5. CASE phase' = phase /\ Good(live') /\ WriteRowsWithGround(live')
  BY <1>5, GroundKeeps
<1>6. CASE /\ harm' \cap {"unconsumed", "unsaved"} # {}
           /\ \/ UNCHANGED <<rows, hollow>>
              \/ \E inventory, tables :
                    Good(inventory) /\ tables \subseteq Tables /\ WriteRows(inventory, tables)
  BY <1>6, HarmKeeps
<1> QED
  BY <1>1, <1>2, <1>3, <1>4, <1>5, <1>6 DEF Stored

LEMMA NextKeepsKept ==
  ASSUME Typed, Kept, [Next]_vars
  PROVE  Kept'
<1>1. CASE Does
  BY <1>1, DoesKeepsKept
<1>2. CASE Login
  <2>1. live' = rows /\ rows' = rows /\ hollow' = {}
    BY <1>2 DEF Login
  <2>2. Hollowed(rows'.worn) = rows'.worn /\ Hollowed(live'.worn) = rows'.worn
    BY <2>1 DEF Kept
  <2> QED BY <2>1, <2>2 DEF Kept, RowsKeepUp, WornRows
<1>3. CASE Leave
  BY <1>3 DEF Leave, Kept, RowsKeepUp, Hollowed
<1>4. CASE \/ \E c \in Bags, i \in Places : OpenContent(c, i)
           \/ \E w \in Ids : CloseWindow(w)
           \/ \E c : Reopen(c)
           \/ UNCHANGED vars
  <2>1. UNCHANGED <<live, rows, hollow, phase, harm>>
    BY <1>4 DEF OpenContent, CloseWindow, Reopen, vars
  <2> QED BY <2>1, SameKeeps
<1> QED
  BY <1>1, <1>2, <1>3, <1>4, NextDoes

----------------------------------------------------------------------------
(* Sums over finite sets, as SumFunction takes them *)

Numbers(F, S) == \A x \in S : F[x] \in Int

AlikeBut(F, G, S, a) == \A x \in S \ {a} : G[x] = F[x]

Pick(s) == CHOOSE x \in s : TRUE

(* it is the sum of F over every subset of S. *)
Sums(F, S, it) ==
    it = [s \in SUBSET S |-> IF s = {} THEN 0 ELSE F[Pick(s)] + it[s \ {Pick(s)}]]

LEMMA SmallestSet ==
  ASSUME NEW S, IsFiniteSet(S), NEW Bad, Bad \subseteq SUBSET S, Bad # {}
  PROVE  \E s \in Bad : \A t \in Bad : t \subseteq s => t = s
<1> DEFINE R == StrictSubsetOrdering(S)
<1>1. IsWellFoundedOn(R, SUBSET S)
  BY FS_StrictSubsetOrderingWellFounded, FS_FiniteSubsetsOfFinite
<1>2. \A s, t \in SUBSET S : <<t, s>> \in R <=> t \subseteq s /\ t # s
  BY DEF StrictSubsetOrdering
<1> HIDE DEF R
<1>3. \E s \in Bad : \A t \in Bad : ~ (<<t, s>> \in R)
  BY <1>1, WFMin
<1> QED
  BY <1>2, <1>3

LEMMA SumOf ==
  ASSUME NEW S, NEW F, NEW it, Sums(F, S, it)
  PROVE  \A s \in SUBSET S : it[s] = IF s = {} THEN 0 ELSE F[Pick(s)] + it[s \ {Pick(s)}]
BY DEF Sums

LEMMA PickType == ASSUME NEW s, s # {} PROVE Pick(s) \in s
BY DEF Pick

(* Summands that differ at one place only make sums that differ as they do. *)
AlikeSums(S, F, G, a, T, U, it, jt, r) ==
    /\ IsFiniteSet(S) /\ Numbers(F, S) /\ Numbers(G, S) /\ AlikeBut(F, G, S, a)
    /\ T \in SUBSET S /\ U \in SUBSET S /\ r \subseteq T /\ r \subseteq U
    /\ Sums(F, T, it) /\ Sums(G, U, jt)

LEMMA SumsDiffer ==
  ASSUME NEW S, NEW F, NEW G, NEW a, NEW T, NEW U, NEW it, NEW jt, NEW r,
         AlikeSums(S, F, G, a, T, U, it, jt, r)
  PROVE  /\ it[r] \in Int
         /\ a \in r => jt[r] = it[r] + (G[a] - F[a])
         /\ a \notin r => jt[r] = it[r]
<1> USE DEF AlikeSums
<1>i. \A v \in SUBSET T : it[v] = IF v = {} THEN 0 ELSE F[Pick(v)] + it[v \ {Pick(v)}]
  BY DEF Sums
<1>j. \A v \in SUBSET U : jt[v] = IF v = {} THEN 0 ELSE G[Pick(v)] + jt[v \ {Pick(v)}]
  BY DEF Sums
<1> DEFINE OK(s) == /\ it[s] \in Int
                    /\ a \in s => jt[s] = it[s] + (G[a] - F[a])
                    /\ a \notin s => jt[s] = it[s]
           Bad == {s \in SUBSET (T \cap U) : ~OK(s)}
<1>1. SUFFICES Bad = {}
  BY <1>1
<1>2. SUFFICES ASSUME Bad # {} PROVE FALSE
  OBVIOUS
<1>3. PICK s \in Bad : \A t \in Bad : t \subseteq s => t = s
  <2>1. Bad \subseteq SUBSET S
    OBVIOUS
  <2> HIDE DEF Bad
  <2> QED BY <1>2, <2>1, SmallestSet
<1>4. s \subseteq T /\ s \subseteq U /\ ~OK(s)
  OBVIOUS
<1>5. CASE s = {}
  <2>1. it[s] = 0 /\ jt[s] = 0
    BY <1>4, <1>5, <1>i, <1>j
  <2> QED
    BY <1>4, <1>5, <2>1
<1>6. CASE s # {}
  <2> DEFINE x == Pick(s)
             t == s \ {x}
  <2>1. x \in s /\ it[s] = F[x] + it[t] /\ jt[s] = G[x] + jt[t]
    BY <1>4, <1>6, <1>i, <1>j, PickType
  <2>2. OK(t)
    BY <1>3, <1>4, <2>1
  <2>3. x \in S /\ F[x] \in Int /\ G[x] \in Int
    BY <1>4, <2>1 DEF Numbers
  <2>4. CASE x = a
    BY <2>1, <2>2, <2>3, <2>4, <1>4
  <2>5. CASE x # a
    <3>1. G[x] = F[x] /\ (a \in t <=> a \in s)
      BY <2>3, <2>5 DEF AlikeBut
    <3>2. CASE a \in s
      <4>1. G[a] \in Int /\ F[a] \in Int
        BY <1>4, <3>2 DEF Numbers
      <4> QED
        BY <2>1, <2>2, <2>3, <3>1, <3>2, <4>1, <1>4
    <3>3. CASE a \notin s
      BY <2>1, <2>2, <2>3, <3>1, <3>3, <1>4
    <3> QED
      BY <3>2, <3>3
  <2> QED
    BY <2>4, <2>5
<1> QED
  BY <1>5, <1>6

LEMMA SumsAgree ==
  ASSUME NEW S, IsFiniteSet(S), NEW F, Numbers(F, S),
         NEW T \in SUBSET S, NEW U \in SUBSET S, NEW it, NEW jt,
         Sums(F, T, it), Sums(F, U, jt), NEW r, r \subseteq T, r \subseteq U
  PROVE  it[r] \in Int /\ jt[r] = it[r]
<1>1. PICK a : a \notin S
  BY NoSetContainsEverything
<1>2. AlikeSums(S, F, F, a, T, U, it, jt, r)
  BY DEF AlikeBut, AlikeSums
<1>3. /\ it[r] \in Int
      /\ a \in r => jt[r] = it[r] + (F[a] - F[a])
      /\ a \notin r => jt[r] = it[r]
  BY <1>2, SumsDiffer
<1> QED
  BY <1>1, <1>3

(* Every finite sum exists: a smallest set without one would have the sums of *)
(* its proper subsets put together.                                           *)
LEMMA SumsExist ==
  ASSUME NEW S, IsFiniteSet(S), NEW F, Numbers(F, S)
  PROVE  \E it : Sums(F, S, it)
<1> DEFINE Bad == {s \in SUBSET S : ~\E it : Sums(F, s, it)}
<1>1. SUFFICES ASSUME Bad # {} PROVE FALSE
  OBVIOUS
<1>2. PICK T \in Bad : \A t \in Bad : t \subseteq T => t = T
  <2>1. Bad \subseteq SUBSET S
    OBVIOUS
  <2> HIDE DEF Bad
  <2> QED BY <1>1, <2>1, SmallestSet
<1> DEFINE H(s) == CHOOSE it : Sums(F, s, it)
           jt == [s \in SUBSET T |-> IF s = T /\ T # {}
                                     THEN F[Pick(T)] + H(T \ {Pick(T)})[T \ {Pick(T)}]
                                     ELSE IF s = {} THEN 0 ELSE H(s)[s]]
<1>3. T \in SUBSET S /\ ~\E it : Sums(F, T, it)
  OBVIOUS
<1>4. ASSUME NEW s \in SUBSET T, s # T PROVE Sums(F, s, H(s))
  <2>1. \E it : Sums(F, s, it)
    BY <1>2, <1>3, <1>4
  <2> QED
    BY <2>1, Zenon
<1>5. ASSUME NEW s \in SUBSET T
      PROVE  jt[s] = IF s = {} THEN 0 ELSE F[Pick(s)] + jt[s \ {Pick(s)}]
  <2> HIDE DEF H, Bad
  <2> DEFINE x == Pick(s)
             t == s \ {x}
  <2>1. CASE s = {}
    BY <2>1
  <2>2. CASE s # {}
    <3>1. x \in s /\ t \in SUBSET T /\ t # T /\ t # s
      BY <2>2 DEF Pick
    <3>2. Sums(F, t, H(t))
      BY <1>4, <3>1
    <3>3. jt[t] = H(t)[t]
      <4> HIDE DEF x
      <4>1. CASE t = {}
        <5>1. H(t)[t] = 0
          BY <3>2, <4>1, SumOf
        <5> QED
          BY <3>1, <4>1, <5>1
      <4>2. CASE t # {}
        BY <3>1, <4>2
      <4> QED BY <4>1, <4>2
    <3>4. CASE s = T
      BY <2>2, <3>3, <3>4
    <3>5. CASE s # T
      <4>1. Sums(F, s, H(s))
        BY <1>4, <3>5
      <4>2. H(s)[s] = F[x] + H(s)[t]
        BY <2>2, <4>1, <3>5, SumOf
      <4>3. H(s)[t] = H(t)[t]
        <5>1. s \in SUBSET S /\ t \in SUBSET S /\ t \subseteq s
          BY <1>3, <3>1
        <5> HIDE DEF t
        <5> QED BY <3>2, <4>1, <5>1, SumsAgree
      <4>4. jt[s] = H(s)[s]
        BY <2>2, <3>5
      <4> QED
        BY <2>2, <3>3, <4>2, <4>3, <4>4
    <3> QED BY <3>4, <3>5
  <2> QED BY <2>1, <2>2
<1>6. Sums(F, T, jt)
  <2>1. jt = [s \in SUBSET T |-> jt[s]]
    OBVIOUS
  <2> HIDE DEF jt
  <2> QED BY <1>5, <2>1 DEF Sums
<1> QED
  BY <1>3, <1>6

SumOver(F, S) == (CHOOSE it : Sums(F, S, it))[S]

LEMMA SumIsTaken ==
  ASSUME NEW S, IsFiniteSet(S), NEW F, Numbers(F, S)
  PROVE  Sums(F, S, CHOOSE it : Sums(F, S, it))
BY SumsExist, Zenon

LEMMA SumOverType ==
  ASSUME NEW S, IsFiniteSet(S), NEW F, Numbers(F, S)
  PROVE  SumOver(F, S) \in Int
<1> DEFINE it == CHOOSE it : Sums(F, S, it)
<1>1. Sums(F, S, it)
  BY SumIsTaken
<1>2. SumOver(F, S) = it[S]
  BY DEF SumOver
<1> HIDE DEF it
<1> QED
  BY <1>1, <1>2, SumsAgree

(* Any member can be taken out of a sum, not only the one that is chosen. *)
LEMMA SumsTakeOut ==
  ASSUME NEW S, IsFiniteSet(S), NEW F, Numbers(F, S), NEW it, Sums(F, S, it),
         NEW s \in SUBSET S, NEW a \in s
  PROVE  it[s] = F[a] + it[s \ {a}]
<1>i. \A v \in SUBSET S : it[v] = IF v = {} THEN 0 ELSE F[Pick(v)] + it[v \ {Pick(v)}]
  BY SumOf
<1>n. \A v \in SUBSET S : it[v] \in Int
  BY SumsAgree
<1> DEFINE Wrong(v) == \E b \in v : it[v] # F[b] + it[v \ {b}]
           Bad == {v \in SUBSET S : Wrong(v)}
<1>1. SUFFICES ASSUME Bad # {} PROVE FALSE
  OBVIOUS
<1>2. PICK v \in Bad : \A u \in Bad : u \subseteq v => u = v
  <2>1. Bad \subseteq SUBSET S
    OBVIOUS
  <2> HIDE DEF Bad
  <2> QED BY <1>1, <2>1, SmallestSet
<1>3. v \in SUBSET S /\ Wrong(v)
  OBVIOUS
<1>4. PICK b \in v : it[v] # F[b] + it[v \ {b}]
  BY <1>3
<1> DEFINE x == Pick(v)
<1>5. x \in v /\ it[v] = F[x] + it[v \ {x}]
  BY <1>3, <1>4, <1>i, PickType
<1>6. x # b
  BY <1>4, <1>5
<1>7. \A u \in SUBSET v : u # v => \A c \in u : it[u] = F[c] + it[u \ {c}]
  BY <1>2, <1>3
<1> HIDE DEF x, Bad, Wrong
<1>8. it[v \ {x}] = F[b] + it[(v \ {x}) \ {b}]
  <2>1. v \ {x} \in SUBSET v /\ v \ {x} # v /\ b \in v \ {x}
    BY <1>5, <1>6
  <2> QED BY <1>7, <2>1
<1>9. it[v \ {b}] = F[x] + it[(v \ {b}) \ {x}]
  <2>1. v \ {b} \in SUBSET v /\ v \ {b} # v /\ x \in v \ {b}
    BY <1>5, <1>6
  <2> QED BY <1>7, <2>1
<1>10. (v \ {b}) \ {x} = (v \ {x}) \ {b}
  OBVIOUS
<1>11. F[x] \in Int /\ F[b] \in Int /\ it[(v \ {x}) \ {b}] \in Int
  <2>1. x \in S /\ b \in S /\ (v \ {x}) \ {b} \in SUBSET S
    BY <1>3, <1>5
  <2> QED BY <2>1, <1>n DEF Numbers
<1>12. it[v] = F[b] + it[v \ {b}]
  <2> DEFINE m == it[(v \ {x}) \ {b}]
             fx == F[x]
             fb == F[b]
  <2>1. it[v] = fx + (fb + m) /\ it[v \ {b}] = fx + m
    BY <1>5, <1>8, <1>9, <1>10
  <2>2. fx \in Int /\ fb \in Int /\ m \in Int
    BY <1>11
  <2> HIDE DEF m, fx, fb
  <2>3. it[v] = fb + it[v \ {b}]
    BY <2>1, <2>2
  <2> QED BY <2>3 DEF fb
<1> QED
  BY <1>4, <1>12

LEMMA SumOverNone ==
  ASSUME NEW F
  PROVE  SumOver(F, {}) = 0
<1>1. Numbers(F, {}) /\ IsFiniteSet({})
  BY FS_EmptySet DEF Numbers
<1> DEFINE it == CHOOSE it : Sums(F, {}, it)
<1>2. Sums(F, {}, it)
  BY <1>1, SumIsTaken
<1>3. SumOver(F, {}) = it[{}]
  BY DEF SumOver
<1> HIDE DEF it
<1>4. it[{}] = 0
  BY <1>2, SumOf
<1> QED
  BY <1>3, <1>4

LEMMA SumOverAdds ==
  ASSUME NEW S, IsFiniteSet(S), NEW F, Numbers(F, S), NEW a \in S
  PROVE  SumOver(F, S) = F[a] + SumOver(F, S \ {a})
<1> DEFINE it == CHOOSE it : Sums(F, S, it)
           R == S \ {a}
           jt == CHOOSE jt : Sums(F, R, jt)
<1>1. IsFiniteSet(R) /\ R \subseteq S /\ Numbers(F, R)
  BY FS_Subset DEF Numbers
<1>2. Sums(F, S, it) /\ SumOver(F, S) = it[S]
  BY SumIsTaken DEF SumOver
<1>3. Sums(F, R, jt) /\ SumOver(F, R) = jt[R]
  <2>1. SumOver(F, R) = jt[R]
    BY DEF SumOver
  <2>2. Sums(F, R, jt)
    <3> HIDE DEF R
    <3> QED BY <1>1, SumIsTaken
  <2> QED BY <2>1, <2>2
<1> HIDE DEF it, jt
<1>4. it[S] = F[a] + it[R]
  BY <1>2, SumsTakeOut
<1> HIDE DEF R
<1>5. jt[R] = it[R]
  <2>1. S \in SUBSET S /\ R \in SUBSET S /\ R \subseteq R
    BY <1>1
  <2> QED BY <1>1, <1>2, <1>3, <2>1, SumsAgree
<1> QED
  BY <1>2, <1>3, <1>4, <1>5 DEF R

AtMost(G, F, S) == \A x \in S : G[x] <= F[x]

(* Smaller summands make a smaller sum. *)
LEMMA SumOverAtMost ==
  ASSUME NEW S, IsFiniteSet(S), NEW F, NEW G, Numbers(F, S), Numbers(G, S), AtMost(G, F, S)
  PROVE  SumOver(G, S) <= SumOver(F, S)
<1> DEFINE Bad == {s \in SUBSET S : ~ (SumOver(G, s) <= SumOver(F, s))}
<1>1. SUFFICES ASSUME Bad # {} PROVE FALSE
  OBVIOUS
<1>2. PICK s \in Bad : \A t \in Bad : t \subseteq s => t = s
  <2>1. Bad \subseteq SUBSET S
    OBVIOUS
  <2> HIDE DEF Bad
  <2> QED BY <1>1, <2>1, SmallestSet
<1>3. s \in SUBSET S /\ ~ (SumOver(G, s) <= SumOver(F, s))
  OBVIOUS
<1>4. CASE s = {}
  <2>1. SumOver(G, {}) = 0 /\ SumOver(F, {}) = 0
    BY SumOverNone
  <2> QED BY <1>3, <1>4, <2>1
<1>5. CASE s # {}
  <2>1. PICK a : a \in s
    BY <1>5
  <2> DEFINE t == s \ {a}
  <2>2. SumOver(G, t) <= SumOver(F, t)
    <3>1. t \subseteq s /\ t # s /\ t \in SUBSET S
      BY <1>3, <2>1
    <3> QED BY <1>2, <3>1
  <2>3. IsFiniteSet(s) /\ Numbers(F, s) /\ Numbers(G, s)
    BY <1>3, FS_Subset DEF Numbers
  <2>4. SumOver(F, s) = F[a] + SumOver(F, t) /\ SumOver(G, s) = G[a] + SumOver(G, t)
    BY <2>1, <2>3, SumOverAdds
  <2>5. IsFiniteSet(t) /\ Numbers(F, t) /\ Numbers(G, t)
    BY <2>3, FS_Subset DEF Numbers
  <2>6. F[a] \in Int /\ G[a] \in Int /\ G[a] <= F[a]
    BY <1>3, <2>1 DEF Numbers, AtMost
  <2> HIDE DEF t
  <2>7. SumOver(F, t) \in Int /\ SumOver(G, t) \in Int
    BY <2>5, SumOverType
  <2> HIDE DEF Bad
  <2> QED BY <1>3, <2>2, <2>4, <2>6, <2>7
<1> QED
  BY <1>4, <1>5

(* Equal summands make equal sums. *)
LEMMA SumOverSame ==
  ASSUME NEW S, IsFiniteSet(S), NEW F, NEW G, Numbers(F, S), \A x \in S : G[x] = F[x]
  PROVE  SumOver(G, S) = SumOver(F, S)
<1>1. Numbers(G, S) /\ AtMost(G, F, S) /\ AtMost(F, G, S)
  <2>1. \A x \in S : G[x] = F[x] /\ F[x] \in Int
    BY DEF Numbers
  <2>2. \A x \in S : G[x] <= F[x] /\ F[x] <= G[x] /\ G[x] \in Int
    <3>1. \A n \in Int : n <= n
      OBVIOUS
    <3> QED BY <2>1, <3>1
  <2> QED BY <2>2 DEF Numbers, AtMost
<1>2. SumOver(G, S) <= SumOver(F, S) /\ SumOver(F, S) <= SumOver(G, S)
  BY <1>1, SumOverAtMost
<1>3. SumOver(G, S) \in Int /\ SumOver(F, S) \in Int
  BY <1>1, SumOverType
<1> QED
  BY <1>2, <1>3

(* One summand changes. *)
LEMMA SumOverDiffers ==
  ASSUME NEW S, IsFiniteSet(S), NEW F, NEW G, Numbers(F, S), Numbers(G, S), NEW a \in S,
         AlikeBut(F, G, S, a)
  PROVE  SumOver(G, S) = SumOver(F, S) + (G[a] - F[a])
<1> DEFINE R == S \ {a}
<1>1. SumOver(F, S) = F[a] + SumOver(F, R) /\ SumOver(G, S) = G[a] + SumOver(G, R)
  BY SumOverAdds
<1>2. IsFiniteSet(R) /\ Numbers(F, R) /\ \A x \in R : G[x] = F[x]
  BY FS_Subset DEF Numbers, AlikeBut
<1> HIDE DEF R
<1>3. SumOver(G, R) = SumOver(F, R) /\ SumOver(F, R) \in Int
  BY <1>2, SumOverSame, SumOverType
<1>4. F[a] \in Int /\ G[a] \in Int
  BY DEF Numbers
<1> QED
  BY <1>1, <1>3, <1>4

LEMMA SumFunctionIs ==
  ASSUME NEW F
  PROVE  SumFunction(F) = SumOver(F, DOMAIN F)
BY DEF SumFunction, SumFunctionOnSet, FoldFunctionOnSet, MapThenFoldSet, SumOver, Sums, Pick

(* g lists the members of S, each once; a sum over its places is one over S. *)
Lists(g, m, S) ==
    /\ m \in Nat /\ g \in [1..m -> S]
    /\ \A x \in S : \E k \in 1..m : g[k] = x
    /\ \A j, k \in 1..m : g[j] = g[k] => j = k

MovedBy(H, F, g, m) == \A k \in 1..m : H[k] = F[g[k]]

LEMMA SumMoved ==
  ASSUME NEW g, NEW m, NEW S, IsFiniteSet(S), Lists(g, m, S), NEW F, NEW H, Numbers(F, S),
         MovedBy(H, F, g, m)
  PROVE  SumOver(H, 1..m) = SumOver(F, S)
<1> DEFINE Image(n) == {g[k] : k \in 1..n}
           Fails(n) == n <= m /\ SumOver(H, 1..n) # SumOver(F, Image(n))
           bad == {n \in Nat : Fails(n)}
<1>0. /\ m \in Nat /\ \A k \in 1..m : g[k] \in S
      /\ \A x \in S : \E k \in 1..m : g[k] = x
      /\ \A j, k \in 1..m : g[j] = g[k] => j = k
  BY DEF Lists
<1>1. \A k \in 1..m : H[k] = F[g[k]] /\ F[g[k]] \in Int
  BY <1>0 DEF Numbers, MovedBy
<1>2. ASSUME bad # {} PROVE FALSE
  <2>1. PICK n \in bad : \A q \in bad : n <= q
    <3>1. bad \subseteq Nat
      OBVIOUS
    <3> HIDE DEF bad
    <3> QED BY <1>2, <3>1, Least
  <2>2. n \in Nat /\ n <= m /\ SumOver(H, 1..n) # SumOver(F, Image(n))
    OBVIOUS
  <2>3. CASE n = 0
    <3>1. 1..0 = {} /\ Image(0) = {}
      OBVIOUS
    <3> HIDE DEF Image
    <3>2. SumOver(H, 1..0) = 0 /\ SumOver(F, Image(0)) = 0
      BY <3>1, SumOverNone
    <3> QED BY <2>2, <2>3, <3>2
  <2>4. CASE n # 0
    <3>1. n - 1 \in Nat /\ n - 1 <= m /\ n \in 1..n /\ n \in 1..m
      BY <1>0, <2>2, <2>4
    <3>2. SumOver(H, 1..(n - 1)) = SumOver(F, Image(n - 1))
      <4>1. n - 1 \notin bad
        <5> HIDE DEF bad
        <5>1. ~ (n <= n - 1)
          BY <2>2
        <5> QED BY <2>1, <5>1
      <4> QED BY <3>1, <4>1
    <3>3. (1..n) \ {n} = 1..(n - 1)
      BY <2>2, <3>1
    <3>4. \A k \in 1..n : k \in 1..m
      BY <1>0, <2>2
    <3>5. Image(n) \ {g[n]} = Image(n - 1) /\ g[n] \in Image(n) /\ Image(n) \subseteq S
      <4>1. \A k \in 1..n : g[k] = g[n] => k = n
        BY <1>0, <3>1, <3>4
      <4>2. \A k : k \in 1..n /\ k # n <=> k \in 1..(n - 1)
        BY <3>3, <3>1
      <4>3. g[n] \in Image(n) /\ Image(n) \subseteq S
        BY <1>0, <3>1, <3>4
      <4>4. \A y : y \in Image(n) /\ y # g[n] <=> y \in Image(n - 1)
        BY <4>1, <4>2
      <4> HIDE DEF Image
      <4> QED BY <4>3, <4>4
    <3>6. IsFiniteSet(1..n) /\ IsFiniteSet(Image(n))
      <4>1. IsFiniteSet(1..n)
        BY <2>2, FS_Interval
      <4>2. IsFiniteSet(S) /\ Image(n) \in SUBSET S
        BY <3>5
      <4>3. IsFiniteSet(Image(n))
        <5> HIDE DEF Image
        <5> QED BY <4>2, FS_Subset
      <4> QED BY <4>1, <4>3
    <3> HIDE DEF Image
    <3>7. Numbers(H, 1..n) /\ Numbers(F, Image(n))
      BY <1>1, <3>4, <3>5 DEF Numbers
    <3>8. SumOver(H, 1..n) = H[n] + SumOver(H, (1..n) \ {n})
      BY <3>1, <3>6, <3>7, SumOverAdds
    <3>9. SumOver(F, Image(n)) = F[g[n]] + SumOver(F, Image(n) \ {g[n]})
      BY <3>5, <3>6, <3>7, SumOverAdds
    <3>10. H[n] = F[g[n]]
      BY <1>1, <3>1
    <3>11. SumOver(H, 1..n) = SumOver(F, Image(n))
      BY <3>2, <3>3, <3>5, <3>8, <3>9, <3>10
    <3> QED BY <2>2, <3>11
  <2> QED BY <2>3, <2>4
<1>3. SumOver(H, 1..m) = SumOver(F, Image(m))
  <2>1. m \notin bad
    BY <1>2
  <2> QED BY <1>0, <2>1
<1>4. Image(m) = S
  BY <1>0
<1> HIDE DEF Image
<1> QED
  BY <1>3, <1>4

----------------------------------------------------------------------------
(* Sums over the members of lists *)

(* What the members of a list add up to when W counts each. *)
Weights(W, s) == [k \in DOMAIN s |-> W[s[k]]]
Total(W, s) == SumFunction(Weights(W, s))

LEMMA TotalIs ==
  ASSUME NEW W \in [Items -> Int], NEW s \in Seq(Items)
  PROVE  /\ Len(s) \in Nat /\ DOMAIN s = 1..Len(s) /\ IsFiniteSet(1..Len(s))
         /\ \A k \in 1..Len(s) : s[k] \in Items
         /\ \A k \in 1..Len(s) : Weights(W, s)[k] = W[s[k]] /\ W[s[k]] \in Int
         /\ Numbers(Weights(W, s), 1..Len(s))
         /\ Total(W, s) = SumOver(Weights(W, s), 1..Len(s))
         /\ Total(W, s) \in Int
<1>1. Len(s) \in Nat /\ DOMAIN s = 1..Len(s) /\ \A k \in 1..Len(s) : s[k] \in Items
  BY LenProperties, ElementOfSeq
<1>2. \A k \in 1..Len(s) : Weights(W, s)[k] = W[s[k]] /\ W[s[k]] \in Int
  BY <1>1 DEF Weights
<1>3. DOMAIN Weights(W, s) = 1..Len(s)
  BY <1>1 DEF Weights
<1>4. Total(W, s) = SumOver(Weights(W, s), 1..Len(s))
  BY <1>3, SumFunctionIs DEF Total
<1>5. IsFiniteSet(1..Len(s))
  BY <1>1, FS_Interval
<1>6. Numbers(Weights(W, s), 1..Len(s))
  BY <1>2 DEF Numbers
<1>7. SumOver(Weights(W, s), 1..Len(s)) \in Int
  BY <1>5, <1>6, SumOverType
<1> QED
  BY <1>1, <1>2, <1>4, <1>5, <1>6, <1>7

LEMMA TotalAppended ==
  ASSUME NEW W \in [Items -> Int], NEW s \in Seq(Items), NEW item \in Items
  PROVE  Total(W, Append(s, item)) = Total(W, s) + W[item]
<1> DEFINE n == Len(s)
           w == Append(s, item)
<1>1. w \in Seq(Items) /\ Len(w) = n + 1 /\ w[n + 1] = item /\ \A k \in 1..n : w[k] = s[k]
  BY AppendProperties
<1> HIDE DEF w
<1>2. /\ n \in Nat /\ IsFiniteSet(1..n) /\ Numbers(Weights(W, s), 1..n)
      /\ \A k \in 1..n : Weights(W, s)[k] = W[s[k]]
      /\ Total(W, s) = SumOver(Weights(W, s), 1..n) /\ Total(W, s) \in Int
  BY TotalIs
<1>3. /\ IsFiniteSet(1..(n + 1)) /\ Numbers(Weights(W, w), 1..(n + 1))
      /\ \A k \in 1..(n + 1) : Weights(W, w)[k] = W[w[k]]
      /\ Total(W, w) = SumOver(Weights(W, w), 1..(n + 1))
  BY <1>1, TotalIs
<1> HIDE DEF n
<1>4. (1..(n + 1)) \ {n + 1} = 1..n /\ n + 1 \in 1..(n + 1) /\ \A k \in 1..n : k \in 1..(n + 1)
  BY <1>2
<1>5. SumOver(Weights(W, w), 1..(n + 1)) = Weights(W, w)[n + 1] + SumOver(Weights(W, w), 1..n)
  <2> DEFINE N == 1..(n + 1)
             a == n + 1
             F == Weights(W, w)
  <2>1. IsFiniteSet(N) /\ Numbers(F, N) /\ a \in N /\ N \ {a} = 1..n
    BY <1>3, <1>4
  <2> HIDE DEF N, a, F
  <2>2. SumOver(F, N) = F[a] + SumOver(F, N \ {a})
    BY <2>1, SumOverAdds
  <2> QED BY <2>1, <2>2 DEF N, a, F
<1>6. Weights(W, w)[n + 1] = W[item] /\ W[item] \in Int
  BY <1>1, <1>3, <1>4
<1>7. SumOver(Weights(W, w), 1..n) = SumOver(Weights(W, s), 1..n)
  <2>1. \A k \in 1..n : Weights(W, w)[k] = Weights(W, s)[k]
    BY <1>1, <1>2, <1>3, <1>4
  <2> QED BY <1>2, <2>1, SumOverSame
<1> QED
  BY <1>2, <1>3, <1>5, <1>6, <1>7 DEF w

LEMMA TotalChanged ==
  ASSUME NEW W \in [Items -> Int], NEW s \in Seq(Items), NEW at \in 1..Len(s), NEW item \in Items
  PROVE  /\ [s EXCEPT ![at] = item] \in Seq(Items)
         /\ Total(W, [s EXCEPT ![at] = item]) = Total(W, s) + (W[item] - W[s[at]])
<1> DEFINE w == [s EXCEPT ![at] = item]
<1>1. w \in Seq(Items) /\ Len(w) = Len(s) /\ w[at] = item
      /\ \A k \in 1..Len(s) : k # at => w[k] = s[k]
  BY ExceptSeq
<1> HIDE DEF w
<1>2. /\ IsFiniteSet(1..Len(s)) /\ Numbers(Weights(W, s), 1..Len(s))
      /\ \A k \in 1..Len(s) : Weights(W, s)[k] = W[s[k]]
      /\ Total(W, s) = SumOver(Weights(W, s), 1..Len(s))
  BY TotalIs
<1>3. /\ Numbers(Weights(W, w), 1..Len(s))
      /\ \A k \in 1..Len(s) : Weights(W, w)[k] = W[w[k]]
      /\ Total(W, w) = SumOver(Weights(W, w), 1..Len(s))
  <2>1. /\ Numbers(Weights(W, w), 1..Len(w))
        /\ \A k \in 1..Len(w) : Weights(W, w)[k] = W[w[k]]
        /\ Total(W, w) = SumOver(Weights(W, w), 1..Len(w))
    BY <1>1, TotalIs
  <2> QED BY <1>1, <2>1, Zenon
<1>4. AlikeBut(Weights(W, s), Weights(W, w), 1..Len(s), at)
  BY <1>1, <1>2, <1>3 DEF AlikeBut
<1>5. SumOver(Weights(W, w), 1..Len(s))
        = SumOver(Weights(W, s), 1..Len(s)) + (Weights(W, w)[at] - Weights(W, s)[at])
  BY <1>2, <1>3, <1>4, SumOverDiffers
<1>6. Weights(W, w)[at] = W[item] /\ Weights(W, s)[at] = W[s[at]]
  BY <1>1, <1>2, <1>3
<1> QED
  BY <1>1, <1>2, <1>3, <1>5, <1>6 DEF w

(* The place of what comes k-th when the one at a place is left out. *)
Skip(at, k) == IF k < at THEN k ELSE k + 1

LEMMA SkipIs ==
  ASSUME NEW n \in Nat, NEW at \in 1..n
  PROVE  /\ n - 1 \in Nat
         /\ \A k \in 1..(n - 1) : Skip(at, k) \in 1..n /\ Skip(at, k) # at
         /\ \A j, k \in 1..(n - 1) : Skip(at, j) = Skip(at, k) => j = k
         /\ \A x \in 1..n : x # at => \E k \in 1..(n - 1) : Skip(at, k) = x
<1>1. ASSUME NEW x \in 1..n, x # at
      PROVE  \E k \in 1..(n - 1) : Skip(at, k) = x
  <2>1. CASE x < at
    <3>1. x \in 1..(n - 1) /\ Skip(at, x) = x
      BY <2>1 DEF Skip
    <3> QED BY <3>1
  <2>2. CASE ~ (x < at)
    <3>1. x - 1 \in 1..(n - 1) /\ Skip(at, x - 1) = x
      BY <1>1, <2>2 DEF Skip
    <3> QED BY <3>1
  <2> QED BY <2>1, <2>2
<1> QED
  BY <1>1 DEF Skip

LEMMA RemoveAtAt ==
  ASSUME NEW s \in Seq(Items), NEW i \in DOMAIN s
  PROVE  \A k \in 1..(Len(s) - 1) : RemoveAt(s, i)[k] = s[Skip(i, k)]
<1> DEFINE a == SubSeq(s, 1, i - 1)
           b == SubSeq(s, i + 1, Len(s))
<1>0. Len(s) \in Nat /\ i \in 1..Len(s) /\ \A j \in 1..Len(s) : s[j] \in Items
  BY ItemsOf
<1>1. a \in Seq(Items) /\ Len(a) = i - 1 /\ \A k \in 1..(i - 1) : a[k] = s[k]
  <2>1. \A j \in 1..(i - 1) : s[j] \in Items
    BY <1>0
  <2>2. /\ a \in Seq(Items) /\ Len(a) = IF 1 <= i - 1 THEN (i - 1) - 1 + 1 ELSE 0
        /\ \A k \in 1..((i - 1) - 1 + 1) : a[k] = s[1 + k - 1]
    BY <1>0, <2>1, SubSeqProperties
  <2>3. \A k \in 1..(i - 1) : k \in 1..((i - 1) - 1 + 1) /\ 1 + k - 1 = k
    BY <1>0
  <2>4. \A k \in 1..(i - 1) : a[k] = s[k]
    <3> HIDE DEF a
    <3> QED BY <2>2, <2>3
  <2> HIDE DEF a
  <2> QED BY <1>0, <2>2, <2>4
<1>2. b \in Seq(Items) /\ Len(b) = Len(s) - i /\ \A k \in 1..(Len(s) - i) : b[k] = s[i + k]
  <2>1. \A j \in (i + 1)..Len(s) : s[j] \in Items
    BY <1>0
  <2>2. /\ b \in Seq(Items) /\ Len(b) = IF i + 1 <= Len(s) THEN Len(s) - (i + 1) + 1 ELSE 0
        /\ \A k \in 1..(Len(s) - (i + 1) + 1) : b[k] = s[(i + 1) + k - 1]
    BY <1>0, <2>1, SubSeqProperties
  <2>3. \A k \in 1..(Len(s) - i) : k \in 1..(Len(s) - (i + 1) + 1) /\ (i + 1) + k - 1 = i + k
    BY <1>0
  <2>4. \A k \in 1..(Len(s) - i) : b[k] = s[i + k]
    <3> HIDE DEF b
    <3> QED BY <2>2, <2>3
  <2> HIDE DEF b
  <2> QED BY <1>0, <2>2, <2>4
<1>3. RemoveAt(s, i) = a \o b
  BY DEF RemoveAt
<1> HIDE DEF a, b
<1>4. \A k \in 1..(Len(a) + Len(b)) : (a \o b)[k] = IF k <= Len(a) THEN a[k] ELSE b[k - Len(a)]
  BY <1>1, <1>2, ConcatProperties
<1>5. ASSUME NEW k \in 1..(Len(s) - 1)
      PROVE  (a \o b)[k] = s[Skip(i, k)]
  <2>0. k \in 1..(Len(a) + Len(b))
    BY <1>0, <1>1, <1>2
  <2>1. CASE k < i
    <3>1. k \in 1..(i - 1) /\ k <= Len(a) /\ Skip(i, k) = k
      BY <1>0, <1>1, <2>1 DEF Skip
    <3> QED BY <1>1, <1>4, <2>0, <3>1
  <2>2. CASE ~ (k < i)
    <3>1. /\ k - Len(a) \in 1..(Len(s) - i) /\ ~ (k <= Len(a)) /\ Skip(i, k) = k + 1
          /\ i + (k - Len(a)) = k + 1
      BY <1>0, <1>1, <2>2 DEF Skip
    <3> QED BY <1>2, <1>4, <2>0, <3>1
  <2> QED BY <2>1, <2>2
<1> QED
  BY <1>3, <1>5

LEMMA TotalRemoved ==
  ASSUME NEW W \in [Items -> Int], NEW s \in Seq(Items), NEW at \in DOMAIN s
  PROVE  Total(W, RemoveAt(s, at)) = Total(W, s) - W[s[at]]
<1> DEFINE n == Len(s)
           w == RemoveAt(s, at)
           S == (1..n) \ {at}
           g == [k \in 1..(n - 1) |-> Skip(at, k)]
<1>1. /\ n \in Nat /\ at \in 1..n /\ IsFiniteSet(1..n) /\ Numbers(Weights(W, s), 1..n)
      /\ \A k \in 1..n : Weights(W, s)[k] = W[s[k]] /\ W[s[k]] \in Int
      /\ Total(W, s) = SumOver(Weights(W, s), 1..n)
  BY TotalIs
<1>2. w \in Seq(Items) /\ Len(w) = n - 1 /\ \A k \in 1..(n - 1) : w[k] = s[Skip(at, k)]
  BY RemoveAtIs, RemoveAtAt
<1> HIDE DEF w, n
<1>3. /\ \A k \in 1..(n - 1) : Weights(W, w)[k] = W[w[k]]
      /\ Total(W, w) = SumOver(Weights(W, w), 1..(n - 1))
  <2>1. /\ \A k \in 1..Len(w) : Weights(W, w)[k] = W[w[k]]
        /\ Total(W, w) = SumOver(Weights(W, w), 1..Len(w))
    BY <1>2, TotalIs
  <2> QED BY <1>2, <2>1
<1>4. Lists(g, n - 1, S)
  <2>1. /\ n - 1 \in Nat
        /\ \A k \in 1..(n - 1) : Skip(at, k) \in S
        /\ \A j, k \in 1..(n - 1) : Skip(at, j) = Skip(at, k) => j = k
        /\ \A x \in S : \E k \in 1..(n - 1) : Skip(at, k) = x
    <3>1. n \in Nat /\ at \in 1..n
      BY <1>1
    <3>2. /\ n - 1 \in Nat
          /\ \A k \in 1..(n - 1) : Skip(at, k) \in 1..n /\ Skip(at, k) # at
          /\ \A j, k \in 1..(n - 1) : Skip(at, j) = Skip(at, k) => j = k
          /\ \A x \in 1..n : x # at => \E k \in 1..(n - 1) : Skip(at, k) = x
      BY <3>1, SkipIs
    <3> QED BY <3>2
  <2>2. g \in [1..(n - 1) -> S]
    BY <2>1
  <2>3. \A k \in 1..(n - 1) : g[k] = Skip(at, k)
    OBVIOUS
  <2> HIDE DEF g, S
  <2> QED BY <2>1, <2>2, <2>3 DEF Lists
<1>5. IsFiniteSet(S) /\ Numbers(Weights(W, s), S)
  BY <1>1, FS_Subset DEF Numbers
<1>6. MovedBy(Weights(W, w), Weights(W, s), g, n - 1)
  <2>1. \A k \in 1..(n - 1) : Skip(at, k) \in 1..n
    BY <1>1, SkipIs
  <2>2. \A k \in 1..(n - 1) : g[k] = Skip(at, k)
    OBVIOUS
  <2> HIDE DEF g
  <2>3. \A k \in 1..(n - 1) : Weights(W, w)[k] = Weights(W, s)[g[k]]
    <3>1. \A k \in 1..(n - 1) : Weights(W, w)[k] = W[s[Skip(at, k)]]
      BY <1>2, <1>3
    <3>2. \A k \in 1..(n - 1) : Weights(W, s)[Skip(at, k)] = W[s[Skip(at, k)]]
      BY <1>1, <2>1
    <3> QED BY <2>2, <3>1, <3>2
  <2> QED BY <2>3 DEF MovedBy
<1> HIDE DEF g, S
<1>7. SumOver(Weights(W, w), 1..(n - 1)) = SumOver(Weights(W, s), S)
  BY <1>4, <1>5, <1>6, SumMoved
<1>8. SumOver(Weights(W, s), 1..n) = Weights(W, s)[at] + SumOver(Weights(W, s), S)
  BY <1>1, SumOverAdds DEF S
<1>9. SumOver(Weights(W, s), S) \in Int
  BY <1>5, SumOverType
<1> QED
  BY <1>1, <1>3, <1>7, <1>8, <1>9 DEF w

LEMMA TotalNone ==
  ASSUME NEW W
  PROVE  Total(W, <<>>) = 0
<1>1. DOMAIN Weights(W, <<>>) = {}
  BY EmptySeq DEF Weights
<1> QED
  BY <1>1, SumFunctionIs, SumOverNone DEF Total

----------------------------------------------------------------------------
(* Units of a kind, in stacks and containers *)

Owning(k) == [item \in Items |-> Own(item, k)]
Weighing(k) == [item \in Items |-> UnitsOf(item, k)]
Of(kind, n, k) == IF kind = k THEN n ELSE 0

LEMMA OwnIs ==
  ASSUME NEW item \in Items, NEW k
  PROVE  Own(item, k) \in Int /\ Own(item, k) = Of(item.kind, item.count, k)
BY ItemFields DEF Own, Of

LEMMA OwningIs ==
  ASSUME NEW k
  PROVE  /\ Owning(k) \in [Items -> Int]
         /\ \A item \in Items : Owning(k)[item] = Own(item, k)
BY OwnIs DEF Owning

LEMMA ContentsAreItems ==
  ASSUME NEW item \in Items
  PROVE  /\ item.contents \in Seq(Items)
         /\ \A j \in DOMAIN item.contents : item.contents[j] \in PlainItems
<1>1. item.contents \in Seq(PlainItems)
  BY ItemFields
<1>2. /\ Len(item.contents) \in Nat /\ DOMAIN item.contents = 1..Len(item.contents)
      /\ \A j \in DOMAIN item.contents : item.contents[j] \in PlainItems
  BY <1>1, ItemsOf
<1>3. item.contents = [j \in 1..Len(item.contents) |-> item.contents[j]]
  BY <1>1, <1>2, SeqDef
<1>4. \A j \in 1..Len(item.contents) : item.contents[j] \in Items
  BY <1>2, PlainItemsAreItems
<1>5. item.contents \in [1..Len(item.contents) -> Items]
  BY <1>3, <1>4
<1> QED
  BY <1>2, <1>5, SeqDef

LEMMA UnitsOfIs ==
  ASSUME NEW item \in Items, NEW k
  PROVE  /\ UnitsOf(item, k) = Own(item, k) + Total(Owning(k), item.contents)
         /\ UnitsOf(item, k) \in Int /\ Total(Owning(k), item.contents) \in Int
         /\ item.contents = <<>> => UnitsOf(item, k) = Own(item, k)
<1>1. item.contents \in Seq(Items)
  BY ContentsAreItems
<1>2. [j \in DOMAIN item.contents |-> Own(item.contents[j], k)] = Weights(Owning(k), item.contents)
  <2>1. \A j \in DOMAIN item.contents : Owning(k)[item.contents[j]] = Own(item.contents[j], k)
    BY <1>1, ItemsOf, OwningIs
  <2> QED BY <2>1 DEF Weights
<1>3. UnitsOf(item, k) = Own(item, k) + Total(Owning(k), item.contents)
  BY <1>2 DEF UnitsOf, Total
<1>4. Total(Owning(k), item.contents) \in Int
  BY <1>1, OwningIs, TotalIs
<1>5. Own(item, k) \in Int
  BY OwnIs
<1>6. ASSUME item.contents = <<>>
      PROVE  Total(Owning(k), item.contents) = 0
  BY <1>6, TotalNone
<1> QED
  BY <1>3, <1>4, <1>5, <1>6

LEMMA WeighingIs ==
  ASSUME NEW k
  PROVE  /\ Weighing(k) \in [Items -> Int]
         /\ \A item \in Items : Weighing(k)[item] = UnitsOf(item, k)
BY UnitsOfIs DEF Weighing

LEMMA InsideIs ==
  ASSUME NEW items \in Seq(Items), NEW k
  PROVE  Inside(items, k) = Total(Weighing(k), items) /\ Inside(items, k) \in Int
<1>1. [i \in DOMAIN items |-> UnitsOf(items[i], k)] = Weights(Weighing(k), items)
  <2>1. \A i \in DOMAIN items : Weighing(k)[items[i]] = UnitsOf(items[i], k)
    BY ItemsOf, WeighingIs
  <2> QED BY <2>1 DEF Weights
<1>2. Inside(items, k) = Total(Weighing(k), items)
  BY <1>1 DEF Inside, Total
<1> QED
  BY <1>2, WeighingIs, TotalIs

(* Two items with the same contents differ by their own units. *)
LEMMA SameContents ==
  ASSUME NEW item \in Items, NEW other \in Items, other.contents = item.contents, NEW k
  PROVE  UnitsOf(other, k) = UnitsOf(item, k) + (Own(other, k) - Own(item, k))
<1>1. /\ UnitsOf(item, k) = Own(item, k) + Total(Owning(k), item.contents)
      /\ UnitsOf(other, k) = Own(other, k) + Total(Owning(k), item.contents)
      /\ Total(Owning(k), item.contents) \in Int
  BY UnitsOfIs
<1>2. Own(item, k) \in Int /\ Own(other, k) \in Int
  BY OwnIs
<1> QED
  BY <1>1, <1>2

(* What leaves when n units of a stack are taken: with the last one, all. *)
Gone(item, n, k) ==
    IF n = item.count THEN UnitsOf(item, k) ELSE Of(item.kind, n, k)

LEMMA RestUnits ==
  ASSUME NEW item \in Items, NEW n \in 1..item.count, n # item.count, NEW k
  PROVE  UnitsOf(Rest(item, n), k) = UnitsOf(item, k) - Gone(item, n, k)
<1>1. Rest(item, n) \in Items /\ Rest(item, n).contents = item.contents
  BY RestIs
<1>2. item.count \in Nat /\ n \in Nat
  BY ItemFields
<1>3. Rest(item, n).kind = item.kind /\ Rest(item, n).count = item.count - n
  BY DEF Rest, Items
<1>4. UnitsOf(Rest(item, n), k) = UnitsOf(item, k) + (Own(Rest(item, n), k) - Own(item, k))
  BY <1>1, SameContents
<1>5. UnitsOf(item, k) \in Int
  BY UnitsOfIs
<1> QED
  BY <1>2, <1>3, <1>4, <1>5 DEF Own, Gone, Of

(* A part that is split off without harm is what leaves. *)
LEMMA PartUnits ==
  ASSUME NEW item \in Items, NEW n \in 1..item.count, SplitHarm(item, n) = {}, NEW k
  PROVE  UnitsOf(Part(item, n), k) = Gone(item, n, k)
<1>1. item.count \in Nat /\ n \in Nat /\ n \in 1..MaxCount
  BY ItemFields, InventoryAssumption
<1>2. /\ Part(item, n) \in Items /\ Part(item, n).contents = item.contents
      /\ Part(item, n).kind = item.kind /\ Part(item, n).count = n
  BY <1>1, PartIs
<1>3. CASE n = item.count
  <2>1. Own(Part(item, n), k) = Own(item, k) /\ Own(item, k) \in Int /\ UnitsOf(item, k) \in Int
    BY <1>2, <1>3, OwnIs, UnitsOfIs DEF Own
  <2>2. UnitsOf(Part(item, n), k) = UnitsOf(item, k) + (Own(Part(item, n), k) - Own(item, k))
    BY <1>2, SameContents
  <2> QED BY <1>3, <2>1, <2>2 DEF Gone
<1>4. CASE n # item.count
  <2>1. item.contents = <<>>
    BY <1>1, <1>4 DEF SplitHarm
  <2>2. UnitsOf(Part(item, n), k) = Own(Part(item, n), k)
    BY <1>2, <2>1, UnitsOfIs
  <2>3. Own(Part(item, n), k) = Of(item.kind, n, k)
    BY <1>2, OwnIs
  <2> QED BY <1>4, <2>2, <2>3 DEF Gone
<1> QED
  BY <1>3, <1>4

(* Where nothing is spilled only the units themselves leave. *)
LEMMA LooseUnits ==
  ASSUME NEW item \in Items, NEW n, Spills(item, n) = {}, NEW k
  PROVE  Gone(item, n, k) = Of(item.kind, n, k)
<1>1. CASE n = item.count
  <2>1. item.contents = <<>>
    BY <1>1 DEF Spills
  <2> QED BY <1>1, <2>1, UnitsOfIs, OwnIs DEF Gone
<1>2. CASE n # item.count
  BY <1>2 DEF Gone
<1> QED
  BY <1>1, <1>2

LEMMA MoreUnits ==
  ASSUME NEW item \in Items, NEW n \in Nat, item.count + n <= MaxCount, NEW k
  PROVE  UnitsOf([item EXCEPT !.count = @ + n], k) = UnitsOf(item, k) + Of(item.kind, n, k)
<1> DEFINE more == [item EXCEPT !.count = @ + n]
<1>1. more \in Items
  BY MoreIs
<1>2. more.contents = item.contents /\ more.kind = item.kind /\ more.count = item.count + n
  BY DEF Items
<1> HIDE DEF more
<1>3. UnitsOf(more, k) = UnitsOf(item, k) + (Own(more, k) - Own(item, k))
  BY <1>1, <1>2, SameContents
<1>4. UnitsOf(item, k) \in Int /\ item.count \in Nat
  BY UnitsOfIs, ItemFields
<1>5. UnitsOf(more, k) = UnitsOf(item, k) + Of(item.kind, n, k)
  BY <1>2, <1>3, <1>4 DEF Own, Of
<1> QED
  BY <1>5 DEF more

LEMMA GoneIs ==
  ASSUME NEW item \in Items, NEW n \in Nat, NEW k
  PROVE  Gone(item, n, k) \in Int /\ Of(item.kind, n, k) \in Int
BY UnitsOfIs DEF Gone, Of

LEMMA SetUnits ==
  ASSUME NEW items \in Seq(Items), NEW i \in DOMAIN items, NEW x \in Items, NEW k
  PROVE  Inside([items EXCEPT ![i] = x], k)
           = Inside(items, k) + (UnitsOf(x, k) - UnitsOf(items[i], k))
<1>1. i \in 1..Len(items) /\ items[i] \in Items
  BY ItemsOf
<1>2. Weighing(k) \in [Items -> Int]
  BY WeighingIs
<1>3. /\ [items EXCEPT ![i] = x] \in Seq(Items)
      /\ Total(Weighing(k), [items EXCEPT ![i] = x])
           = Total(Weighing(k), items) + (Weighing(k)[x] - Weighing(k)[items[i]])
  BY <1>1, <1>2, TotalChanged
<1>4. Weighing(k)[x] = UnitsOf(x, k) /\ Weighing(k)[items[i]] = UnitsOf(items[i], k)
  BY <1>1, WeighingIs
<1> QED
  BY <1>3, <1>4, InsideIs

LEMMA RemovedUnits ==
  ASSUME NEW items \in Seq(Items), NEW i \in DOMAIN items, NEW k
  PROVE  Inside(RemoveAt(items, i), k) = Inside(items, k) - UnitsOf(items[i], k)
<1>1. items[i] \in Items
  BY ItemsOf
<1>2. Weighing(k) \in [Items -> Int] /\ Weighing(k)[items[i]] = UnitsOf(items[i], k)
  BY <1>1, WeighingIs
<1>3. /\ RemoveAt(items, i) \in Seq(Items)
      /\ Total(Weighing(k), RemoveAt(items, i))
           = Total(Weighing(k), items) - Weighing(k)[items[i]]
  BY <1>2, RemoveAtIs, TotalRemoved
<1> QED
  BY <1>2, <1>3, InsideIs

LEMMA AppendedUnits ==
  ASSUME NEW items \in Seq(Items), NEW x \in Items, NEW k
  PROVE  Inside(Append(items, x), k) = Inside(items, k) + UnitsOf(x, k)
<1>1. Weighing(k) \in [Items -> Int] /\ Weighing(k)[x] = UnitsOf(x, k)
  BY WeighingIs
<1>2. /\ Append(items, x) \in Seq(Items)
      /\ Total(Weighing(k), Append(items, x)) = Total(Weighing(k), items) + Weighing(k)[x]
  BY <1>1, AppendProperties, TotalAppended
<1> QED
  BY <1>1, <1>2, InsideIs

LEMMA WithoutUnits ==
  ASSUME NEW items \in Seq(Items), NEW i \in DOMAIN items, NEW n \in 1..items[i].count, NEW k
  PROVE  Inside(Without(items, i, n), k) = Inside(items, k) - Gone(items[i], n, k)
<1>1. items[i] \in Items /\ Inside(items, k) \in Int
  BY ItemsOf, InsideIs
<1>2. CASE items[i].count = n
  BY <1>2, RemovedUnits DEF Without, Gone
<1>3. CASE items[i].count # n
  <2>1. Rest(items[i], n) \in Items
    BY <1>1, <1>3, RestIs
  <2>2. Without(items, i, n) = [items EXCEPT ![i] = Rest(items[i], n)]
    BY <1>3 DEF Without
  <2>3. Inside([items EXCEPT ![i] = Rest(items[i], n)], k)
          = Inside(items, k) + (UnitsOf(Rest(items[i], n), k) - UnitsOf(items[i], k))
    BY <2>1, SetUnits
  <2>4. UnitsOf(Rest(items[i], n), k) = UnitsOf(items[i], k) - Gone(items[i], n, k)
    BY <1>1, <1>3, RestUnits
  <2>5. UnitsOf(items[i], k) \in Int /\ Gone(items[i], n, k) \in Int
    BY <1>1, UnitsOfIs, GoneIs
  <2> QED BY <1>1, <2>2, <2>3, <2>4, <2>5
<1> QED
  BY <1>2, <1>3

LEMMA StackedUnits ==
  ASSUME NEW items \in Seq(Items), NEW item \in Items,
         MergeHarm(item, Roomy(items, item) # {}) = {}, NEW k
  PROVE  Inside(Stacked(items, item), k) = Inside(items, k) + UnitsOf(item, k)
<1>0. Len(items) \in Nat /\ DOMAIN items = 1..Len(items)
  BY ItemsOf
<1>1. CASE Roomy(items, item) # {}
  <2> DEFINE i == Min(Roomy(items, item))
             more == [items[i] EXCEPT !.count = @ + item.count]
  <2>1. i \in Roomy(items, item)
    <3>1. Roomy(items, item) \in SUBSET Nat
      BY <1>0 DEF Roomy, Alike
    <3> QED BY <1>1, <3>1, MinIs
  <2>2. /\ i \in DOMAIN items /\ items[i] \in Items /\ items[i].kind = item.kind
        /\ items[i].count + item.count <= MaxCount
    BY <2>1, ItemsOf DEF Roomy, Alike
  <2>3. item.count \in Nat
    BY ItemFields
  <2>4. Stacked(items, item) = [items EXCEPT ![i] = more]
    BY <1>1 DEF Stacked
  <2> HIDE DEF i
  <2>5. more \in Items /\ UnitsOf(more, k) = UnitsOf(items[i], k) + Of(item.kind, item.count, k)
    BY <2>2, <2>3, MoreIs, MoreUnits
  <2>6. UnitsOf(item, k) = Of(item.kind, item.count, k)
    <3>1. item.contents = <<>>
      BY <1>1 DEF MergeHarm
    <3> QED BY <3>1, UnitsOfIs, OwnIs
  <2> HIDE DEF more
  <2>7. Inside([items EXCEPT ![i] = more], k)
          = Inside(items, k) + (UnitsOf(more, k) - UnitsOf(items[i], k))
    BY <2>2, <2>5, SetUnits
  <2>8. UnitsOf(items[i], k) \in Int /\ UnitsOf(item, k) \in Int /\ Inside(items, k) \in Int
    BY <2>2, UnitsOfIs, InsideIs
  <2> QED BY <2>4, <2>5, <2>6, <2>7, <2>8
<1>2. CASE Roomy(items, item) = {}
  BY <1>2, AppendedUnits DEF Stacked
<1> QED
  BY <1>1, <1>2

(* A content item that leaves takes its own units with it. *)
LEMMA ContentsLess ==
  ASSUME NEW item \in Items, NEW j \in DOMAIN item.contents, NEW k
  PROVE  LET less == [item EXCEPT !.contents = RemoveAt(item.contents, j)]
         IN  /\ less \in Items
             /\ UnitsOf(less, k) = UnitsOf(item, k) - UnitsOf(item.contents[j], k)
<1> DEFINE rest == RemoveAt(item.contents, j)
           less == [item EXCEPT !.contents = rest]
<1>1. /\ item.contents \in Seq(PlainItems) /\ item.contents \in Seq(Items)
      /\ item.contents[j] \in PlainItems /\ item.contents[j] \in Items
  BY ItemFields, ContentsAreItems, PlainItemsAreItems
<1>2. rest \in Seq(PlainItems)
  BY <1>1, RemoveAtIs
<1>3. Owning(k) \in [Items -> Int] /\ Owning(k)[item.contents[j]] = Own(item.contents[j], k)
  BY <1>1, OwningIs
<1>4. Total(Owning(k), rest) = Total(Owning(k), item.contents) - Own(item.contents[j], k)
  BY <1>1, <1>3, TotalRemoved
<1> HIDE DEF rest
<1>5. less \in Items /\ less.kind = item.kind /\ less.count = item.count /\ less.contents = rest
  BY <1>2 DEF Items
<1> HIDE DEF less
<1>6. /\ UnitsOf(less, k) = Own(less, k) + Total(Owning(k), rest)
      /\ UnitsOf(item, k) = Own(item, k) + Total(Owning(k), item.contents)
      /\ Total(Owning(k), item.contents) \in Int
  BY <1>5, UnitsOfIs
<1>7. Own(less, k) = Own(item, k) /\ Own(item, k) \in Int
  BY <1>5, OwnIs DEF Own
<1>8. UnitsOf(item.contents[j], k) = Own(item.contents[j], k) /\ Own(item.contents[j], k) \in Int
  <2>1. item.contents[j].contents = <<>>
    BY <1>1 DEF PlainItems
  <2> QED BY <1>1, <2>1, UnitsOfIs, OwnIs
<1>9. UnitsOf(less, k) = UnitsOf(item, k) - UnitsOf(item.contents[j], k)
  BY <1>4, <1>6, <1>7, <1>8
<1> QED
  BY <1>5, <1>9 DEF less, rest

----------------------------------------------------------------------------
(* Units of a kind, in equipment, containers and inventories *)

Wears(worn, k) == [s \in DOMAIN worn |-> UnitsOf(worn[s], k)]
WornUnits(worn, k) == SumFunction(Wears(worn, k))
Bears(bags, k) == [c \in DOMAIN bags |-> Inside(bags[c], k)]
BagUnits(bags, k) == SumFunction(Bears(bags, k))

LEMMA WornUnitsAre ==
  ASSUME NEW worn \in Wearings, NEW k
  PROVE  /\ IsFiniteSet(DOMAIN worn) /\ Numbers(Wears(worn, k), DOMAIN worn)
         /\ \A s \in DOMAIN worn : worn[s] \in Items /\ Wears(worn, k)[s] = UnitsOf(worn[s], k)
         /\ \A s \in DOMAIN worn : UnitsOf(worn[s], k) \in Int
         /\ WornUnits(worn, k) = SumOver(Wears(worn, k), DOMAIN worn)
         /\ WornUnits(worn, k) \in Int
<1>1. IsFiniteSet(DOMAIN worn)
  BY WearingsAre, InventoryAssumption, FS_Subset
<1>2. \A s \in DOMAIN worn : /\ worn[s] \in Items /\ Wears(worn, k)[s] = UnitsOf(worn[s], k)
                             /\ UnitsOf(worn[s], k) \in Int
  BY WearingsAre, UnitsOfIs DEF Wears
<1>3. Numbers(Wears(worn, k), DOMAIN worn)
  BY <1>2 DEF Numbers
<1>4. WornUnits(worn, k) = SumOver(Wears(worn, k), DOMAIN worn)
  <2>1. DOMAIN Wears(worn, k) = DOMAIN worn
    BY DEF Wears
  <2> QED BY <2>1, SumFunctionIs DEF WornUnits
<1>5. SumOver(Wears(worn, k), DOMAIN worn) \in Int
  BY <1>1, <1>3, SumOverType
<1> QED
  BY <1>1, <1>2, <1>3, <1>4, <1>5

LEMMA PutOnUnits ==
  ASSUME NEW worn \in Wearings, NEW s \in DOMAIN worn, NEW x \in Items, NEW k
  PROVE  WornUnits([worn EXCEPT ![s] = x], k)
           = WornUnits(worn, k) + (UnitsOf(x, k) - UnitsOf(worn[s], k))
<1> DEFINE more == [worn EXCEPT ![s] = x]
           S == DOMAIN worn
<1>1. /\ more \in Wearings /\ DOMAIN more = S /\ more[s] = x
      /\ \A t \in S : t # s => more[t] = worn[t]
  BY PutOnIs
<1> HIDE DEF more
<1>2. /\ IsFiniteSet(S) /\ Numbers(Wears(worn, k), S)
      /\ \A t \in S : Wears(worn, k)[t] = UnitsOf(worn[t], k)
      /\ WornUnits(worn, k) = SumOver(Wears(worn, k), S)
  BY WornUnitsAre
<1>3. /\ Numbers(Wears(more, k), DOMAIN more)
      /\ \A t \in DOMAIN more : Wears(more, k)[t] = UnitsOf(more[t], k)
      /\ WornUnits(more, k) = SumOver(Wears(more, k), DOMAIN more)
  BY <1>1, WornUnitsAre
<1>4. /\ Numbers(Wears(more, k), S)
      /\ \A t \in S : Wears(more, k)[t] = UnitsOf(more[t], k)
      /\ WornUnits(more, k) = SumOver(Wears(more, k), S)
  BY <1>1, <1>3, Zenon
<1>5. s \in S
  OBVIOUS
<1> HIDE DEF S
<1>6. AlikeBut(Wears(worn, k), Wears(more, k), S, s)
  BY <1>1, <1>2, <1>4 DEF AlikeBut
<1>7. SumOver(Wears(more, k), S)
        = SumOver(Wears(worn, k), S) + (Wears(more, k)[s] - Wears(worn, k)[s])
  BY <1>2, <1>4, <1>5, <1>6, SumOverDiffers
<1>8. Wears(more, k)[s] = UnitsOf(x, k) /\ Wears(worn, k)[s] = UnitsOf(worn[s], k)
  BY <1>1, <1>2, <1>4, <1>5
<1> QED
  BY <1>2, <1>4, <1>7, <1>8 DEF more

(* Equipment with one slot more than another. *)
LEMMA OneMoreWorn ==
  ASSUME NEW worn \in Wearings, NEW more \in Wearings, NEW s \in DOMAIN more,
         DOMAIN worn = DOMAIN more \ {s}, \A t \in DOMAIN worn : worn[t] = more[t], NEW k
  PROVE  WornUnits(more, k) = WornUnits(worn, k) + UnitsOf(more[s], k)
<1> DEFINE S == DOMAIN worn
           R == DOMAIN more
<1>1. /\ IsFiniteSet(S) /\ Numbers(Wears(worn, k), S)
      /\ \A t \in S : Wears(worn, k)[t] = UnitsOf(worn[t], k)
      /\ WornUnits(worn, k) = SumOver(Wears(worn, k), S) /\ WornUnits(worn, k) \in Int
  BY WornUnitsAre
<1>2. /\ IsFiniteSet(R) /\ Numbers(Wears(more, k), R)
      /\ \A t \in R : Wears(more, k)[t] = UnitsOf(more[t], k) /\ UnitsOf(more[t], k) \in Int
      /\ WornUnits(more, k) = SumOver(Wears(more, k), R)
  BY WornUnitsAre
<1>3. s \in R /\ S = R \ {s} /\ \A t \in S : worn[t] = more[t] /\ t \in R
  OBVIOUS
<1> HIDE DEF S, R
<1>4. SumOver(Wears(more, k), R) = Wears(more, k)[s] + SumOver(Wears(more, k), S)
  BY <1>2, <1>3, SumOverAdds
<1>5. \A t \in S : Wears(more, k)[t] = Wears(worn, k)[t]
  BY <1>1, <1>2, <1>3
<1>6. SumOver(Wears(more, k), S) = SumOver(Wears(worn, k), S)
  BY <1>1, <1>5, SumOverSame
<1> QED
  BY <1>1, <1>2, <1>3, <1>4, <1>6

LEMMA WornOnUnits ==
  ASSUME NEW worn \in Wearings, NEW s \in Slots, s \notin DOMAIN worn, NEW x \in Items, NEW k
  PROVE  WornUnits(Worn(worn, s, x), k) = WornUnits(worn, k) + UnitsOf(x, k)
<1> DEFINE more == Worn(worn, s, x)
<1>1. more \in Wearings
  BY WornIs
<1>2. /\ DOMAIN more = DOMAIN worn \cup {s} /\ more[s] = x
      /\ \A t \in DOMAIN worn : worn[t] = more[t]
  BY DEF Worn
<1> HIDE DEF more
<1>3. s \in DOMAIN more /\ DOMAIN worn = DOMAIN more \ {s}
  BY <1>2
<1>4. ASSUME NEW other \in Wearings, DOMAIN worn = DOMAIN other \ {s}, s \in DOMAIN other,
             \A t \in DOMAIN worn : worn[t] = other[t]
      PROVE  WornUnits(other, k) = WornUnits(worn, k) + UnitsOf(other[s], k)
  BY <1>4, OneMoreWorn
<1>5. WornUnits(more, k) = WornUnits(worn, k) + UnitsOf(more[s], k)
  BY <1>1, <1>2, <1>3, <1>4
<1> QED
  BY <1>2, <1>5 DEF more

LEMMA BareUnits ==
  ASSUME NEW worn \in Wearings, NEW s \in DOMAIN worn, NEW k
  PROVE  WornUnits(Bare(worn, s), k) = WornUnits(worn, k) - UnitsOf(worn[s], k)
<1> DEFINE less == Bare(worn, s)
<1>1. less \in Wearings
  BY BareIs
<1>2. DOMAIN less = DOMAIN worn \ {s} /\ \A t \in DOMAIN less : less[t] = worn[t]
  BY DEF Bare, Restrict
<1> HIDE DEF less
<1>3. WornUnits(worn, k) = WornUnits(less, k) + UnitsOf(worn[s], k)
  BY <1>1, <1>2, OneMoreWorn
<1>4. WornUnits(less, k) \in Int /\ UnitsOf(worn[s], k) \in Int
  BY <1>1, WornUnitsAre
<1> QED
  BY <1>3, <1>4 DEF less

LEMMA LessenedUnits ==
  ASSUME NEW worn \in Wearings, NEW s \in DOMAIN worn, NEW n \in 1..worn[s].count, NEW k
  PROVE  WornUnits(Lessened(worn, s, n), k) = WornUnits(worn, k) - Gone(worn[s], n, k)
<1>1. worn[s] \in Items /\ WornUnits(worn, k) \in Int
  BY WornUnitsAre
<1>2. CASE worn[s].count = n
  BY <1>2, BareUnits DEF Lessened, Gone
<1>3. CASE worn[s].count # n
  <2>1. Rest(worn[s], n) \in Items
    BY <1>1, <1>3, RestIs
  <2>2. Lessened(worn, s, n) = [worn EXCEPT ![s] = Rest(worn[s], n)]
    BY <1>3 DEF Lessened
  <2>3. WornUnits([worn EXCEPT ![s] = Rest(worn[s], n)], k)
          = WornUnits(worn, k) + (UnitsOf(Rest(worn[s], n), k) - UnitsOf(worn[s], k))
    BY <2>1, PutOnUnits
  <2>4. UnitsOf(Rest(worn[s], n), k) = UnitsOf(worn[s], k) - Gone(worn[s], n, k)
    BY <1>1, <1>3, RestUnits
  <2>5. UnitsOf(worn[s], k) \in Int /\ Gone(worn[s], n, k) \in Int
    BY <1>1, UnitsOfIs, GoneIs
  <2> QED BY <1>1, <2>2, <2>3, <2>4, <2>5
<1> QED
  BY <1>2, <1>3

LEMMA BagUnitsAre ==
  ASSUME NEW bags \in Carried, NEW k
  PROVE  /\ DOMAIN bags = Bags /\ IsFiniteSet(Bags) /\ Numbers(Bears(bags, k), Bags)
         /\ \A c \in Bags : Bears(bags, k)[c] = Inside(bags[c], k) /\ Inside(bags[c], k) \in Int
         /\ BagUnits(bags, k) = SumOver(Bears(bags, k), Bags)
         /\ BagUnits(bags, k) \in Int
<1>1. DOMAIN bags = Bags /\ \A c \in Bags : bags[c] \in Seq(Items)
  BY DEF Carried
<1>2. \A c \in Bags : Bears(bags, k)[c] = Inside(bags[c], k) /\ Inside(bags[c], k) \in Int
  BY <1>1, InsideIs DEF Bears
<1>3. Numbers(Bears(bags, k), Bags)
  BY <1>2 DEF Numbers
<1>4. BagUnits(bags, k) = SumOver(Bears(bags, k), Bags)
  <2>1. DOMAIN Bears(bags, k) = Bags
    BY <1>1 DEF Bears
  <2> QED BY <2>1, SumFunctionIs DEF BagUnits
<1>5. SumOver(Bears(bags, k), Bags) \in Int
  BY <1>3, SumOverType, InventoryAssumption
<1> QED
  BY <1>1, <1>2, <1>3, <1>4, <1>5, InventoryAssumption

LEMMA NewBagUnits ==
  ASSUME NEW bags \in Carried, NEW c \in Bags, NEW q \in Seq(Items), NEW k
  PROVE  /\ [bags EXCEPT ![c] = q] \in Carried
         /\ BagUnits([bags EXCEPT ![c] = q], k)
              = BagUnits(bags, k) + (Inside(q, k) - Inside(bags[c], k))
<1> DEFINE more == [bags EXCEPT ![c] = q]
<1>1. more \in Carried /\ more[c] = q /\ \A d \in Bags : d # c => more[d] = bags[d]
  BY DEF Carried
<1> HIDE DEF more
<1>2. /\ IsFiniteSet(Bags) /\ Numbers(Bears(bags, k), Bags)
      /\ \A d \in Bags : Bears(bags, k)[d] = Inside(bags[d], k)
      /\ BagUnits(bags, k) = SumOver(Bears(bags, k), Bags)
  BY BagUnitsAre
<1>3. /\ Numbers(Bears(more, k), Bags)
      /\ \A d \in Bags : Bears(more, k)[d] = Inside(more[d], k)
      /\ BagUnits(more, k) = SumOver(Bears(more, k), Bags)
  BY <1>1, BagUnitsAre
<1>4. AlikeBut(Bears(bags, k), Bears(more, k), Bags, c)
  BY <1>1, <1>2, <1>3 DEF AlikeBut
<1>5. SumOver(Bears(more, k), Bags)
        = SumOver(Bears(bags, k), Bags) + (Bears(more, k)[c] - Bears(bags, k)[c])
  BY <1>2, <1>3, <1>4, SumOverDiffers
<1>6. Bears(more, k)[c] = Inside(q, k) /\ Bears(bags, k)[c] = Inside(bags[c], k)
  BY <1>1, <1>2, <1>3
<1> QED
  BY <1>1, <1>2, <1>3, <1>5, <1>6 DEF more

LEMMA UnitsAre ==
  ASSUME NEW inventory, NEW k
  PROVE  Units(inventory, k) = WornUnits(inventory.worn, k) + BagUnits(inventory.bags, k)
BY DEF Units, WornUnits, BagUnits, Wears, Bears

LEMMA UnitsOfBoth ==
  ASSUME NEW worn, NEW bags, NEW k
  PROVE  Units([worn |-> worn, bags |-> bags], k) = WornUnits(worn, k) + BagUnits(bags, k)
BY UnitsAre

LEMMA UnitsAreNumbers ==
  ASSUME NEW inventory, Good(inventory), NEW k
  PROVE  Units(inventory, k) \in Int
<1>1. inventory.worn \in Wearings /\ inventory.bags \in Carried
  BY GoodParts DEF Roomed
<1>2. WornUnits(inventory.worn, k) \in Int /\ BagUnits(inventory.bags, k) \in Int
  BY <1>1, WornUnitsAre, BagUnitsAre
<1> QED
  BY <1>2, UnitsAre

(* What the live inventory has, and what the requests make of it. *)
LEMMA LiveUnits ==
  ASSUME Typed, NEW k
  PROVE  /\ live.worn \in Wearings /\ live.bags \in Carried
         /\ Units(live, k) = WornUnits(live.worn, k) + BagUnits(live.bags, k)
         /\ WornUnits(live.worn, k) \in Int /\ BagUnits(live.bags, k) \in Int
         /\ Units(live, k) \in Int
<1>1. live.worn \in Wearings /\ live.bags \in Carried
  BY LiveIs DEF Roomed
<1>2. WornUnits(live.worn, k) \in Int /\ BagUnits(live.bags, k) \in Int
  BY <1>1, WornUnitsAre, BagUnitsAre
<1> QED
  BY <1>1, <1>2, UnitsAre

LEMMA NewWornUnits ==
  ASSUME Typed, NEW w \in Wearings, NEW k
  PROVE  Units(NewWorn(live, w), k)
           = Units(live, k) + (WornUnits(w, k) - WornUnits(live.worn, k))
<1>1. Units(NewWorn(live, w), k) = WornUnits(w, k) + BagUnits(live.bags, k)
  BY LiveIs, NewWornIs, UnitsOfBoth
<1>2. WornUnits(w, k) \in Int
  BY WornUnitsAre
<1> QED
  BY <1>1, <1>2, LiveUnits

LEMMA NewBagsUnits ==
  ASSUME Typed, NEW b \in Carried, NEW k
  PROVE  Units(NewBags(live, b), k)
           = Units(live, k) + (BagUnits(b, k) - BagUnits(live.bags, k))
<1>1. Units(NewBags(live, b), k) = WornUnits(live.worn, k) + BagUnits(b, k)
  BY LiveIs, NewBagsIs, UnitsOfBoth
<1>2. BagUnits(b, k) \in Int
  BY BagUnitsAre
<1> QED
  BY <1>1, <1>2, LiveUnits

LEMMA NewSlotUnits ==
  ASSUME Typed, NEW s \in DOMAIN live.worn, NEW x \in Items, NEW k
  PROVE  Units(NewSlot(live, s, x), k)
           = Units(live, k) + (UnitsOf(x, k) - UnitsOf(live.worn[s], k))
<1>1. Units(NewSlot(live, s, x), k)
        = WornUnits([live.worn EXCEPT ![s] = x], k) + BagUnits(live.bags, k)
  BY LiveIs, NewSlotIs, UnitsOfBoth
<1>2. WornUnits([live.worn EXCEPT ![s] = x], k)
        = WornUnits(live.worn, k) + (UnitsOf(x, k) - UnitsOf(live.worn[s], k))
  BY LiveIs, PutOnUnits
<1>3. UnitsOf(x, k) \in Int /\ UnitsOf(live.worn[s], k) \in Int
  BY LiveIs, UnitsOfIs
<1> QED
  BY <1>1, <1>2, <1>3, LiveUnits

LEMMA NewInUnits ==
  ASSUME Typed, NEW c \in Bags, NEW q \in Seq(Items), NEW k
  PROVE  Units(NewIn(live, c, q), k)
           = Units(live, k) + (Inside(q, k) - Inside(live.bags[c], k))
<1>1. Units(NewIn(live, c, q), k)
        = WornUnits(live.worn, k) + BagUnits([live.bags EXCEPT ![c] = q], k)
  BY LiveIs, NewInIs, UnitsOfBoth
<1>2. BagUnits([live.bags EXCEPT ![c] = q], k)
        = BagUnits(live.bags, k) + (Inside(q, k) - Inside(live.bags[c], k))
  BY LiveUnits, NewBagUnits
<1>3. Inside(q, k) \in Int /\ Inside(live.bags[c], k) \in Int
  BY LiveUnits, InsideIs, BagUnitsAre
<1> QED
  BY <1>1, <1>2, <1>3, LiveUnits

LEMMA NewWornAndInUnits ==
  ASSUME Typed, NEW w \in Wearings, NEW c \in Bags, NEW q \in Seq(Items), NEW k
  PROVE  Units(NewWornAndIn(live, w, c, q), k)
           = Units(live, k) + (WornUnits(w, k) - WornUnits(live.worn, k))
                            + (Inside(q, k) - Inside(live.bags[c], k))
<1>1. Units(NewWornAndIn(live, w, c, q), k)
        = WornUnits(w, k) + BagUnits([live.bags EXCEPT ![c] = q], k)
  BY LiveIs, NewWornAndInIs, UnitsOfBoth
<1>2. BagUnits([live.bags EXCEPT ![c] = q], k)
        = BagUnits(live.bags, k) + (Inside(q, k) - Inside(live.bags[c], k))
  BY LiveUnits, NewBagUnits
<1>3. Inside(q, k) \in Int /\ Inside(live.bags[c], k) \in Int /\ WornUnits(w, k) \in Int
  BY LiveUnits, InsideIs, BagUnitsAre, WornUnitsAre
<1> QED
  BY <1>1, <1>2, <1>3, LiveUnits

LEMMA NewSlotsUnits ==
  ASSUME Typed, NEW s \in DOMAIN live.worn, NEW x \in Items,
         NEW t \in DOMAIN live.worn, NEW y \in Items, s # t, NEW k
  PROVE  Units(NewSlots(live, s, x, t, y), k)
           = Units(live, k) + (UnitsOf(x, k) - UnitsOf(live.worn[s], k))
                            + (UnitsOf(y, k) - UnitsOf(live.worn[t], k))
<1> DEFINE once == [live.worn EXCEPT ![s] = x]
           twice == [once EXCEPT ![t] = y]
<1>1. Units(NewSlots(live, s, x, t, y), k) = WornUnits(twice, k) + BagUnits(live.bags, k)
  BY LiveIs, NewSlotsIs, UnitsOfBoth
<1>2. once \in Wearings /\ t \in DOMAIN once /\ once[t] = live.worn[t]
  BY LiveIs, PutOnIs
<1>3. WornUnits(once, k)
        = WornUnits(live.worn, k) + (UnitsOf(x, k) - UnitsOf(live.worn[s], k))
  BY LiveIs, PutOnUnits
<1> HIDE DEF once
<1>4. WornUnits(twice, k) = WornUnits(once, k) + (UnitsOf(y, k) - UnitsOf(once[t], k))
  BY <1>2, PutOnUnits
<1> HIDE DEF twice
<1>5. /\ UnitsOf(x, k) \in Int /\ UnitsOf(live.worn[s], k) \in Int
      /\ UnitsOf(y, k) \in Int /\ UnitsOf(live.worn[t], k) \in Int
  BY LiveIs, UnitsOfIs
<1> QED
  BY <1>1, <1>2, <1>3, <1>4, <1>5, LiveUnits

LEMMA NewInTwoUnits ==
  ASSUME Typed, NEW c \in Bags, NEW q \in Seq(Items), NEW d \in Bags, NEW r \in Seq(Items),
         c # d, NEW k
  PROVE  Units(NewInTwo(live, c, q, d, r), k)
           = Units(live, k) + (Inside(q, k) - Inside(live.bags[c], k))
                            + (Inside(r, k) - Inside(live.bags[d], k))
<1> DEFINE once == [live.bags EXCEPT ![c] = q]
           twice == [once EXCEPT ![d] = r]
<1>1. Units(NewInTwo(live, c, q, d, r), k) = WornUnits(live.worn, k) + BagUnits(twice, k)
  BY LiveIs, NewInTwoIs, UnitsOfBoth
<1>2. /\ once \in Carried /\ once[d] = live.bags[d]
      /\ BagUnits(once, k)
           = BagUnits(live.bags, k) + (Inside(q, k) - Inside(live.bags[c], k))
  <2>1. live.bags \in Carried
    BY LiveUnits
  <2>2. once[d] = live.bags[d]
    BY <2>1 DEF Carried
  <2> QED BY <2>1, <2>2, NewBagUnits
<1> HIDE DEF once
<1>3. BagUnits(twice, k) = BagUnits(once, k) + (Inside(r, k) - Inside(once[d], k))
  BY <1>2, NewBagUnits
<1> HIDE DEF twice
<1>4. /\ Inside(q, k) \in Int /\ Inside(live.bags[c], k) \in Int
      /\ Inside(r, k) \in Int /\ Inside(live.bags[d], k) \in Int
  BY LiveUnits, InsideIs, BagUnitsAre
<1> QED
  BY <1>1, <1>2, <1>3, <1>4, LiveUnits

LEMMA NewSlotAndInUnits ==
  ASSUME Typed, NEW s \in DOMAIN live.worn, NEW x \in Items,
         NEW c \in Bags, NEW q \in Seq(Items), NEW k
  PROVE  Units(NewSlotAndIn(live, s, x, c, q), k)
           = Units(live, k) + (UnitsOf(x, k) - UnitsOf(live.worn[s], k))
                            + (Inside(q, k) - Inside(live.bags[c], k))
<1>1. Units(NewSlotAndIn(live, s, x, c, q), k)
        = WornUnits([live.worn EXCEPT ![s] = x], k) + BagUnits([live.bags EXCEPT ![c] = q], k)
  BY LiveIs, NewSlotAndInIs, UnitsOfBoth
<1>2. WornUnits([live.worn EXCEPT ![s] = x], k)
        = WornUnits(live.worn, k) + (UnitsOf(x, k) - UnitsOf(live.worn[s], k))
  BY LiveIs, PutOnUnits
<1>3. BagUnits([live.bags EXCEPT ![c] = q], k)
        = BagUnits(live.bags, k) + (Inside(q, k) - Inside(live.bags[c], k))
  BY LiveUnits, NewBagUnits
<1>4. /\ UnitsOf(x, k) \in Int /\ UnitsOf(live.worn[s], k) \in Int
      /\ Inside(q, k) \in Int /\ Inside(live.bags[c], k) \in Int
  BY LiveIs, LiveUnits, UnitsOfIs, InsideIs, BagUnitsAre
<1> QED
  BY <1>1, <1>2, <1>3, <1>4, LiveUnits

(* Without a content item the containers have its units less. *)
LEMMA WithoutContentUnits ==
  ASSUME Typed, NEW w, NEW j, HasContent(w, j), NEW k
  PROVE  /\ BagUnits(WithoutContent(w, j), k)
              = BagUnits(live.bags, k) - UnitsOf(Content(w, j), k)
         /\ UnitsOf(Content(w, j), k) \in Int
<1> DEFINE c == windows[w][1]
           i == windows[w][2]
           item == live.bags[c][i]
           less == [item EXCEPT !.contents = RemoveAt(item.contents, j)]
           q == [live.bags[c] EXCEPT ![i] = less]
<1>1. /\ c \in Bags /\ i \in DOMAIN live.bags[c] /\ item \in Items
      /\ j \in DOMAIN item.contents
      /\ Content(w, j) = item.contents[j] /\ Content(w, j) \in Items
  BY ContentIs
<1>2. WithoutContent(w, j) = [live.bags EXCEPT ![c] = q]
  BY DEF WithoutContent
<1> HIDE DEF c, i
<1>3. /\ live.bags \in Carried /\ live.bags[c] \in Seq(Items)
      /\ BagUnits(live.bags, k) \in Int /\ Inside(live.bags[c], k) \in Int
  BY <1>1, LiveUnits, BagUnitsAre DEF Carried
<1>4. less \in Items /\ UnitsOf(less, k) = UnitsOf(item, k) - UnitsOf(item.contents[j], k)
  <2> HIDE DEF item
  <2> QED BY <1>1, ContentsLess
<1>5. UnitsOf(item, k) \in Int /\ UnitsOf(Content(w, j), k) \in Int
  BY <1>1, UnitsOfIs
<1> HIDE DEF less
<1>6. /\ q \in Seq(Items)
      /\ Inside(q, k) = Inside(live.bags[c], k) + (UnitsOf(less, k) - UnitsOf(item, k))
  BY <1>1, <1>3, <1>4, SetAt, SetUnits
<1> HIDE DEF q, item
<1>7. BagUnits([live.bags EXCEPT ![c] = q], k)
        = BagUnits(live.bags, k) + (Inside(q, k) - Inside(live.bags[c], k))
  BY <1>1, <1>3, <1>6, NewBagUnits
<1> QED
  BY <1>1, <1>2, <1>3, <1>4, <1>5, <1>6, <1>7

----------------------------------------------------------------------------
(* What each request makes of the units *)

(* A request keeps the units of every kind, ends the session before it has  *)
(* stored anything, or does what is counted as harm.                        *)
Balances ==
    \/ harm' # {}
    \/ phase' = "ending" /\ UNCHANGED <<rows, hollow, ground, used>>
    \/ /\ phase = "in" /\ phase' = "in"
       /\ \A k \in Kinds : Units(live', k) + ground'[k] + used'[k]
                             = Units(live, k) + ground[k] + used[k]

LEMMA RefusedBalances ==
  ASSUME Refused
  PROVE  Balances
BY DEF Refused, Balances

LEMMA MovesBalances ==
  ASSUME phase = "in", NEW inventory, NEW tables, NEW harms,
         Moves(inventory, tables, harms),
         harms = {} => \A k \in Kinds : Units(inventory, k) = Units(live, k)
  PROVE  Balances
<1>1. /\ live' = inventory /\ harm' = harm \cup harms /\ UNCHANGED <<ground, used>>
      /\ phase' = phase \/ (phase' = "ending" /\ UNCHANGED <<rows, hollow>>)
  BY DEF Moves, Stores
<1>2. CASE harms = {}
  <2>1. \A k \in Kinds : Units(live', k) = Units(live, k)
    BY <1>1, <1>2
  <2> QED BY <1>1, <2>1 DEF Balances
<1>3. CASE harms # {}
  BY <1>1, <1>3 DEF Balances
<1> QED
  BY <1>2, <1>3

LEMMA MovesContentBalances ==
  ASSUME phase = "in", NEW inventory, MovesContent(inventory),
         \A k \in Kinds : Units(inventory, k) = Units(live, k)
  PROVE  Balances
<1>1. /\ live' = inventory /\ UNCHANGED <<ground, used>>
      /\ phase' = phase \/ (phase' = "ending" /\ UNCHANGED <<rows, hollow>>)
  BY DEF MovesContent, Stores
<1> QED
  BY <1>1 DEF Balances

LEMMA DropsBalances ==
  ASSUME Typed, phase = "in", NEW inventory, NEW item \in Items, NEW n \in Nat, NEW harms,
         Drops(inventory, item, n, harms),
         harms = {} => \A k \in Kinds :
                          Units(inventory, k) = Units(live, k) - Of(item.kind, n, k)
  PROVE  Balances
<1>1. /\ live' = inventory /\ harm' = harm \cup harms /\ UNCHANGED <<phase, used>>
      /\ ground' = [ground EXCEPT ![item.kind] = @ + n]
  BY DEF Drops
<1>2. CASE harms = {}
  <2>1. ASSUME NEW k \in Kinds
        PROVE  Units(live', k) + ground'[k] + used'[k] = Units(live, k) + ground[k] + used[k]
    <3>1. Units(live', k) = Units(live, k) - Of(item.kind, n, k)
      BY <1>1, <1>2
    <3>2. ground'[k] = ground[k] + Of(item.kind, n, k) /\ ground[k] \in Int
      BY <1>1, ItemFields DEF Typed, Of
    <3>3. Units(live, k) \in Int /\ Of(item.kind, n, k) \in Int /\ used[k] \in Int /\ used'[k] = used[k]
      BY <1>1, LiveUnits DEF Typed, Of
    <3> QED BY <3>1, <3>2, <3>3
  <2> QED BY <1>1, <2>1 DEF Balances
<1>3. CASE harms # {}
  BY <1>1, <1>3 DEF Balances
<1> QED
  BY <1>2, <1>3

LEMMA TakesBalances ==
  ASSUME Typed, phase = "in", NEW inventory, NEW kind \in Kinds, NEW n \in Nat,
         Takes(inventory, kind, n),
         \A k \in Kinds : Units(inventory, k) = Units(live, k) + Of(kind, n, k)
  PROVE  Balances
<1>1. ASSUME live' = inventory, ground' = [ground EXCEPT ![kind] = @ - n],
             UNCHANGED <<phase, used>>
      PROVE  Balances
  <2>1. ASSUME NEW k \in Kinds
        PROVE  Units(live', k) + ground'[k] + used'[k] = Units(live, k) + ground[k] + used[k]
    <3>1. Units(live', k) = Units(live, k) + Of(kind, n, k)
      BY <1>1
    <3>2. ground'[k] = ground[k] - Of(kind, n, k) /\ ground[k] \in Int
      BY <1>1 DEF Typed, Of
    <3>3. Units(live, k) \in Int /\ Of(kind, n, k) \in Int /\ used[k] \in Int /\ used'[k] = used[k]
      BY <1>1, LiveUnits DEF Typed, Of
    <3> QED BY <3>1, <3>2, <3>3
  <2> QED BY <1>1, <2>1 DEF Balances
<1> QED
  BY <1>1, RefusedBalances DEF Takes

LEMMA ConsumesBalances ==
  ASSUME Typed, phase = "in", phase' = phase, NEW kind \in Kinds, Consumed(kind),
         UNCHANGED ground,
         harm' = {} => \A k \in Kinds : Units(live', k) = Units(live, k) - Of(kind, 1, k)
  PROVE  Balances
<1>1. used' = [used EXCEPT ![kind] = @ + 1]
  BY DEF Consumed
<1>2. ASSUME harm' = {}, NEW k \in Kinds
      PROVE  Units(live', k) + ground'[k] + used'[k] = Units(live, k) + ground[k] + used[k]
  <2>1. Units(live', k) = Units(live, k) - Of(kind, 1, k)
    BY <1>2
  <2>2. used'[k] = used[k] + Of(kind, 1, k) /\ used[k] \in Int
    BY <1>1 DEF Typed, Of
  <2>3. Units(live, k) \in Int /\ Of(kind, 1, k) \in Int /\ ground[k] \in Int /\ ground'[k] = ground[k]
    BY LiveUnits DEF Typed, Of
  <2> QED BY <2>1, <2>2, <2>3
<1> QED
  BY <1>2 DEF Balances

(* What leaves a container of the live inventory. *)
LEMMA TakenUnits ==
  ASSUME Typed, NEW c \in Bags, NEW i \in DOMAIN live.bags[c],
         NEW n \in 1..live.bags[c][i].count, NEW k
  PROVE  /\ live.bags[c] \in Seq(Items) /\ Inside(live.bags[c], k) \in Int
         /\ live.bags[c][i] \in Items /\ n \in Nat
         /\ Gone(live.bags[c][i], n, k) \in Int
         /\ Inside(Without(live.bags[c], i, n), k)
              = Inside(live.bags[c], k) - Gone(live.bags[c][i], n, k)
<1>1. /\ live.bags[c] \in Seq(Items) /\ Inside(live.bags[c], k) \in Int
      /\ live.bags[c][i] \in Items /\ n \in Nat
  <2>1. live.bags[c] \in Seq(Items) /\ live.bags[c][i] \in Items
    BY LiveIs, BagOf
  <2>2. n \in Nat
    OBVIOUS
  <2> QED BY <2>1, <2>2, InsideIs
<1>2. Gone(live.bags[c][i], n, k) \in Int
  BY <1>1, GoneIs
<1>3. Inside(Without(live.bags[c], i, n), k)
        = Inside(live.bags[c], k) - Gone(live.bags[c][i], n, k)
  BY <1>1, WithoutUnits
<1> QED
  BY <1>1, <1>2, <1>3

LEMMA MoveBetweenBagsBalances ==
  ASSUME Typed, NEW c \in Bags, NEW d \in Bags, NEW i, NEW n, MoveBetweenBags(c, i, d, n)
  PROVE  Balances
<1> DEFINE item == live.bags[c][i]
           moved == Part(item, n)
           merges == Roomy(live.bags[d], moved) # {}
           q == Without(live.bags[c], i, n)
           r == Stacked(live.bags[d], moved)
           left == NewInTwo(live, c, q, d, r)
           harms == SplitHarm(item, n) \cup MergeHarm(moved, merges)
<1>1. i \in DOMAIN live.bags[c] /\ n \in 1..live.bags[c][i].count /\ c # d /\ phase = "in"
  BY DEF MoveBetweenBags, Ready
<1>2. \/ Accepts(live.bags[d], moved) /\ Moves(left, {"bags"}, harms)
      \/ Refused
  BY DEF MoveBetweenBags, NewInTwo
<1>3. CASE Accepts(live.bags[d], moved) /\ Moves(left, {"bags"}, harms)
  <2>1. q \in Seq(Items) /\ item \in Items /\ moved \in Items
    BY <1>1, TakenFrom, PartIs
  <2>2. r \in Seq(Items) /\ live.bags[d] \in Seq(Items)
    <3> HIDE DEF moved
    <3> QED BY <1>3, <2>1, AddedTo, LiveIs, BagOf
  <2>3. ASSUME harms = {}, NEW k \in Kinds
        PROVE  Units(left, k) = Units(live, k)
    <3>1. SplitHarm(item, n) = {} /\ MergeHarm(moved, merges) = {}
      BY <2>3
    <3>2. /\ Inside(q, k) = Inside(live.bags[c], k) - Gone(item, n, k)
          /\ Inside(live.bags[c], k) \in Int /\ Gone(item, n, k) \in Int
      BY <1>1, TakenUnits
    <3>3. UnitsOf(moved, k) = Gone(item, n, k)
      BY <1>1, <2>1, <3>1, PartUnits
    <3> HIDE DEF moved
    <3>4. Inside(r, k) = Inside(live.bags[d], k) + UnitsOf(moved, k)
      BY <2>1, <2>2, <3>1, StackedUnits
    <3> HIDE DEF q, r, item, merges, harms
    <3>5. Units(left, k) = Units(live, k) + (Inside(q, k) - Inside(live.bags[c], k))
                                          + (Inside(r, k) - Inside(live.bags[d], k))
      BY <1>1, <2>1, <2>2, NewInTwoUnits
    <3>6. Units(live, k) \in Int /\ Inside(live.bags[d], k) \in Int
      BY <2>2, LiveUnits, InsideIs
    <3> HIDE DEF left
    <3> QED BY <3>2, <3>3, <3>4, <3>5, <3>6
  <2> HIDE DEF left, harms
  <2> QED BY <1>1, <1>3, <2>3, MovesBalances
<1> QED
  BY <1>2, <1>3, RefusedBalances

LEMMA StackToSlotBalances ==
  ASSUME Typed, phase = "in", NEW c \in Bags, NEW i \in DOMAIN live.bags[c], NEW s \in Slots,
         NEW n \in 1..live.bags[c][i].count, StackToSlot(c, i, s, n),
         s \in DOMAIN live.worn => live.worn[s].kind = live.bags[c][i].kind
  PROVE  Balances
<1> DEFINE item == live.bags[c][i]
           moved == Part(item, n)
           q == Without(live.bags[c], i, n)
           occupied == s \in DOMAIN live.worn
           worn == IF occupied THEN [live.worn EXCEPT ![s].count = @ + n]
                   ELSE Worn(live.worn, s, moved)
           left == NewWornAndIn(live, worn, c, q)
           harms == SplitHarm(item, n) \cup MergeHarm(moved, occupied)
<1>1. \/ ~ (occupied /\ live.worn[s].count + n > MaxCount) /\ Moves(left, Tables, harms)
      \/ Refused
  BY DEF StackToSlot, NewWornAndIn
<1>2. CASE ~ (occupied /\ live.worn[s].count + n > MaxCount) /\ Moves(left, Tables, harms)
  <2>1. /\ q \in Seq(Items) /\ item \in Items /\ moved \in Items /\ n \in Nat
        /\ moved.contents = item.contents /\ live.worn \in Wearings
    BY TakenFrom, PartIs, LiveIs
  <2>2. ASSUME harms = {}, NEW k \in Kinds
        PROVE  worn \in Wearings /\ WornUnits(worn, k) = WornUnits(live.worn, k) + Gone(item, n, k)
    <3>1. SplitHarm(item, n) = {} /\ MergeHarm(moved, occupied) = {}
      BY <2>2
    <3>2. UnitsOf(moved, k) = Gone(item, n, k)
      BY <2>1, <3>1, PartUnits
    <3>3. CASE occupied
      <4> DEFINE more == [live.worn[s] EXCEPT !.count = @ + n]
      <4>1. live.worn[s] \in Items /\ live.worn[s].kind = item.kind
        BY <3>3, LiveIs
      <4>2. live.worn[s].count + n <= MaxCount
        BY <1>2, <2>1, <3>3, <4>1, ItemFields, InventoryAssumption
      <4>3. item.contents = <<>>
        BY <2>1, <3>1, <3>3 DEF MergeHarm
      <4>4. Spills(item, n) = {}
        BY <4>3 DEF Spills
      <4>5. Gone(item, n, k) = Of(item.kind, n, k)
        BY <2>1, <4>4, LooseUnits
      <4>6. more \in Items /\ UnitsOf(more, k) = UnitsOf(live.worn[s], k) + Of(item.kind, n, k)
        BY <2>1, <4>1, <4>2, MoreIs, MoreUnits
      <4>7. worn = [live.worn EXCEPT ![s] = more]
        BY <3>3
      <4> HIDE DEF more, worn, item
      <4>8. /\ [live.worn EXCEPT ![s] = more] \in Wearings
            /\ WornUnits([live.worn EXCEPT ![s] = more], k)
                 = WornUnits(live.worn, k) + (UnitsOf(more, k) - UnitsOf(live.worn[s], k))
        BY <2>1, <3>3, <4>6, PutOnIs, PutOnUnits
      <4>9. UnitsOf(live.worn[s], k) \in Int /\ Of(item.kind, n, k) \in Int
        BY <2>1, <4>1, UnitsOfIs DEF Of
      <4> QED BY <4>5, <4>6, <4>7, <4>8, <4>9
    <3>4. CASE ~ occupied
      <4>1. worn = Worn(live.worn, s, moved)
        BY <3>4
      <4> HIDE DEF moved, worn
      <4>2. /\ Worn(live.worn, s, moved) \in Wearings
            /\ WornUnits(Worn(live.worn, s, moved), k) = WornUnits(live.worn, k) + UnitsOf(moved, k)
        BY <2>1, <3>4, WornIs, WornOnUnits
      <4> QED BY <3>2, <4>1, <4>2
    <3> QED BY <3>3, <3>4
  <2>3. ASSUME harms = {}, NEW k \in Kinds
        PROVE  Units(left, k) = Units(live, k)
    <3>1. worn \in Wearings /\ WornUnits(worn, k) = WornUnits(live.worn, k) + Gone(item, n, k)
      BY <2>2, <2>3
    <3>2. /\ Inside(q, k) = Inside(live.bags[c], k) - Gone(item, n, k)
          /\ Inside(live.bags[c], k) \in Int /\ Gone(item, n, k) \in Int
      BY TakenUnits
    <3> HIDE DEF worn, q, item, harms, moved, occupied
    <3>3. Units(left, k) = Units(live, k) + (WornUnits(worn, k) - WornUnits(live.worn, k))
                                          + (Inside(q, k) - Inside(live.bags[c], k))
      BY <2>1, <3>1, NewWornAndInUnits
    <3> HIDE DEF left
    <3> QED BY <3>1, <3>2, <3>3, LiveUnits
  <2> HIDE DEF left, harms
  <2> QED BY <1>2, <2>3, MovesBalances
<1> QED
  BY <1>1, <1>2, RefusedBalances

LEMMA SwapWithSlotBalances ==
  ASSUME Typed, phase = "in", NEW c \in Bags, NEW i \in DOMAIN live.bags[c],
         NEW s \in DOMAIN live.worn, SwapWithSlot(c, i, s)
  PROVE  Balances
<1> DEFINE item == live.bags[c][i]
           other == live.worn[s]
           q == [live.bags[c] EXCEPT ![i] = other]
           left == NewSlotAndIn(live, s, item, c, q)
<1>1. Moves(left, Tables, {})
  BY DEF SwapWithSlot, NewSlotAndIn
<1>2. live.bags[c] \in Seq(Items) /\ item \in Items /\ other \in Items
  BY LiveIs, BagOf
<1>3. ASSUME NEW k \in Kinds
      PROVE  Units(left, k) = Units(live, k)
  <2> HIDE DEF other
  <2>1. /\ q \in Seq(Items)
        /\ Inside(q, k) = Inside(live.bags[c], k) + (UnitsOf(other, k) - UnitsOf(item, k))
    BY <1>2, SetAt, SetUnits
  <2> HIDE DEF item, q
  <2>2. Units(left, k) = Units(live, k) + (UnitsOf(item, k) - UnitsOf(live.worn[s], k))
                                        + (Inside(q, k) - Inside(live.bags[c], k))
    BY <1>2, <2>1, NewSlotAndInUnits
  <2>3. /\ Units(live, k) \in Int /\ Inside(live.bags[c], k) \in Int
        /\ UnitsOf(item, k) \in Int /\ UnitsOf(other, k) \in Int
    BY <1>2, LiveUnits, InsideIs, UnitsOfIs
  <2> HIDE DEF left
  <2> QED BY <2>1, <2>2, <2>3 DEF other
<1> HIDE DEF left
<1> QED
  BY <1>1, <1>3, MovesBalances

LEMMA ItemToSlotBalances ==
  ASSUME Typed, phase = "in", NEW c \in Bags, NEW i \in DOMAIN live.bags[c], NEW s \in Slots,
         s \notin DOMAIN live.worn, ItemToSlot(c, i, s)
  PROVE  Balances
<1> DEFINE item == live.bags[c][i]
           q == RemoveAt(live.bags[c], i)
           worn == Worn(live.worn, s, item)
           left == NewWornAndIn(live, worn, c, q)
<1>1. Moves(left, Tables, {})
  BY DEF ItemToSlot, NewWornAndIn
<1>2. live.bags[c] \in Seq(Items) /\ item \in Items /\ q \in Seq(Items) /\ live.worn \in Wearings
  BY LiveIs, BagOf, RemovedFrom
<1>3. ASSUME NEW k \in Kinds
      PROVE  Units(left, k) = Units(live, k)
  <2>1. Inside(q, k) = Inside(live.bags[c], k) - UnitsOf(item, k)
    BY <1>2, RemovedUnits
  <2> HIDE DEF item, q
  <2>2. worn \in Wearings /\ WornUnits(worn, k) = WornUnits(live.worn, k) + UnitsOf(item, k)
    BY <1>2, WornIs, WornOnUnits
  <2> HIDE DEF worn
  <2>3. Units(left, k) = Units(live, k) + (WornUnits(worn, k) - WornUnits(live.worn, k))
                                        + (Inside(q, k) - Inside(live.bags[c], k))
    BY <1>2, <2>2, NewWornAndInUnits
  <2>4. Inside(live.bags[c], k) \in Int /\ UnitsOf(item, k) \in Int
    BY <1>2, InsideIs, UnitsOfIs
  <2> HIDE DEF left
  <2> QED BY <2>1, <2>2, <2>3, <2>4, LiveUnits
<1> HIDE DEF left
<1> QED
  BY <1>1, <1>3, MovesBalances

LEMMA MoveToSlotBalances ==
  ASSUME Typed, NEW c \in Bags, NEW i, NEW s \in Slots, NEW n, MoveToSlot(c, i, s, n)
  PROVE  Balances
<1>1. phase = "in" /\ i \in DOMAIN live.bags[c] /\ n \in 1..live.bags[c][i].count
  BY DEF MoveToSlot, Ready
<1>2. \/ /\ StackToSlot(c, i, s, n)
         /\ s \in DOMAIN live.worn => live.worn[s].kind = live.bags[c][i].kind
      \/ s \in DOMAIN live.worn /\ SwapWithSlot(c, i, s)
      \/ s \notin DOMAIN live.worn /\ ItemToSlot(c, i, s)
  BY DEF MoveToSlot
<1> QED
  BY <1>1, <1>2, StackToSlotBalances, SwapWithSlotBalances, ItemToSlotBalances

LEMMA SwapSlotsBalances ==
  ASSUME Typed, NEW s, NEW t, SwapSlots(s, t)
  PROVE  Balances
<1> DEFINE left == NewSlots(live, s, live.worn[t], t, live.worn[s])
<1>1. /\ Moves(left, {"worn"}, {}) /\ phase = "in"
      /\ s # t /\ s \in DOMAIN live.worn /\ t \in DOMAIN live.worn
  BY DEF SwapSlots, NewSlots, Ready
<1>2. live.worn[s] \in Items /\ live.worn[t] \in Items
  BY <1>1, LiveIs
<1>3. ASSUME NEW k \in Kinds
      PROVE  Units(left, k) = Units(live, k)
  <2>1. Units(left, k)
          = Units(live, k) + (UnitsOf(live.worn[t], k) - UnitsOf(live.worn[s], k))
                           + (UnitsOf(live.worn[s], k) - UnitsOf(live.worn[t], k))
    BY <1>1, <1>2, NewSlotsUnits
  <2>2. UnitsOf(live.worn[s], k) \in Int /\ UnitsOf(live.worn[t], k) \in Int
    BY <1>2, UnitsOfIs
  <2> HIDE DEF left
  <2> QED BY <2>1, <2>2, LiveUnits
<1> HIDE DEF left
<1> QED
  BY <1>1, <1>3, MovesBalances

LEMMA MoveSlotBalances ==
  ASSUME Typed, NEW s \in Slots, NEW t \in Slots, MoveSlot(s, t)
  PROVE  Balances
<1> DEFINE bare == Bare(live.worn, s)
           worn == Worn(bare, t, live.worn[s])
           left == NewWorn(live, worn)
<1>1. /\ phase = "in" /\ s \in DOMAIN live.worn /\ t \notin DOMAIN live.worn
      /\ \/ live' = left /\ UNCHANGED <<ground, phase, used>>
         \/ Refused
  BY DEF MoveSlot, NewWorn, Ready
<1>2. live.worn[s] \in Items /\ live.worn \in Wearings
  BY <1>1, LiveIs
<1>3. bare \in Wearings /\ t \notin DOMAIN bare
  <2>1. DOMAIN bare = DOMAIN live.worn \ {s}
    BY DEF Bare, Restrict
  <2> QED BY <1>1, <1>2, <2>1, BareIs
<1>4. ASSUME NEW k \in Kinds
      PROVE  Units(left, k) = Units(live, k)
  <2>1. WornUnits(bare, k) = WornUnits(live.worn, k) - UnitsOf(live.worn[s], k)
    BY <1>1, <1>2, BareUnits
  <2> HIDE DEF bare
  <2>2. worn \in Wearings /\ WornUnits(worn, k) = WornUnits(bare, k) + UnitsOf(live.worn[s], k)
    BY <1>2, <1>3, WornIs, WornOnUnits
  <2> HIDE DEF worn
  <2>3. Units(left, k) = Units(live, k) + (WornUnits(worn, k) - WornUnits(live.worn, k))
    BY <2>2, NewWornUnits
  <2>4. UnitsOf(live.worn[s], k) \in Int
    BY <1>2, UnitsOfIs
  <2> HIDE DEF left
  <2> QED BY <2>1, <2>2, <2>3, <2>4, LiveUnits
<1> HIDE DEF left
<1>5. CASE live' = left /\ UNCHANGED <<ground, phase, used>>
  BY <1>1, <1>4, <1>5 DEF Balances
<1> QED
  BY <1>1, <1>5, RefusedBalances

LEMMA StackToBagBalances ==
  ASSUME Typed, phase = "in", NEW s \in DOMAIN live.worn, NEW c \in Bags,
         NEW n \in 1..live.worn[s].count, StackToBag(s, c, n)
  PROVE  Balances
<1> DEFINE item == live.worn[s]
           moved == Part(item, n)
           merges == Roomy(live.bags[c], moved) # {}
           q == Stacked(live.bags[c], moved)
           worn == Lessened(live.worn, s, n)
           left == NewWornAndIn(live, worn, c, q)
           harms == SplitHarm(item, n) \cup MergeHarm(moved, merges)
<1>1. \/ Accepts(live.bags[c], moved) /\ Moves(left, Tables, harms)
      \/ Refused
  BY DEF StackToBag, NewWornAndIn
<1>2. CASE Accepts(live.bags[c], moved) /\ Moves(left, Tables, harms)
  <2>0. item \in Items /\ n \in Nat /\ n \in 1..MaxCount /\ live.worn \in Wearings
    <3>1. item \in Items
      BY LiveIs
    <3> QED BY <3>1, LiveIs, ItemFields, InventoryAssumption
  <2>1. worn \in Wearings /\ moved \in Items
    BY <2>0, PartIs, LessenedIs
  <2>2. q \in Seq(Items) /\ live.bags[c] \in Seq(Items)
    <3> HIDE DEF moved
    <3> QED BY <1>2, <2>1, AddedTo, LiveIs, BagOf
  <2>3. ASSUME harms = {}, NEW k \in Kinds
        PROVE  Units(left, k) = Units(live, k)
    <3>1. SplitHarm(item, n) = {} /\ MergeHarm(moved, merges) = {}
      BY <2>3
    <3>2. WornUnits(worn, k) = WornUnits(live.worn, k) - Gone(item, n, k)
      BY <2>0, LessenedUnits
    <3>3. UnitsOf(moved, k) = Gone(item, n, k) /\ Gone(item, n, k) \in Int
      BY <2>0, <3>1, PartUnits, GoneIs
    <3> HIDE DEF moved
    <3>4. Inside(q, k) = Inside(live.bags[c], k) + UnitsOf(moved, k)
      BY <2>1, <2>2, <3>1, StackedUnits
    <3> HIDE DEF q, worn, item, merges, harms
    <3>5. Units(left, k) = Units(live, k) + (WornUnits(worn, k) - WornUnits(live.worn, k))
                                          + (Inside(q, k) - Inside(live.bags[c], k))
      BY <2>1, <2>2, NewWornAndInUnits
    <3>6. Inside(live.bags[c], k) \in Int
      BY <2>2, InsideIs
    <3> HIDE DEF left
    <3> QED BY <3>2, <3>3, <3>4, <3>5, <3>6, LiveUnits
  <2> HIDE DEF left, harms
  <2> QED BY <1>2, <2>3, MovesBalances
<1> QED
  BY <1>1, <1>2, RefusedBalances

LEMMA ItemToBagBalances ==
  ASSUME Typed, phase = "in", NEW s \in DOMAIN live.worn, NEW c \in Bags, ItemToBag(s, c)
  PROVE  Balances
<1> DEFINE item == live.worn[s]
           q == Append(live.bags[c], item)
           worn == Bare(live.worn, s)
           left == NewWornAndIn(live, worn, c, q)
<1>1. \/ Len(live.bags[c]) < Capacity /\ Moves(left, Tables, {})
      \/ Refused
  BY DEF ItemToBag, NewWornAndIn
<1>2. CASE Len(live.bags[c]) < Capacity /\ Moves(left, Tables, {})
  <2>1. /\ item \in Items /\ live.worn \in Wearings
        /\ live.bags[c] \in Seq(Items) /\ worn \in Wearings
    BY LiveIs, BagOf, BareIs
  <2>2. q \in Seq(Items)
    BY <2>1, AppendProperties
  <2>3. ASSUME NEW k \in Kinds
        PROVE  Units(left, k) = Units(live, k)
    <3>1. /\ WornUnits(worn, k) = WornUnits(live.worn, k) - UnitsOf(item, k)
          /\ Inside(q, k) = Inside(live.bags[c], k) + UnitsOf(item, k)
      BY <2>1, BareUnits, AppendedUnits
    <3> HIDE DEF q, worn, item
    <3>2. Units(left, k) = Units(live, k) + (WornUnits(worn, k) - WornUnits(live.worn, k))
                                          + (Inside(q, k) - Inside(live.bags[c], k))
      BY <2>1, <2>2, NewWornAndInUnits
    <3>3. Inside(live.bags[c], k) \in Int /\ UnitsOf(item, k) \in Int
      BY <2>1, InsideIs, UnitsOfIs
    <3> HIDE DEF left
    <3> QED BY <3>1, <3>2, <3>3, LiveUnits
  <2> HIDE DEF left
  <2> QED BY <1>2, <2>3, MovesBalances
<1> QED
  BY <1>1, <1>2, RefusedBalances

LEMMA MoveToBagBalances ==
  ASSUME Typed, NEW s, NEW c \in Bags, NEW n, NEW at, MoveToBag(s, c, n, at)
  PROVE  Balances
BY StackToBagBalances, ItemToBagBalances DEF MoveToBag, Ready

LEMMA ContentIsPlain ==
  ASSUME Typed, NEW w, NEW j, HasContent(w, j)
  PROVE  Content(w, j) \in Items /\ Content(w, j).contents = <<>>
<1> DEFINE item == live.bags[windows[w][1]][windows[w][2]]
<1>1. /\ item \in Items /\ j \in DOMAIN item.contents
      /\ Content(w, j) = item.contents[j] /\ Content(w, j) \in Items
  BY ContentIs
<1> HIDE DEF item
<1>2. item.contents[j] \in PlainItems
  BY <1>1, ContentsAreItems
<1> QED
  BY <1>1, <1>2 DEF PlainItems

LEMMA ContentToBagBalances ==
  ASSUME Typed, NEW w, NEW j, NEW d, ContentToBag(w, j, d)
  PROVE  Balances
<1> DEFINE bags == WithoutContent(w, j)
           item == Content(w, j)
           q == Stacked(bags[d], item)
           more == [bags EXCEPT ![d] = q]
           then == NewBags(live, more)
<1>1. /\ phase = "in"
      /\ \/ Refused
         \/ phase' = "ending" /\ UNCHANGED <<rows, hollow, ground, used>>
         \/ HasContent(w, j) /\ d \in Bags /\ MovesContent(then)
  BY DEF ContentToBag, NewBags, Ready
<1>2. CASE HasContent(w, j) /\ d \in Bags /\ MovesContent(then)
  <2>1. Roomed(bags) /\ item \in Items /\ item.contents = <<>>
    BY <1>2, WithoutContentIs, ContentIsPlain
  <2>2. ASSUME NEW k \in Kinds
        PROVE  Units(then, k) = Units(live, k)
    <3>1. BagUnits(bags, k) = BagUnits(live.bags, k) - UnitsOf(item, k) /\ UnitsOf(item, k) \in Int
      BY <1>2, WithoutContentUnits
    <3> HIDE DEF bags, item
    <3>2. bags \in Carried /\ bags[d] \in Seq(Items)
      BY <1>2, <2>1 DEF Roomed, Carried
    <3>3. MergeHarm(item, Roomy(bags[d], item) # {}) = {}
      BY <2>1 DEF MergeHarm
    <3>4. Inside(q, k) = Inside(bags[d], k) + UnitsOf(item, k)
      BY <2>1, <3>2, <3>3, StackedUnits
    <3>5. q \in Seq(Items)
      <4>1. CASE Roomy(bags[d], item) # {}
        <5>1. Accepts(bags[d], item) /\ Len(bags[d]) <= Capacity
          BY <1>2, <2>1, <4>1 DEF Accepts, Roomed
        <5> QED BY <2>1, <3>2, <5>1, StackedIs
      <4>2. CASE Roomy(bags[d], item) = {}
        BY <2>1, <3>2, <4>2, AppendProperties DEF Stacked
      <4> QED BY <4>1, <4>2
    <3> HIDE DEF q
    <3>6. more \in Carried /\ BagUnits(more, k) = BagUnits(bags, k) + (Inside(q, k) - Inside(bags[d], k))
      BY <1>2, <3>2, <3>5, NewBagUnits
    <3> HIDE DEF more
    <3>7. Units(then, k) = Units(live, k) + (BagUnits(more, k) - BagUnits(live.bags, k))
      BY <3>6, NewBagsUnits
    <3>8. Inside(bags[d], k) \in Int
      BY <3>2, InsideIs
    <3> HIDE DEF then
    <3> QED BY <3>1, <3>4, <3>6, <3>7, <3>8, LiveUnits
  <2> HIDE DEF then
  <2> QED BY <1>1, <1>2, <2>2, MovesContentBalances
<1> HIDE DEF then
<1>3. CASE phase' = "ending" /\ UNCHANGED <<rows, hollow, ground, used>>
  BY <1>3 DEF Balances
<1> QED
  BY <1>1, <1>2, <1>3, RefusedBalances

LEMMA ContentToSlotBalances ==
  ASSUME Typed, NEW w, NEW j, NEW s \in Slots, ContentToSlot(w, j, s)
  PROVE  Balances
<1> DEFINE bags == WithoutContent(w, j)
           item == Content(w, j)
           worn == Worn(live.worn, s, item)
           left == [worn |-> worn, bags |-> bags]
<1>1. /\ phase = "in"
      /\ \/ Refused
         \/ HasContent(w, j) /\ s \notin DOMAIN live.worn /\ MovesContent(left)
  BY DEF ContentToSlot, Ready, Inventory
<1>2. CASE HasContent(w, j) /\ s \notin DOMAIN live.worn /\ MovesContent(left)
  <2>1. item \in Items /\ live.worn \in Wearings
    BY <1>2, ContentIs, LiveIs
  <2>2. ASSUME NEW k \in Kinds
        PROVE  Units(left, k) = Units(live, k)
    <3>1. BagUnits(bags, k) = BagUnits(live.bags, k) - UnitsOf(item, k) /\ UnitsOf(item, k) \in Int
      BY <1>2, WithoutContentUnits
    <3> HIDE DEF bags, item
    <3>2. WornUnits(worn, k) = WornUnits(live.worn, k) + UnitsOf(item, k)
      BY <1>2, <2>1, WornOnUnits
    <3> HIDE DEF worn
    <3>3. Units(left, k) = WornUnits(worn, k) + BagUnits(bags, k)
      BY UnitsOfBoth
    <3> HIDE DEF left
    <3> QED BY <3>1, <3>2, <3>3, LiveUnits
  <2> HIDE DEF left
  <2> QED BY <1>1, <1>2, <2>2, MovesContentBalances
<1> HIDE DEF left
<1> QED
  BY <1>1, <1>2, RefusedBalances

LEMMA DropWornBalances ==
  ASSUME Typed, NEW s, NEW n, DropWorn(s, n)
  PROVE  Balances
<1> DEFINE item == live.worn[s]
           worn == Lessened(live.worn, s, n)
           left == NewWorn(live, worn)
           harms == Spills(item, n)
<1>1. /\ s \in DOMAIN live.worn /\ n \in 1..live.worn[s].count /\ phase = "in"
      /\ Refused \/ Drops(left, item, n, harms)
  BY DEF DropWorn, NewWorn, Ready
<1>2. worn \in Wearings /\ item \in Items /\ n \in Nat /\ live.worn \in Wearings
  BY <1>1, LiveIs, LessenedIs
<1>3. ASSUME harms = {}, NEW k \in Kinds
      PROVE  Units(left, k) = Units(live, k) - Of(item.kind, n, k)
  <2>1. /\ Gone(item, n, k) = Of(item.kind, n, k) /\ Of(item.kind, n, k) \in Int
        /\ WornUnits(worn, k) = WornUnits(live.worn, k) - Gone(item, n, k)
    BY <1>1, <1>2, <1>3, LooseUnits, LessenedUnits, GoneIs
  <2> HIDE DEF worn, item
  <2>2. Units(left, k) = Units(live, k) + (WornUnits(worn, k) - WornUnits(live.worn, k))
    BY <1>2, NewWornUnits
  <2> HIDE DEF left
  <2> QED BY <2>1, <2>2, LiveUnits
<1> HIDE DEF left, item, harms
<1> QED
  BY <1>1, <1>2, <1>3, DropsBalances, RefusedBalances

LEMMA DropCarriedBalances ==
  ASSUME Typed, NEW c \in Bags, NEW i, NEW n, DropCarried(c, i, n)
  PROVE  Balances
<1> DEFINE item == live.bags[c][i]
           q == Without(live.bags[c], i, n)
           left == NewIn(live, c, q)
           harms == Spills(item, n)
<1>1. /\ i \in DOMAIN live.bags[c] /\ n \in 1..live.bags[c][i].count /\ phase = "in"
      /\ Refused \/ Drops(left, item, n, harms)
  BY DEF DropCarried, NewIn, Ready
<1>2. q \in Seq(Items) /\ item \in Items /\ n \in Nat
  BY <1>1, TakenFrom
<1>3. ASSUME harms = {}, NEW k \in Kinds
      PROVE  Units(left, k) = Units(live, k) - Of(item.kind, n, k)
  <2>1. /\ Inside(q, k) = Inside(live.bags[c], k) - Gone(item, n, k)
        /\ Inside(live.bags[c], k) \in Int
    BY <1>1, TakenUnits
  <2>2. Gone(item, n, k) = Of(item.kind, n, k) /\ Of(item.kind, n, k) \in Int
    BY <1>2, <1>3, LooseUnits, GoneIs
  <2> HIDE DEF q, item
  <2>3. Units(left, k) = Units(live, k) + (Inside(q, k) - Inside(live.bags[c], k))
    BY <1>2, NewInUnits
  <2> HIDE DEF left
  <2> QED BY <2>1, <2>2, <2>3, LiveUnits
<1> HIDE DEF left, item, harms
<1> QED
  BY <1>1, <1>2, <1>3, DropsBalances, RefusedBalances

LEMMA DropContentBalances ==
  ASSUME Typed, NEW w, NEW j, NEW n, DropContent(w, j, n)
  PROVE  Balances
<1> DEFINE bags == WithoutContent(w, j)
           item == Content(w, j)
           left == NewBags(live, bags)
           harms == IF n < item.count THEN {"discarded"} ELSE {}
<1>1. /\ HasContent(w, j) /\ n \in 1..item.count /\ phase = "in"
      /\ Refused \/ Drops(left, item, n, harms)
  BY DEF DropContent, NewBags, Ready
<1>2. Roomed(bags) /\ item \in Items /\ item.contents = <<>> /\ item.count \in Nat /\ n \in Nat
  <2>1. item \in Items /\ item.contents = <<>> /\ Roomed(bags)
    BY <1>1, WithoutContentIs, ContentIsPlain
  <2> QED BY <1>1, <2>1, ItemFields
<1>3. ASSUME harms = {}, NEW k \in Kinds
      PROVE  Units(left, k) = Units(live, k) - Of(item.kind, n, k)
  <2>1. n = item.count
    BY <1>1, <1>2, <1>3
  <2>2. BagUnits(bags, k) = BagUnits(live.bags, k) - UnitsOf(item, k)
    BY <1>1, WithoutContentUnits
  <2> HIDE DEF bags, item
  <2>3. UnitsOf(item, k) = Of(item.kind, n, k) /\ UnitsOf(item, k) \in Int
    BY <1>2, <2>1, UnitsOfIs, OwnIs
  <2>4. Units(left, k) = Units(live, k) + (BagUnits(bags, k) - BagUnits(live.bags, k))
    <3>1. bags \in Carried
      BY <1>2 DEF Roomed
    <3> QED BY <3>1, NewBagsUnits
  <2> HIDE DEF left
  <2> QED BY <2>2, <2>3, <2>4, LiveUnits
<1> HIDE DEF left, item, harms
<1> QED
  BY <1>1, <1>2, <1>3, DropsBalances, RefusedBalances

LEMMA StackUnits ==
  ASSUME NEW kind \in Kinds, NEW n \in 1..MaxCount, NEW k
  PROVE  /\ Item(kind, n, <<>>) \in Items /\ Item(kind, n, <<>>).contents = <<>>
         /\ UnitsOf(Item(kind, n, <<>>), k) = Of(kind, n, k)
<1> DEFINE item == Item(kind, n, <<>>)
<1>1. item \in Items /\ item.contents = <<>> /\ item.kind = kind /\ item.count = n
  BY StackIs DEF Item
<1> HIDE DEF item
<1>2. UnitsOf(item, k) = Of(kind, n, k)
  BY <1>1, UnitsOfIs, OwnIs
<1> QED
  BY <1>1, <1>2 DEF item

LEMMA PickUpToSlotBalances ==
  ASSUME Typed, NEW kind \in Kinds, NEW n \in Counts, NEW s \in Slots,
         PickUpToSlot(kind, n, s)
  PROVE  Balances
<1> DEFINE item == Item(kind, n, <<>>)
           worn == Worn(live.worn, s, item)
           one == NewWorn(live, worn)
           more == [live.worn[s] EXCEPT !.count = @ + n]
           two == NewSlot(live, s, more)
<1>1. /\ phase = "in" /\ n \in 1..MaxCount /\ n \in Nat
      /\ \/ s \notin DOMAIN live.worn /\ Takes(one, kind, n)
         \/ /\ s \in DOMAIN live.worn /\ live.worn[s].count + n <= MaxCount
            /\ live.worn[s].kind = kind /\ Takes(two, kind, n)
  BY DEF PickUpToSlot, NewWorn, NewSlot, Counts, Ready
<1>2. ASSUME s \notin DOMAIN live.worn, NEW k \in Kinds
      PROVE  Units(one, k) = Units(live, k) + Of(kind, n, k)
  <2>1. item \in Items /\ UnitsOf(item, k) = Of(kind, n, k) /\ live.worn \in Wearings
    BY <1>1, StackUnits, LiveIs
  <2> HIDE DEF item
  <2>2. worn \in Wearings /\ WornUnits(worn, k) = WornUnits(live.worn, k) + UnitsOf(item, k)
    BY <1>2, <2>1, WornIs, WornOnUnits
  <2> HIDE DEF worn
  <2>3. Units(one, k) = Units(live, k) + (WornUnits(worn, k) - WornUnits(live.worn, k))
    BY <2>2, NewWornUnits
  <2>4. UnitsOf(item, k) \in Int
    BY <2>1, UnitsOfIs
  <2> HIDE DEF one
  <2> QED BY <2>1, <2>2, <2>3, <2>4, LiveUnits
<1>3. ASSUME s \in DOMAIN live.worn, live.worn[s].count + n <= MaxCount,
             live.worn[s].kind = kind, NEW k \in Kinds
      PROVE  Units(two, k) = Units(live, k) + Of(kind, n, k)
  <2>1. live.worn[s] \in Items /\ UnitsOf(live.worn[s], k) \in Int
    BY <1>3, LiveIs, UnitsOfIs
  <2>2. more \in Items /\ UnitsOf(more, k) = UnitsOf(live.worn[s], k) + Of(kind, n, k)
    BY <1>1, <1>3, <2>1, MoreIs, MoreUnits
  <2> HIDE DEF more
  <2>3. Units(two, k) = Units(live, k) + (UnitsOf(more, k) - UnitsOf(live.worn[s], k))
    BY <1>3, <2>2, NewSlotUnits
  <2>4. Of(kind, n, k) \in Int
    BY <1>1 DEF Of
  <2> HIDE DEF two
  <2> QED BY <2>1, <2>2, <2>3, <2>4, LiveUnits
<1> HIDE DEF one, two
<1>4. CASE s \notin DOMAIN live.worn /\ Takes(one, kind, n)
  BY <1>1, <1>2, <1>4, TakesBalances
<1>5. CASE /\ s \in DOMAIN live.worn /\ live.worn[s].count + n <= MaxCount
           /\ live.worn[s].kind = kind /\ Takes(two, kind, n)
  BY <1>1, <1>3, <1>5, TakesBalances
<1> QED
  BY <1>1, <1>4, <1>5

LEMMA PickUpToBagBalances ==
  ASSUME Typed, NEW kind \in Kinds, NEW n \in Counts, NEW c \in Bags, PickUpToBag(kind, n, c)
  PROVE  Balances
<1> DEFINE item == Item(kind, n, <<>>)
           q == Stacked(live.bags[c], item)
           left == NewIn(live, c, q)
<1>1. /\ phase = "in" /\ n \in 1..MaxCount /\ n \in Nat
      /\ Accepts(live.bags[c], item) /\ Takes(left, kind, n)
  BY DEF PickUpToBag, NewIn, Counts, Ready
<1>2. ASSUME NEW k \in Kinds
      PROVE  Units(left, k) = Units(live, k) + Of(kind, n, k)
  <2>1. item \in Items /\ item.contents = <<>> /\ UnitsOf(item, k) = Of(kind, n, k)
    BY <1>1, StackUnits
  <2> HIDE DEF item
  <2>2. q \in Seq(Items) /\ live.bags[c] \in Seq(Items)
    BY <1>1, <2>1, AddedTo, LiveIs, BagOf
  <2>3. MergeHarm(item, Roomy(live.bags[c], item) # {}) = {}
    BY <2>1 DEF MergeHarm
  <2>4. Inside(q, k) = Inside(live.bags[c], k) + UnitsOf(item, k)
    BY <2>1, <2>2, <2>3, StackedUnits
  <2> HIDE DEF q
  <2>5. Units(left, k) = Units(live, k) + (Inside(q, k) - Inside(live.bags[c], k))
    BY <2>2, NewInUnits
  <2>6. Inside(live.bags[c], k) \in Int /\ UnitsOf(item, k) \in Int
    BY <2>1, <2>2, InsideIs, UnitsOfIs
  <2> HIDE DEF left
  <2> QED BY <2>1, <2>4, <2>5, <2>6, LiveUnits
<1> HIDE DEF left
<1> QED
  BY <1>1, <1>2, TakesBalances

LEMMA EatWornBalances ==
  ASSUME Typed, NEW s \in Slots, EatWorn(s)
  PROVE  Balances
<1> DEFINE item == live.worn[s]
           worn == Lessened(live.worn, s, 1)
           left == NewWorn(live, worn)
           harms == Spills(item, 1)
<1>1. /\ phase = "in" /\ s \in DOMAIN live.worn /\ live' = left /\ UNCHANGED ground
      /\ \/ phase' = phase /\ Consumed(item.kind) /\ harm' = harm \cup harms
         \/ phase' = "ending" /\ UNCHANGED <<rows, hollow, used>>
  BY DEF EatWorn, NewWorn, Ready
<1>2. item \in Items /\ item.kind \in Kinds /\ 1 \in 1..item.count /\ live.worn \in Wearings
  BY <1>1, LiveIs, ItemFields
<1>3. worn \in Wearings
  BY <1>1, <1>2, LessenedIs
<1>4. ASSUME harms = {}, NEW k \in Kinds
      PROVE  Units(left, k) = Units(live, k) - Of(item.kind, 1, k)
  <2>1. /\ Gone(item, 1, k) = Of(item.kind, 1, k) /\ Of(item.kind, 1, k) \in Int
        /\ WornUnits(worn, k) = WornUnits(live.worn, k) - Gone(item, 1, k)
    BY <1>1, <1>2, <1>4, LooseUnits, LessenedUnits, GoneIs
  <2> HIDE DEF worn, item
  <2>2. Units(left, k) = Units(live, k) + (WornUnits(worn, k) - WornUnits(live.worn, k))
    BY <1>3, NewWornUnits
  <2> HIDE DEF left
  <2> QED BY <2>1, <2>2, LiveUnits
<1> HIDE DEF left, item, harms
<1>5. CASE phase' = phase /\ Consumed(item.kind) /\ harm' = harm \cup harms
  <2>1. ASSUME harm' = {}, NEW k \in Kinds
        PROVE  Units(live', k) = Units(live, k) - Of(item.kind, 1, k)
    <3>1. harms = {}
      BY <1>5, <2>1
    <3> QED BY <1>1, <1>4, <3>1
  <2> QED BY <1>1, <1>2, <1>5, <2>1, ConsumesBalances
<1>6. CASE phase' = "ending" /\ UNCHANGED <<rows, hollow, used>>
  BY <1>1, <1>6 DEF Balances
<1> QED
  BY <1>1, <1>5, <1>6

LEMMA EatCarriedBalances ==
  ASSUME NEW c \in Bags, NEW i, EatCarried(c, i)
  PROVE  Balances
BY DEF EatCarried, Balances

LEMMA FireRuneBalances ==
  ASSUME Typed, NEW c \in Bags, NEW i, FireRune(c, i)
  PROVE  Balances
<1> DEFINE item == live.bags[c][i]
           q == Without(live.bags[c], i, 1)
           left == NewIn(live, c, q)
           harms == Spills(item, 1)
<1>1. /\ phase = "in" /\ phase' = phase /\ i \in DOMAIN live.bags[c]
      /\ live' = left /\ Consumed(item.kind) /\ UNCHANGED ground
      /\ harm' = harm \cup harms \/ harm' = harm \cup harms \cup {"unsaved"}
  BY DEF FireRune, NewIn, Ready
<1>2. item \in Items /\ item.kind \in Kinds /\ 1 \in 1..item.count
  BY <1>1, LiveIs, BagOf, ItemFields
<1>3. q \in Seq(Items)
  BY <1>1, <1>2, TakenFrom
<1>4. ASSUME harms = {}, NEW k \in Kinds
      PROVE  Units(left, k) = Units(live, k) - Of(item.kind, 1, k)
  <2>1. /\ Inside(q, k) = Inside(live.bags[c], k) - Gone(item, 1, k)
        /\ Inside(live.bags[c], k) \in Int
    BY <1>1, <1>2, TakenUnits
  <2>2. Gone(item, 1, k) = Of(item.kind, 1, k) /\ Of(item.kind, 1, k) \in Int
    BY <1>2, <1>4, LooseUnits, GoneIs
  <2> HIDE DEF q, item
  <2>3. Units(left, k) = Units(live, k) + (Inside(q, k) - Inside(live.bags[c], k))
    BY <1>3, NewInUnits
  <2> HIDE DEF left
  <2> QED BY <2>1, <2>2, <2>3, LiveUnits
<1> HIDE DEF left, item, harms
<1>5. ASSUME harm' = {}, NEW k \in Kinds
      PROVE  Units(live', k) = Units(live, k) - Of(item.kind, 1, k)
  <2>1. harms = {}
    BY <1>1, <1>5
  <2> QED BY <1>1, <1>4, <2>1
<1> QED
  BY <1>1, <1>2, <1>5, ConsumesBalances

LEMMA ShootAmmoBalances ==
  ASSUME ShootAmmo
  PROVE  Balances
BY DEF ShootAmmo, Balances

LEMMA DisconnectBalances ==
  ASSUME Disconnect
  PROVE  Balances
BY DEF Disconnect, Balances

LEMMA NextBalances ==
  ASSUME Typed, Next
  PROVE  \/ Balances
         \/ UNCHANGED <<live, rows, hollow, ground, phase, used, harm>>
         \/ Login \/ Leave
<1>1. CASE MoveItems
  <2>1. ASSUME NEW c \in Bags, NEW d \in Bags, NEW i \in Places, NEW n \in Counts,
               MoveBetweenBags(c, i, d, n)
        PROVE  Balances
    BY <2>1, MoveBetweenBagsBalances
  <2>2. ASSUME NEW c \in Bags, NEW i \in Places, NEW s \in Slots, NEW n \in Counts,
               MoveToSlot(c, i, s, n)
        PROVE  Balances
    BY <2>2, MoveToSlotBalances
  <2>3. ASSUME NEW s \in Slots, NEW t \in Slots, SwapSlots(s, t) \/ MoveSlot(s, t)
        PROVE  Balances
    BY <2>3, SwapSlotsBalances, MoveSlotBalances
  <2>4. ASSUME NEW s \in Slots, NEW c \in Bags, NEW n \in Counts, NEW at \in 1..(Capacity + 1),
               MoveToBag(s, c, n, at)
        PROVE  Balances
    BY <2>4, MoveToBagBalances
  <2> QED BY <1>1, <2>1, <2>2, <2>3, <2>4 DEF MoveItems
<1>2. CASE UseWindows
  <2>1. ASSUME NEW w \in Ids, NEW d \in Ids, NEW j \in Places, ContentToBag(w, j, d)
        PROVE  Balances
    BY <2>1, ContentToBagBalances
  <2>2. ASSUME NEW w \in Ids, NEW j \in Places, NEW s \in Slots, ContentToSlot(w, j, s)
        PROVE  Balances
    BY <2>2, ContentToSlotBalances
  <2>3. ASSUME \/ UseBackpack \/ \E w \in Ids : CloseWindow(w) \/ UpdateContainer(w)
               \/ \E c \in Bags, i \in Places : OpenContent(c, i)
        PROVE  UNCHANGED <<live, rows, hollow, ground, phase, used, harm>>
    BY <2>3 DEF UseBackpack, UpdateContainer, Reopen, CloseWindow, OpenContent
  <2> QED BY <1>2, <2>1, <2>2, <2>3 DEF UseWindows
<1>3. CASE UseGround
  <2>1. ASSUME NEW s \in Slots, NEW n \in Counts, DropWorn(s, n)
        PROVE  Balances
    BY <2>1, DropWornBalances
  <2>2. ASSUME NEW c \in Bags, NEW i \in Places, NEW n \in Counts, DropCarried(c, i, n)
        PROVE  Balances
    BY <2>2, DropCarriedBalances
  <2>3. ASSUME NEW w \in Ids, NEW j \in Places, NEW n \in Counts, DropContent(w, j, n)
        PROVE  Balances
    BY <2>3, DropContentBalances
  <2>4. ASSUME NEW k \in Kinds, NEW n \in Counts, NEW s \in Slots, PickUpToSlot(k, n, s)
        PROVE  Balances
    BY <2>4, PickUpToSlotBalances
  <2>5. ASSUME NEW k \in Kinds, NEW n \in Counts, NEW c \in Bags, PickUpToBag(k, n, c)
        PROVE  Balances
    BY <2>5, PickUpToBagBalances
  <2> QED BY <1>3, <2>1, <2>2, <2>3, <2>4, <2>5 DEF UseGround
<1>4. CASE Consume
  BY <1>4, EatWornBalances, EatCarriedBalances, FireRuneBalances, ShootAmmoBalances DEF Consume
<1> QED
  BY <1>1, <1>2, <1>3, <1>4, DisconnectBalances DEF Next

----------------------------------------------------------------------------
(* Units are kept *)

LEMMA InitUnits == Init => UnitsAreKept
<1>1. ASSUME Init, NEW k \in Kinds
      PROVE  Units(rows, k) + ground[k] + used[k] = Units(Stock, k)
  <2>1. rows = Stock /\ ground[k] = 0 /\ used[k] = 0
    BY <1>1 DEF Init
  <2>2. Units(Stock, k) \in Int
    BY StockIs, UnitsAreNumbers
  <2> QED BY <2>1, <2>2
<1> QED
  BY <1>1 DEF UnitsAreKept, Init

LEMMA HarmStays ==
  ASSUME Typed, [Next]_vars
  PROVE  harm \subseteq harm'
<1>1. CASE Does
  BY <1>1 DEF Does, Counted
<1>2. CASE \/ \E c \in Bags, i \in Places : OpenContent(c, i)
           \/ \E w \in Ids : CloseWindow(w)
           \/ \E c : Reopen(c)
           \/ Login \/ Leave \/ UNCHANGED vars
  BY <1>2 DEF OpenContent, CloseWindow, Reopen, Login, Leave, vars
<1> QED
  BY <1>1, <1>2, NextDoes

(* Where nothing went wrong and no table lacks contents the rows are the    *)
(* inventory of the world.                                                  *)
LEMMA RowsAreLive ==
  ASSUME Typed', Kept', phase' = "in", harm' = {}, hollow' = {}
  PROVE  rows' = live'
<1>1. rows'.worn = live'.worn /\ rows'.bags = live'.bags
  BY DEF Kept, RowsKeepUp
<1>2. Good(rows') /\ Good(live')
  BY DEF Typed
<1>3. /\ rows' = [worn |-> rows'.worn, bags |-> rows'.bags]
      /\ live' = [worn |-> live'.worn, bags |-> live'.bags]
  BY <1>2, GoodParts
<1> QED
  BY <1>1, <1>3

LEMMA NextKeepsUnits ==
  ASSUME Typed, Typed', Kept', UnitsAreKept, [Next]_vars
  PROVE  UnitsAreKept'
<1> DEFINE Then(inventory, k) == Units(inventory, k) + ground'[k] + used'[k] = Units(Stock, k)
<1> SUFFICES ASSUME harm' = {}, NEW k \in Kinds
             PROVE  /\ phase' = "in" => Then(live', k)
                    /\ hollow' = {} => Then(rows', k)
  BY DEF UnitsAreKept
<1>1. /\ harm = {}
      /\ phase = "in" => Units(live, k) + ground[k] + used[k] = Units(Stock, k)
      /\ hollow = {} => Units(rows, k) + ground[k] + used[k] = Units(Stock, k)
  BY HarmStays DEF UnitsAreKept
<1>2. CASE Balances
  <2>1. CASE phase' = "ending" /\ UNCHANGED <<rows, hollow, ground, used>>
    BY <1>1, <2>1
  <2>2. CASE /\ phase = "in" /\ phase' = "in"
             /\ Units(live', k) + ground'[k] + used'[k] = Units(live, k) + ground[k] + used[k]
    <3>1. Then(live', k)
      BY <1>1, <2>2
    <3>2. hollow' = {} => rows' = live'
      BY <2>2, RowsAreLive
    <3> HIDE DEF Then
    <3> QED BY <3>1, <3>2
  <2> QED BY <1>2, <2>1, <2>2 DEF Balances
<1>3. CASE UNCHANGED <<live, rows, hollow, ground, phase, used, harm>>
  BY <1>1, <1>3
<1>4. CASE Login
  <2>1. /\ live' = rows /\ UNCHANGED <<rows, ground, used>>
        /\ harm' = harm \cup (IF hollow # {} THEN {"unstored"} ELSE {})
    BY <1>4 DEF Login
  <2>2. hollow = {}
    BY <2>1
  <2> QED BY <1>1, <2>1, <2>2
<1>5. CASE Leave
  BY <1>1, <1>5 DEF Leave
<1>6. CASE UNCHANGED vars
  BY <1>3, <1>6 DEF vars
<1> QED
  BY <1>2, <1>3, <1>4, <1>5, <1>6, NextBalances

----------------------------------------------------------------------------
(* Theorems *)

LEMMA TypeOKIf == Typed /\ Windowed => TypeOK
<1>1. \A item \in Items : IsItem(item)
  BY ItemFields DEF IsItem
<1>2. ASSUME NEW inventory, Good(inventory)
      PROVE  Bounded(inventory)
  <2>1. /\ inventory.worn \in Wearings /\ DOMAIN inventory.bags = Bags
        /\ \A c \in Bags : Len(inventory.bags[c]) <= Capacity
    BY <1>2, GoodParts DEF Roomed, Carried
  <2>2. /\ DOMAIN inventory.worn \subseteq Slots
        /\ \A s \in DOMAIN inventory.worn : IsItem(inventory.worn[s])
    BY <1>1, <2>1, WearingsAre
  <2>3. \A c \in Bags : \A i \in DOMAIN inventory.bags[c] : IsItem(inventory.bags[c][i])
    BY <1>1, <1>2, GoodParts, BagOf
  <2> QED BY <2>1, <2>2, <2>3 DEF Bounded
<1> QED
  BY <1>2 DEF Typed, Windowed, TypeOK, Harms

LEMMA Invariant == Spec => [](Typed /\ Windowed /\ Kept /\ UnitsAreKept)
<1>1. Init => Typed /\ Windowed /\ Kept /\ UnitsAreKept
  BY InitTyped, InitWindowed, InitKept, InitUnits
<1>2. ASSUME Typed, Windowed, Kept, UnitsAreKept, [Next]_vars
      PROVE  (Typed /\ Windowed /\ Kept /\ UnitsAreKept)'
  <2>1. Typed' /\ Windowed' /\ Kept'
    BY <1>2, NextKeepsTyped, NextKeepsWindowed, NextKeepsKept
  <2> QED BY <1>2, <2>1, NextKeepsUnits
<1> QED
  BY <1>1, <1>2, PTL DEF Spec

(* Whatever a client moves, splits, stacks, exchanges, drops, takes or      *)
(* consumes, and wherever a transaction fails: no stack is empty or above   *)
(* MAX_ITEM_STACK_COUNT, no container above its capacity, in the world or   *)
(* in the rows, and no content window has the id of a container.            *)
THEOREM StacksStayWhole == Spec => []TypeOK
<1>1. Typed /\ Windowed /\ Kept /\ UnitsAreKept => TypeOK
  BY TypeOKIf
<1> QED
  BY <1>1, Invariant, PTL

(* While a session goes on, the tables hold what the handlers made of the   *)
(* inventory in the world, though each handler names the tables it writes:  *)
(* only consumption from a container, a rune or ammunition leaves the rows  *)
(* behind, and only contents are missing in them.                           *)
THEOREM InventoryRowsKeepUp == Spec => []RowsKeepUp
<1>1. Typed /\ Windowed /\ Kept /\ UnitsAreKept => RowsKeepUp
  BY DEF Kept
<1> QED
  BY <1>1, Invariant, PTL

(* A content window the session keeps by index shows the item at that index *)
(* until a request that does not refresh windows changes it; opening takes  *)
(* an id no container has, and logout forgets them all.                     *)
THEOREM WindowsAlwaysShowTheirItem == Spec => []WindowsShowTheirItem
<1>1. Typed /\ Windowed /\ Kept /\ UnitsAreKept => WindowsShowTheirItem
  BY DEF Windowed
<1> QED
  BY <1>1, Invariant, PTL

(* move_player_stack_to_ground, the throws, the content takes, the pick-ups *)
(* and the consumption handlers each take out of one place what they put    *)
(* into another: what a player owns, what lies on the ground and what was   *)
(* consumed is what there was at first, in the world while the player is    *)
(* in the game and in the tables unless contents are missing there, however *)
(* often a refusal or a failed transaction ends the session.  It takes one  *)
(* of the recorded harms to make or lose a unit.                            *)
THEOREM InventoryUnitsAreKept == Spec => []UnitsAreKept
<1>1. Typed /\ Windowed /\ Kept /\ UnitsAreKept => UnitsAreKept
  OBVIOUS
<1> QED
  BY <1>1, Invariant, PTL

=============================================================================
