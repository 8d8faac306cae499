------------------------------- MODULE Trade -------------------------------
(****************************************************************************)
(* Player-to-player trades: the active_trades of WorldState (world_trade.rs *)
(* of forgotten-core), the handlers of the session threads around them      *)
(* (trade.rs of forgotten-host), the moves of a player inside its own       *)
(* containers, the end of a session and the login that loads the containers *)
(* from the database.                                                       *)
(*                                                                          *)
(* Each call on SharedNativeWorld takes the world mutex once, so a handler  *)
(* is one action per call; task[p] is where the thread of player p stands.  *)
(* Every Err of a handler ends its session, as does a socket error between  *)
(* any two calls: SessionEnds stands for all of them, so the actions below  *)
(* are what the calls do when they succeed.                                 *)
(*                                                                          *)
(* An item is a stack of a kind of its own, so that merge_or_insert_stack   *)
(* always inserts.  Distance and death of the traders only decide whether a *)
(* request is refused and are left open.  Indices count from 1.             *)
(****************************************************************************)
EXTENDS Naturals, FiniteSets, Sequences, SequencesExt

CONSTANTS Players,       \* character ids that trade
          Items,         \* item stacks
          ContainerIds,  \* the container windows every player owns
          Capacity,      \* how many items each of them holds
          Stock,         \* what the database holds of each player at first
          MaxPerSide,    \* MAX_TRADE_ITEMS_PER_SIDE
          MaxOpens,      \* bound: how often a trade is opened
          MaxMoves,      \* bound: how often a player moves an item of its own
          MaxEnds,       \* bound: how often a session ends
          MaxLogins      \* bound: how often somebody logs in again

Inventory == [ContainerIds -> Seq(Items)]

(* Ids are unsigned integers and keys of BTreeMaps, so there are finitely many. *)
ASSUME TradeAssumption ==
    /\ Players \subseteq Nat /\ IsFiniteSet(Players)
    /\ ContainerIds \subseteq Nat /\ IsFiniteSet(ContainerIds)
    /\ Capacity \in [ContainerIds -> Nat \ {0}]
    /\ Stock \in [Players -> Inventory]
    /\ \A p \in Players, c \in ContainerIds : Len(Stock[p][c]) <= Capacity[c]
    /\ {MaxPerSide, MaxOpens, MaxMoves, MaxEnds, MaxLogins} \subseteq Nat

VARIABLES
    online,      \* WorldState.players
    trades,      \* WorldState.active_trades, keyed by initiator
    containers,  \* WorldState.player_containers
    stored,      \* the containers of each player in the database
    closing,     \* pending_trades_closed of SharedNativeWorld
    task,        \* what each session thread is in the middle of
    spent        \* how often the bounded operations happened

vars == <<online, trades, containers, stored, closing, task, spent>>

----------------------------------------------------------------------------
(* Types *)

Reference == [container : ContainerIds, index : Nat \ {0}]

(* initiatorSaw and counterpartySaw are no fields of PlayerTradeSession: they *)
(* remember the offer of the other side at the last acceptance.               *)
TradeSession == [counterparty         : Players,
                 initiatorItems       : Seq(Reference),
                 counterpartyItems    : Seq(Reference),
                 initiatorAccepted    : BOOLEAN,
                 counterpartyAccepted : BOOLEAN,
                 initiatorSaw         : Seq(Reference),
                 counterpartySaw      : Seq(Reference)]

(* The containers of a player that is not in the world, or not hydrated yet. *)
NoContainers == <<>>

Idle == [at |-> "idle"]

(* A thread at "save" or "write" has queue to persist, in this order, and *)
(* flags the players of signal in the end.                                *)
Task == [at : {"idle", "execute", "failed"}]
        \cup [at : {"login", "hydrate"}, read : Inventory \cup {NoContainers}]
        \cup [at : {"probe", "open", "stage"}, with : Players, ref : Reference]
        \cup [at : {"windows"}, agreed : BOOLEAN]
        \cup [at : {"save"}, queue : Seq(Players), signal : SUBSET Players]
        \cup [at : {"write"}, queue : Seq(Players), signal : SUBSET Players,
              read : Inventory \cup {NoContainers}]

----------------------------------------------------------------------------
(* Looking a trade up *)

Initiators == DOMAIN trades

TradesWith(p) == {i \in Initiators : trades[i].counterparty = p}

InTrade(p) == p \in Initiators \/ TradesWith(p) # {}

(* The key of player_trade and active_trade_entry_mut: the trade the player *)
(* initiated, else the first one it is the counterparty of.                 *)
KeyOf(p) == IF p \in Initiators THEN p
            ELSE CHOOSE i \in TradesWith(p) : \A j \in TradesWith(p) : i <= j

Partner(p) == IF p \in Initiators THEN trades[p].counterparty ELSE KeyOf(p)

Without(f, S) == [i \in DOMAIN f \ S |-> f[i]]

With(f, k, value) == [i \in DOMAIN f \cup {k} |-> IF i = k THEN value ELSE f[i]]

----------------------------------------------------------------------------
(* Moving goods.  inv is a value of the variable containers. *)

Has(inv, p, r) ==
    r.container \in DOMAIN inv[p] /\ r.index <= Len(inv[p][r.container])

ItemAt(inv, p, r) == inv[p][r.container][r.index]

(* Mutant of HasRoom: one item too many. *)
HasRoomForOneMore(inv, p, c) ==
    c \in DOMAIN inv[p] /\ Len(inv[p][c]) <= Capacity[c]

HasRoom(inv, p, c) == c \in DOMAIN inv[p] /\ Len(inv[p][c]) < Capacity[c]

Put(inv, p, c, item) == [inv EXCEPT ![p][c] = Append(@, item)]

(* remove_offered: the references are removed one by one, by the index each *)
(* had before; goods is what came out, from where.                          *)
TakeOne(p, taken, r) ==
    IF taken.ok /\ Has(taken.inv, p, r)
    THEN [ok    |-> TRUE,
          inv   |-> [taken.inv EXCEPT ![p][r.container] = RemoveAt(@, r.index)],
          goods |-> Append(taken.goods, [from |-> r.container,
                                         item |-> ItemAt(taken.inv, p, r)])]
    ELSE [taken EXCEPT !.ok = FALSE]

TakeAll(inv, p, refs) ==
    FoldLeft(LAMBDA taken, r : TakeOne(p, taken, r),
             [ok |-> TRUE, inv |-> inv, goods |-> <<>>], refs)

(* What was taken goes back behind what is left, last taken first. *)
Restore(inv, p, goods) ==
    FoldRight(LAMBDA g, acc : Put(acc, p, g.from, g.item), goods, inv)

(* deliver: each item into the first container with room; the first item *)
(* without room ends it, and what was already delivered stays.           *)
DeliverOne(p, acc, g) ==
    LET room == {c \in ContainerIds : HasRoom(acc.inv, p, c)}
    IN  IF acc.ok /\ room # {}
        THEN [acc EXCEPT !.inv =
                Put(@, p, CHOOSE c \in room : \A d \in room : c <= d, g.item)]
        ELSE [acc EXCEPT !.ok = FALSE]

(* Mutant of Deliver: goods without room are dropped silently. *)
DeliverWhatFits(inv, p, goods) ==
    [FoldLeft(LAMBDA acc, g : DeliverOne(p, acc, g),
              [ok |-> TRUE, inv |-> inv], goods) EXCEPT !.ok = TRUE]

Deliver(inv, p, goods) ==
    FoldLeft(LAMBDA acc, g : DeliverOne(p, acc, g),
             [ok |-> TRUE, inv |-> inv], goods)

(* Mutant of Swap: the goods of the counterparty are resolved, not removed. *)
SwapLeavesGoods(inv, i, t) ==
    LET mine   == TakeAll(inv, i, t.initiatorItems)
        theirs == TakeAll(mine.inv, t.counterparty, t.counterpartyItems)
        first  == Deliver(mine.inv, i, theirs.goods)
        second == Deliver(first.inv, t.counterparty, mine.goods)
    IN  [ok  |-> mine.ok /\ theirs.ok /\ first.ok /\ second.ok,
         inv |-> second.inv]

(* The passes of execute_player_trade over both inventories. *)
Swap(inv, i, t) ==
    LET c        == t.counterparty
        resolved == /\ \A r \in Range(t.initiatorItems) : Has(inv, i, r)
                    /\ \A r \in Range(t.counterpartyItems) : Has(inv, c, r)
        mine     == TakeAll(inv, i, t.initiatorItems)
        theirs   == TakeAll(mine.inv, c, t.counterpartyItems)
        first    == Deliver(theirs.inv, i, theirs.goods)
        second   == Deliver(first.inv, c, mine.goods)
    IN  IF ~resolved THEN [ok |-> FALSE, inv |-> inv]
        ELSE IF ~mine.ok
        THEN [ok |-> FALSE, inv |-> Restore(mine.inv, i, mine.goods)]
        ELSE IF ~theirs.ok
        THEN [ok  |-> FALSE,
              inv |-> Restore(Restore(theirs.inv, c, theirs.goods), i, mine.goods)]
        ELSE IF ~first.ok THEN first
        ELSE second

----------------------------------------------------------------------------
Init ==
    /\ online     = Players
    /\ trades     = <<>>
    /\ containers = Stock
    /\ stored     = Stock
    /\ closing    = {}
    /\ task       = [p \in Players |-> Idle]
    /\ spent      = [opens |-> 0, moves |-> 0, ends |-> 0, logins |-> 0]

At(p, place) == task[p].at = place

Continue(p, next) == task' = [task EXCEPT ![p] = next]

(* handle_native_player_trade_request: the target is looked up and the *)
(* offered item resolved to a reference.                               *)
RequestResolve(p, q, r) ==
    /\ At(p, "idle")
    /\ {p, q} \subseteq online
    /\ p # q
    /\ Has(containers, p, r)
    /\ Continue(p, [at |-> "probe", with |-> q, ref |-> r])
    /\ UNCHANGED <<online, trades, containers, stored, closing, spent>>

(* A player in a trade with somebody else is "already trading". *)
RequestProbe(p) ==
    /\ At(p, "probe")
    /\ Continue(p, IF ~InTrade(p) THEN [task[p] EXCEPT !.at = "open"]
                   ELSE IF Partner(p) = task[p].with
                   THEN [task[p] EXCEPT !.at = "stage"]
                   ELSE Idle)
    /\ UNCHANGED <<online, trades, containers, stored, closing, spent>>

NewTrade(q) == [counterparty         |-> q,
                initiatorItems       |-> <<>>,
                counterpartyItems    |-> <<>>,
                initiatorAccepted    |-> FALSE,
                counterpartyAccepted |-> FALSE,
                initiatorSaw         |-> <<>>,
                counterpartySaw      |-> <<>>]

(* open_player_trade: neither player may have initiated a trade. *)
RequestOpen(p) ==
    LET q == task[p].with
    IN  /\ At(p, "open")
        /\ q \in online
        /\ {p, q} \cap Initiators = {}
        /\ spent.opens < MaxOpens
        /\ spent' = [spent EXCEPT !.opens = @ + 1]
        /\ trades' = With(trades, p, NewTrade(q))
        /\ Continue(p, [task[p] EXCEPT !.at = "stage"])
        /\ UNCHANGED <<online, containers, stored, closing>>

Offer(p) == IF p \in Initiators THEN trades[p].initiatorItems
                                ELSE trades[KeyOf(p)].counterpartyItems

Windows(agreed) == [at |-> "windows", agreed |-> agreed]

(* Mutant of Staged: the acceptance of the other side stands. *)
StagedQuietly(p, r) ==
    IF p \in Initiators
    THEN [trades EXCEPT ![p].initiatorItems = Append(@, r),
                        ![p].initiatorAccepted = FALSE]
    ELSE [trades EXCEPT ![KeyOf(p)].counterpartyItems = Append(@, r),
                        ![KeyOf(p)].initiatorAccepted = FALSE]

(* An initiator that stages resets both acceptances, a counterparty only *)
(* that of the initiator.                                                *)
Staged(p, r) ==
    IF p \in Initiators
    THEN [trades EXCEPT ![p].initiatorItems = Append(@, r),
                        ![p].initiatorAccepted = FALSE,
                        ![p].counterpartyAccepted = FALSE]
    ELSE [trades EXCEPT ![KeyOf(p)].counterpartyItems = Append(@, r),
                        ![KeyOf(p)].initiatorAccepted = FALSE]

(* stage_trade_item *)
RequestStage(p) ==
    LET r == task[p].ref
    IN  /\ At(p, "stage")
        /\ InTrade(p)
        /\ Len(Offer(p)) < MaxPerSide
        /\ r \notin Range(Offer(p))
        /\ trades' = Staged(p, r)
        /\ Continue(p, Windows(FALSE))
        /\ UNCHANGED <<online, containers, stored, closing, spent>>

(* accept_player_trade *)
Accept(p) ==
    /\ At(p, "idle")
    /\ p \in online
    /\ InTrade(p)
    /\ LET k == KeyOf(p)
           t == trades[k]
           u == IF k = p
                THEN [t EXCEPT !.initiatorAccepted = TRUE,
                               !.initiatorSaw = t.counterpartyItems]
                ELSE [t EXCEPT !.counterpartyAccepted = TRUE,
                               !.counterpartySaw = t.initiatorItems]
       IN  /\ trades' = [trades EXCEPT ![k] = u]
           /\ Continue(p, Windows(u.initiatorAccepted /\ u.counterpartyAccepted))
    /\ UNCHANGED <<online, containers, stored, closing, spent>>

(* deliver_native_trade_windows needs the containers of both traders.  The *)
(* thread that saw both acceptances goes on to execute_player_trade.       *)
ShowWindows(p) ==
    /\ At(p, "windows")
    /\ InTrade(p) => Partner(p) \in online
    /\ Continue(p, IF task[p].agreed THEN [at |-> "execute"] ELSE Idle)
    /\ UNCHANGED <<online, trades, containers, stored, closing, spent>>

(* Mutant of Agreed: execute_player_trade trusts the earlier answer. *)
AgreedBefore(p) == InTrade(p)

(* The acceptances are looked at again under the lock of the execution. *)
Agreed(p) ==
    /\ InTrade(p)
    /\ trades[KeyOf(p)].initiatorAccepted
    /\ trades[KeyOf(p)].counterpartyAccepted

(* A swap that worked closes whatever either trader initiated; then both *)
(* inventories are persisted.                                            *)
Execute(p) ==
    /\ At(p, "execute")
    /\ Agreed(p)
    /\ LET i == KeyOf(p)
           c == trades[i].counterparty
           s == Swap(containers, i, trades[i])
       IN  /\ s.ok
           /\ containers' = s.inv
           /\ trades' = Without(trades, {i, c})
           /\ Continue(p, [at |-> "save", queue |-> <<i, c>>, signal |-> {i, c}])
    /\ UNCHANGED <<online, stored, closing, spent>>

(* A swap that failed leaves the trade open; its error ends the session. *)
ExecuteFails(p) ==
    /\ At(p, "execute")
    /\ Agreed(p)
    /\ LET s == Swap(containers, KeyOf(p), trades[KeyOf(p)])
       IN  ~s.ok /\ containers' = s.inv
    /\ Continue(p, [at |-> "failed"])
    /\ UNCHANGED <<online, trades, stored, closing, spent>>

(* cancel_player_trade_and_signal: who rejects as the counterparty is told *)
(* itself, who rejects as the initiator has the counterparty told.         *)
Reject(p) ==
    /\ At(p, "idle")
    /\ p \in online
    /\ InTrade(p)
    /\ trades' = Without(trades, {KeyOf(p)})
    /\ closing' = closing \cup {IF p \in Initiators THEN trades[p].counterparty
                                                    ELSE p}
    /\ UNCHANGED <<online, containers, stored, task, spent>>

CloseWindow(p) ==
    /\ At(p, "idle")
    /\ p \in online \cap closing
    /\ closing' = closing \ {p}
    /\ UNCHANGED <<online, trades, containers, stored, task, spent>>

(* A whole stack moves between two containers of its owner. *)
MoveOwn(p, r, c) ==
    /\ At(p, "idle")
    /\ p \in online
    /\ Has(containers, p, r)
    /\ c # r.container
    /\ HasRoom(containers, p, c)
    /\ spent.moves < MaxMoves
    /\ spent' = [spent EXCEPT !.moves = @ + 1]
    /\ containers' = [containers EXCEPT
                        ![p][r.container] = RemoveAt(@, r.index),
                        ![p][c] = Append(@, ItemAt(containers, p, r))]
    /\ Continue(p, [at |-> "save", queue |-> <<p>>, signal |-> {}])
    /\ UNCHANGED <<online, trades, stored, closing>>

(* The containers are copied under the lock and written without it. *)
SaveRead(p) ==
    /\ At(p, "save")
    /\ task[p].queue # <<>>
    /\ Head(task[p].queue) \in online
    /\ Continue(p, [at     |-> "write",
                    queue  |-> task[p].queue,
                    signal |-> task[p].signal,
                    read   |-> containers[Head(task[p].queue)]])
    /\ UNCHANGED <<online, trades, containers, stored, closing, spent>>

(* After a trade a failed write is only reported. *)
SaveWrite(p) ==
    /\ At(p, "write")
    /\ \/ stored' = [stored EXCEPT ![Head(task[p].queue)] = task[p].read]
       \/ task[p].signal # {} /\ UNCHANGED stored
    /\ Continue(p, [at     |-> "save",
                    queue  |-> Tail(task[p].queue),
                    signal |-> task[p].signal])
    /\ UNCHANGED <<online, trades, containers, closing, spent>>

SaveDone(p) ==
    /\ At(p, "save")
    /\ task[p].queue = <<>>
    /\ closing' = closing \cup task[p].signal
    /\ Continue(p, Idle)
    /\ UNCHANGED <<online, trades, containers, stored, spent>>

(* A logout, a dead socket or an error: the player leaves the world and its *)
(* trades stay.                                                             *)
SessionEnds(p) ==
    /\ p \in online
    /\ spent.ends < MaxEnds
    /\ spent' = [spent EXCEPT !.ends = @ + 1]
    /\ online' = online \ {p}
    /\ containers' = [containers EXCEPT ![p] = NoContainers]
    /\ Continue(p, Idle)
    /\ UNCHANGED <<trades, stored, closing>>

(* The containers are loaded before the player is registered, and handed to *)
(* the world after it.                                                      *)
LoginRead(p) ==
    /\ p \notin online
    /\ At(p, "idle")
    /\ spent.logins < MaxLogins
    /\ spent' = [spent EXCEPT !.logins = @ + 1]
    /\ Continue(p, [at |-> "login", read |-> stored[p]])
    /\ UNCHANGED <<online, trades, containers, stored, closing>>

LoginRegister(p) ==
    /\ At(p, "login")
    /\ online' = online \cup {p}
    /\ Continue(p, [task[p] EXCEPT !.at = "hydrate"])
    /\ UNCHANGED <<trades, containers, stored, closing, spent>>

LoginHydrate(p) ==
    /\ At(p, "hydrate")
    /\ containers' = [containers EXCEPT ![p] = task[p].read]
    /\ Continue(p, Idle)
    /\ UNCHANGED <<online, trades, stored, closing, spent>>

----------------------------------------------------------------------------
Indices == UNION {1..Capacity[c] : c \in ContainerIds}

References(p) ==
    {r \in [container : ContainerIds, index : Indices] : Has(containers, p, r)}

RequestStep(p) ==
    \/ \E q \in Players, r \in References(p) : RequestResolve(p, q, r)
    \/ RequestProbe(p)
    \/ RequestOpen(p)
    \/ RequestStage(p)

AcceptStep(p) ==
    \/ Accept(p)
    \/ ShowWindows(p)
    \/ Execute(p)
    \/ ExecuteFails(p)

OwnStep(p) ==
    \/ Reject(p)
    \/ CloseWindow(p)
    \/ \E r \in References(p), c \in ContainerIds : MoveOwn(p, r, c)
    \/ SaveRead(p)
    \/ SaveWrite(p)
    \/ SaveDone(p)

SessionStep(p) ==
    \/ SessionEnds(p)
    \/ LoginRead(p)
    \/ LoginRegister(p)
    \/ LoginHydrate(p)

Next == \E p \in Players :
           RequestStep(p) \/ AcceptStep(p) \/ OwnStep(p) \/ SessionStep(p)

Spec == Init /\ [][Next]_vars

----------------------------------------------------------------------------
(* Properties *)

(* The maps and the threads keep their shapes and no container overflows. *)
TypeOK ==
    /\ online \subseteq Players
    /\ Initiators \subseteq Players
    /\ \A i \in Initiators :
          /\ trades[i] \in TradeSession
          /\ Len(trades[i].initiatorItems) <= MaxPerSide
          /\ Len(trades[i].counterpartyItems) <= MaxPerSide
    /\ \A p \in Players :
          /\ stored[p] \in Inventory \cup {NoContainers}
          /\ containers[p] \in Inventory \cup {NoContainers}
          /\ \A c \in DOMAIN containers[p] : Len(containers[p][c]) <= Capacity[c]
          /\ \A c \in DOMAIN stored[p] : Len(stored[p][c]) <= Capacity[c]
          /\ task[p] \in Task
    /\ closing \subseteq Players
    /\ spent \in [opens : 0..MaxOpens, moves : 0..MaxMoves,
                  ends : 0..MaxEnds, logins : 0..MaxLogins]

(* An acceptance that counts was given to the offer of the other side as it *)
(* stands: nobody adds to an offer behind an acceptance.                    *)
AcceptanceOfCurrentOffer ==
    \A i \in Initiators :
        /\ trades[i].initiatorAccepted
              => trades[i].initiatorSaw = trades[i].counterpartyItems
        /\ trades[i].counterpartyAccepted
              => trades[i].counterpartySaw = trades[i].initiatorItems

Held(inv, p) == UNION {Range(inv[p][c]) : c \in DOMAIN inv[p]}

Place == [owner : Players, container : ContainerIds, index : Indices]

Copies(inv, item) ==
    {s \in Place : /\ Has(inv, s.owner, s)
                   /\ ItemAt(inv, s.owner, s) = item}

(* Goods pass from one player to another only while both have accepted the *)
(* trade between them, in the very step that swaps.                        *)
GoodsPassByAgreement ==
    [][containers' # containers =>
        \A p, q \in Players : p # q =>
          \A item \in Held(containers, p) \ Held(containers, q) :
              item \in Held(containers', q) \ Held(containers', p) =>
                  \E i \in {p, q} \cap Initiators :
                      /\ {i, trades[i].counterparty} = {p, q}
                      /\ trades[i].initiatorAccepted
                      /\ trades[i].counterpartyAccepted]_vars

Executed(p) == At(p, "execute") /\ task'[p].at = "save"

(* Goods are kept, however a swap fails and whatever is done meanwhile.  No *)
(* step but the hydration of a login puts an item of the live world into a  *)
(* second place ("anti-dupe"), and a completed swap loses nothing: what the *)
(* two traders hold together is what they held before.                      *)
GoodsAreKept ==
    [][/\ containers' # containers =>
              \/ \E p \in Players : At(p, "hydrate") /\ task'[p] = Idle
              \/ \A item \in Items : Cardinality(Copies(containers', item))
                                       <= Cardinality(Copies(containers, item))
       /\ \A p \in Players : Executed(p) =>
              LET i == KeyOf(p)
                  c == trades[i].counterparty
              IN  Held(containers', i) \cup Held(containers', c)
                    = Held(containers, i) \cup Held(containers, c)]_vars

(* What each side parts with in a swap is what the references it staged *)
(* pointed to.                                                          *)
SwapTakesTheOffer ==
    [][\A p \in Players : Executed(p) =>
          LET i == KeyOf(p)
              c == trades[i].counterparty
          IN  /\ Held(containers', c) \ Held(containers, c)
                    = {ItemAt(containers, i, r) : r \in Range(trades[i].initiatorItems)}
              /\ Held(containers', i) \ Held(containers, i)
                    = {ItemAt(containers, c, r) : r \in Range(trades[i].counterpartyItems)}]_vars
=============================================================================
