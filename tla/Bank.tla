-------------------------------- MODULE Bank --------------------------------
(****************************************************************************)
(* Goods and gold: bank, shops, gifts, loot shares, rewards, trades and the *)
(* player's own moves on the same inventories.                              *)
(*                                                                          *)
(* Nearly all of them work on a copy: they clone equipment and containers   *)
(* under one lock each, change the clones, write them to the database and   *)
(* put them back into the world under later locks.  A few change the world  *)
(* first and store afterwards.  Each lock and each transaction is a step.   *)
(*                                                                          *)
(* What a player wears and carries is counted by kind; a kind takes one     *)
(* slot of the containers and stacks never fill.  A traded stack is of one  *)
(* side only, the other side gives nothing.  Distances to NPCs, weights and *)
(* catalogues, which only refuse a deal, are left out, and so are the rows  *)
(* of quests.                                                               *)
(****************************************************************************)
EXTENDS Integers, Sequences, FiniteSets, FiniteSetsExt

CONSTANTS Players,       \* character ids
          Sessions,      \* connections
          Owner,         \* the character each connection asks for
          Operator,      \* the thread of the operator bridge
          Things,        \* kinds of items
          Coin,          \* the one that is gold
          Price,         \* what a unit of anything else costs and fetches
          Slots,         \* free slots of the containers of a player
          Stock,         \* the stored goods of each player at first
          Savings,       \* the bank balance of each player at first
          MaxUnits,      \* bound: units of a deal or a gift
          MaxDealings,   \* bound: deals, gifts, trades and moves altogether
          MaxLogins      \* bound: login attempts

Threads == Sessions \cup {Operator}
Counts == [Things -> Nat]
Goods == [worn : Counts, bags : Counts]

ASSUME BankAssumption ==
    /\ IsFiniteSet(Players) /\ Players # {} /\ Owner \in [Sessions -> Players]
    /\ Operator \notin Sessions
    /\ IsFiniteSet(Things) /\ Coin \in Things
    /\ {Price, Slots} \subseteq Nat \ {0}
    /\ Stock \in [Players -> Goods]
    /\ Savings \in [Players -> Nat]
    /\ {MaxUnits, MaxDealings, MaxLogins} \subseteq Nat

VARIABLES
    online,    \* the players WorldState knows
    live,      \* their equipment and containers
    rows,      \* the same in the database
    balance,   \* players.bank_balance
    task,      \* what each thread is in the middle of
    receipts,  \* the balance by the replies a player was given
    granted,   \* worth of what was given to and taken from the players
    harm,      \* what has gone wrong so far
    spent      \* how often the bounded operations happened

vars == <<online, live, rows, balance, task, receipts, granted, harm, spent>>

----------------------------------------------------------------------------
(* Types *)

LoggingIn == {"readbags", "register", "wear", "pack"}
Dealing == {"copybags", "settle", "store", "storeworn", "storebags", "putworn", "putbags"}
Giving == {"fetch", "grant", "deliver", "hand", "storehanded"}
Saving == {"save", "write"}

Stages == {"off", "idle"} \cup LoggingIn \cup Dealing \cup Giving \cup Saving

BankDeals == {"deposit", "withdraw", "buy", "sell"}
Kinds == BankDeals \cup {"none", "remove", "giftlive", "giftstored", "loot", "reward",
                         "swap", "move"}

Empty == [worn |-> [x \in Things |-> 0], bags |-> [x \in Things |-> 0]]

(* Goods of who are copied, sum is a balance to be written, todo the players *)
(* whose goods are still to be stored.                                       *)
Task == [at : Stages, kind : Kinds, who : Players, thing : Things, n : Nat,
         goods : Goods, sum : Nat, todo : Seq(Players)]

Doing(at, p) == [at |-> at, kind |-> "none", who |-> p, thing |-> Coin, n |-> 0,
                 goods |-> Empty, sum |-> 0, todo |-> <<>>]

Bounded == {"dealings", "logins"}

TypeOK ==
    /\ online \subseteq Players
    /\ live \in [Players -> Goods]
    /\ rows \in [Players -> Goods]
    /\ balance \in [Players -> Nat]
    /\ task \in [Threads -> Task]
    /\ \A s \in Sessions : task[s].at \in LoggingIn \cup Dealing => task[s].who = Owner[s]
    /\ receipts \in [Players -> Int]
    /\ granted \in Int
    /\ harm \subseteq {"crossed", "unsaved"}
    /\ spent \in [Bounded -> Nat]

----------------------------------------------------------------------------
(* Goods *)

(* merge_or_insert_stack: a kind that is not there yet needs a free slot. *)
Fits(bags) == Cardinality({x \in Things : bags[x] > 0}) <= Slots

Received(g, x, n) == [g EXCEPT !.bags[x] = @ + n]

(* Mutant of Parted: what is worn is counted and stays. *)
PartedBags(g, x, n) ==
    LET worn == IF g.worn[x] < n THEN g.worn[x] ELSE n
    IN  [g EXCEPT !.bags[x] = @ - (n - worn)]

(* Equipment is drained before containers. *)
Parted(g, x, n) ==
    LET worn == IF g.worn[x] < n THEN g.worn[x] ELSE n
    IN  [g EXCEPT !.worn[x] = @ - worn, !.bags[x] = @ - (n - worn)]

Total(g, x) == g.worn[x] + g.bags[x]
Worth(x) == IF x = Coin THEN 1 ELSE Price
Value(g) == MapThenSumSet(LAMBDA x : Worth(x) * Total(g, x), Things)

(* What a deal makes of the goods, and what it adds to the balance. *)
After(d) ==
    CASE d.kind = "deposit"            -> Parted(d.goods, Coin, Total(d.goods, Coin))
      [] d.kind = "withdraw"           -> Received(d.goods, Coin, d.n)
      [] d.kind = "buy"                -> Received(d.goods, d.thing, d.n)
      [] d.kind \in {"sell", "remove"} -> Parted(d.goods, d.thing, d.n)

Credit(d) ==
    CASE d.kind = "deposit"  -> Total(d.goods, Coin)
      [] d.kind = "withdraw" -> 0 - d.n
      [] d.kind = "buy"      -> 0 - Price * d.n
      [] d.kind = "sell"     -> Price * d.n
      [] d.kind = "remove"   -> 0

(* Mutant of Allowed: nobody asks what the account holds. *)
AllowedOnCredit(d) ==
    CASE d.kind = "deposit"              -> Credit(d) > 0
      [] d.kind \in {"withdraw", "buy"} -> Fits(After(d).bags)
      [] d.kind \in {"sell", "remove"}  -> Total(d.goods, d.thing) >= d.n

Allowed(d) ==
    CASE d.kind = "deposit"              -> Credit(d) > 0
      [] d.kind \in {"withdraw", "buy"} -> balance[d.who] + Credit(d) >= 0 /\ Fits(After(d).bags)
      [] d.kind \in {"sell", "remove"}  -> Total(d.goods, d.thing) >= d.n

----------------------------------------------------------------------------
(* Who works on whose goods *)

(* From the first read or change of somebody's goods to the last write a *)
(* thread relies on nobody else changing them.                           *)
Holds(t) ==
    CASE task[t].at \in {"off", "idle"} -> {}
      [] task[t].at \in Saving -> {task[t].todo[i] : i \in DOMAIN task[t].todo}
      [] OTHER -> {task[t].who}

Crossed(t, S) == \E u \in Threads \ {t} : Holds(u) \cap S # {}

(* Thread t changes goods of the players S, or brings them in or out. *)
Touches(t, S) == harm' = IF Crossed(t, S) THEN harm \cup {"crossed"} ELSE harm

(* The containers of a player are there only after its hydration. *)
Packed(p) == \E s \in Sessions :
                Owner[s] = p /\ task[s].at \notin {"off"} \cup LoggingIn

Spend(b, bound) == spent[b] < bound /\ spent' = [spent EXCEPT ![b] = @ + 1]

Becomes(t, new) == task' = [task EXCEPT ![t] = new]
Goto(t, stage) == task' = [task EXCEPT ![t].at = stage]
Rests(t) == Becomes(t, Doing("idle", task[t].who))

Init ==
    /\ online = {}
    /\ live = [p \in Players |-> Empty]
    /\ rows = Stock
    /\ balance = Savings
    /\ task = [t \in Threads |-> IF t = Operator THEN Doing("idle", CHOOSE p \in Players : TRUE)
                                                ELSE Doing("off", Owner[t])]
    /\ receipts = Savings
    /\ granted = 0
    /\ harm = {}
    /\ spent = [b \in Bounded |-> 0]

----------------------------------------------------------------------------
(* Sessions come and go *)

(* Equipment and containers are read before the registration, each under a *)
(* transaction of its own.                                                 *)
ReadWorn(s) ==
    /\ task[s].at = "off"
    /\ Becomes(s, [Doing("readbags", Owner[s]) EXCEPT !.goods.worn = rows[Owner[s]].worn])
    /\ UNCHANGED <<online, live, rows, balance, receipts, granted, harm>>
    /\ Spend("logins", MaxLogins)

ReadBags(s) ==
    /\ task[s].at = "readbags"
    /\ task' = [task EXCEPT ![s].at = "register", ![s].goods.bags = rows[Owner[s]].bags]
    /\ UNCHANGED <<online, live, rows, balance, receipts, granted, harm, spent>>

(* Mutant of Register: a character that is in the world is let in again. *)
RegisterTwice(s) ==
    /\ task[s].at = "register"
    /\ online' = online \cup {Owner[s]}
    /\ live' = [live EXCEPT ![Owner[s]] = Empty]
    /\ Goto(s, "wear")
    /\ Touches(s, {Owner[s]})
    /\ UNCHANGED <<rows, balance, receipts, granted, spent>>

(* The player enters the world with nothing. *)
Register(s) ==
    /\ task[s].at = "register"
    /\ Owner[s] \notin online
    /\ online' = online \cup {Owner[s]}
    /\ live' = [live EXCEPT ![Owner[s]] = Empty]
    /\ Goto(s, "wear")
    /\ Touches(s, {Owner[s]})
    /\ UNCHANGED <<rows, balance, receipts, granted, spent>>

(* "Character is already active in the shared world." *)
Refused(s) ==
    /\ task[s].at = "register"
    /\ Owner[s] \in online
    /\ Becomes(s, Doing("off", Owner[s]))
    /\ UNCHANGED <<online, live, rows, balance, receipts, granted, harm, spent>>

Wear(s) ==
    /\ task[s].at = "wear"
    /\ live' = [live EXCEPT ![Owner[s]].worn = task[s].goods.worn]
    /\ Goto(s, "pack")
    /\ Touches(s, {Owner[s]})
    /\ UNCHANGED <<online, rows, balance, receipts, granted, spent>>

Pack(s) ==
    /\ task[s].at = "pack"
    /\ live' = [live EXCEPT ![Owner[s]].bags = task[s].goods.bags]
    /\ Rests(s)
    /\ Touches(s, {Owner[s]})
    /\ UNCHANGED <<online, rows, balance, receipts, granted, spent>>

(* The stages at which the world already has what the rows have not. *)
Unsaved == {"storehanded"} \cup Saving

(* Where an error can end a session: it logs out or loses its client, a       *)
(* transaction fails, or a player it looks for is gone.  Putting a clone back *)
(* cannot fail as long as the player is in the world.                         *)
MayFail(t) ==
    LET gone == task[t].who \notin online
    IN  CASE task[t].at \in {"idle", "readbags", "register", "settle", "store", "storeworn",
                             "storebags", "grant", "storehanded"} -> TRUE
          [] task[t].at = "fetch" -> gone \/ task[t].kind = "giftstored"
          [] task[t].at \in {"deliver", "hand"} -> gone
          [] task[t].at = "save" -> Head(task[t].todo) \notin online
          [] task[t].at = "write" -> task[t].kind # "swap"
          [] OTHER -> FALSE

End(s) ==
    /\ MayFail(s)
    /\ Becomes(s, Doing("off", Owner[s]))
    /\ IF task[s].at \in {"readbags", "register"}
       THEN UNCHANGED <<online, live, harm>>
       ELSE /\ online' = online \ {Owner[s]}
            /\ live' = [live EXCEPT ![Owner[s]] = Empty]
            /\ harm' = harm \cup (IF Crossed(s, {Owner[s]}) THEN {"crossed"} ELSE {})
                            \cup (IF task[s].at \in Unsaved THEN {"unsaved"} ELSE {})
    /\ UNCHANGED <<rows, balance, receipts, granted, spent>>

----------------------------------------------------------------------------
(* Deals with the bank and the shops, and items a script removes *)

Begin(s, kind, x, n) ==
    /\ task[s].at = "idle"
    /\ IF kind \in {"deposit", "withdraw"} THEN x = Coin ELSE kind = "remove" \/ x # Coin
    /\ Becomes(s, [Doing("copybags", Owner[s]) EXCEPT
                      !.kind = kind, !.thing = x, !.n = n,
                      !.goods = [worn |-> live[Owner[s]].worn, bags |-> Empty.bags]])
    /\ UNCHANGED <<online, live, rows, balance, receipts, granted, harm>>
    /\ Spend("dealings", MaxDealings)

CopyBags(s) ==
    /\ task[s].at = "copybags"
    /\ task' = [task EXCEPT ![s].at = "settle", ![s].goods.bags = live[Owner[s]].bags]
    /\ UNCHANGED <<online, live, rows, balance, receipts, granted, harm, spent>>

(* The balance is read, the deal decided, and the new balance computed. *)
Settle(s) ==
    /\ task[s].at = "settle"
    /\ \/ /\ Allowed(task[s])
          /\ task' = [task EXCEPT
                         ![s].at = IF task[s].kind = "remove" THEN "storeworn" ELSE "store",
                         ![s].sum = balance[Owner[s]] + Credit(task[s])]
       \/ ~Allowed(task[s]) /\ Rests(s)
    /\ UNCHANGED <<online, live, rows, balance, receipts, granted, harm, spent>>

(* replace_player_inventory_and_bank_balance *)
StoreDeal(s) ==
    /\ task[s].at = "store"
    /\ rows' = [rows EXCEPT ![Owner[s]] = After(task[s])]
    /\ balance' = [balance EXCEPT ![Owner[s]] = task[s].sum]
    /\ receipts' = [receipts EXCEPT ![Owner[s]] = @ + Credit(task[s])]
    /\ Goto(s, "putworn")
    /\ Touches(s, {Owner[s]})
    /\ UNCHANGED <<online, live, granted, spent>>

(* A script's removal is stored by two transactions. *)
StoreWorn(s) ==
    /\ task[s].at = "storeworn"
    /\ rows' = [rows EXCEPT ![Owner[s]].worn = After(task[s]).worn]
    /\ granted' = granted - Worth(task[s].thing)
                     * (task[s].goods.worn[task[s].thing] - After(task[s]).worn[task[s].thing])
    /\ Goto(s, "storebags")
    /\ Touches(s, {Owner[s]})
    /\ UNCHANGED <<online, live, balance, receipts, spent>>

StoreBags(s) ==
    /\ task[s].at = "storebags"
    /\ rows' = [rows EXCEPT ![Owner[s]].bags = After(task[s]).bags]
    /\ granted' = granted - Worth(task[s].thing)
                     * (task[s].goods.bags[task[s].thing] - After(task[s]).bags[task[s].thing])
    /\ Goto(s, "putworn")
    /\ Touches(s, {Owner[s]})
    /\ UNCHANGED <<online, live, balance, receipts, spent>>

PutWorn(s) ==
    /\ task[s].at = "putworn"
    /\ live' = [live EXCEPT ![Owner[s]].worn = After(task[s]).worn]
    /\ Goto(s, "putbags")
    /\ Touches(s, {Owner[s]})
    /\ UNCHANGED <<online, rows, balance, receipts, granted, spent>>

PutBags(s) ==
    /\ task[s].at = "putbags"
    /\ live' = [live EXCEPT ![Owner[s]].bags = After(task[s]).bags]
    /\ Rests(s)
    /\ Touches(s, {Owner[s]})
    /\ UNCHANGED <<online, rows, balance, receipts, granted, spent>>

----------------------------------------------------------------------------
(* Gifts of operators and game masters: the row first, then the world *)

Gift(t) == Received(task[t].goods, task[t].thing, task[t].n)

LookUp(t, p, x, n) ==
    /\ task[t].at = "idle"
    /\ Becomes(t, [Doing("fetch", p) EXCEPT
                      !.kind = IF p \in online THEN "giftlive" ELSE "giftstored",
                      !.thing = x, !.n = n])
    /\ UNCHANGED <<online, live, rows, balance, receipts, granted, harm>>
    /\ Spend("dealings", MaxDealings)

(* "Target has no container space." *)
Fetch(t) ==
    LET p == task[t].who
        bags == IF task[t].kind = "giftlive" THEN live[p].bags ELSE rows[p].bags
        room == /\ task[t].kind = "giftlive" => Packed(p)
                /\ Fits([bags EXCEPT ![task[t].thing] = @ + task[t].n])
    IN  /\ task[t].at = "fetch"
        /\ task[t].kind = "giftlive" => p \in online
        /\ \/ room /\ task' = [task EXCEPT ![t].at = "grant", ![t].goods.bags = bags]
           \/ ~room /\ Rests(t)
        /\ UNCHANGED <<online, live, rows, balance, receipts, granted, harm, spent>>

(* Mutant of Grant: only the world learns of a gift to a player of the world. *)
GrantUnstored(t) ==
    /\ task[t].at = "grant"
    /\ rows' = IF task[t].kind = "giftlive" THEN rows
               ELSE [rows EXCEPT ![task[t].who].bags = Gift(t).bags]
    /\ granted' = granted + Worth(task[t].thing) * task[t].n
    /\ IF task[t].kind = "giftlive" THEN Goto(t, "deliver") ELSE Rests(t)
    /\ Touches(t, {task[t].who})
    /\ UNCHANGED <<online, live, balance, receipts, spent>>

Grant(t) ==
    /\ task[t].at = "grant"
    /\ rows' = [rows EXCEPT ![task[t].who].bags = Gift(t).bags]
    /\ granted' = granted + Worth(task[t].thing) * task[t].n
    /\ IF task[t].kind = "giftlive" THEN Goto(t, "deliver") ELSE Rests(t)
    /\ Touches(t, {task[t].who})
    /\ UNCHANGED <<online, live, balance, receipts, spent>>

Deliver(t) ==
    /\ task[t].at = "deliver"
    /\ task[t].who \in online
    /\ live' = [live EXCEPT ![task[t].who].bags = Gift(t).bags]
    /\ Rests(t)
    /\ Touches(t, {task[t].who})
    /\ UNCHANGED <<online, rows, balance, receipts, granted, spent>>

(* The bridge answers with a failure: the transaction failed or the target *)
(* has left meanwhile.  The session of a game master ends instead.         *)
GiftFails ==
    /\ task[Operator].at # "idle"
    /\ MayFail(Operator)
    /\ Rests(Operator)
    /\ UNCHANGED <<online, live, rows, balance, receipts, granted, harm, spent>>

----------------------------------------------------------------------------
(* Loot shares and rewards: the world first, then the row *)

Offer(s, p, kind, x, n) ==
    /\ task[s].at = "idle"
    /\ Packed(p)
    /\ Fits(Received(live[p], x, n).bags)
    /\ Becomes(s, [Doing("hand", p) EXCEPT
                      !.kind = kind, !.thing = x, !.n = n, !.goods = live[p]])
    /\ UNCHANGED <<online, live, rows, balance, receipts, granted, harm>>
    /\ Spend("dealings", MaxDealings)

(* A loot share stores the clone, a reward what the world has by then. *)
Hand(s) ==
    /\ task[s].at = "hand"
    /\ task[s].who \in online
    /\ live' = [live EXCEPT ![task[s].who].bags = Gift(s).bags]
    /\ granted' = granted + Worth(task[s].thing) * task[s].n
    /\ IF task[s].kind = "loot" THEN Goto(s, "storehanded")
       ELSE task' = [task EXCEPT ![s].at = "save", ![s].todo = <<task[s].who>>]
    /\ Touches(s, {task[s].who})
    /\ UNCHANGED <<online, rows, balance, receipts, spent>>

StoreHanded(s) ==
    /\ task[s].at = "storehanded"
    /\ rows' = [rows EXCEPT ![task[s].who].bags = Gift(s).bags]
    /\ Rests(s)
    /\ Touches(s, {task[s].who})
    /\ UNCHANGED <<online, live, balance, receipts, granted, spent>>

----------------------------------------------------------------------------
(* Trades and own moves: the world in one step, then the rows *)

(* execute_player_trade, by the session of either side. *)
Swap(s, from, to, x, todo) ==
    /\ task[s].at = "idle"
    /\ from # to /\ Owner[s] \in {from, to}
    /\ Packed(from) /\ Packed(to)
    /\ live[from].bags[x] > 0
    /\ LET n == live[from].bags[x]
       IN  /\ Fits(Received(live[to], x, n).bags)
           /\ live' = [live EXCEPT ![from].bags[x] = 0, ![to].bags[x] = @ + n]
    /\ Becomes(s, [Doing("save", Owner[s]) EXCEPT !.kind = "swap", !.todo = todo])
    /\ Touches(s, {from, to})
    /\ UNCHANGED <<online, rows, balance, receipts, granted>>
    /\ Spend("dealings", MaxDealings)

(* A stack moves between the equipment and the containers of a player. *)
Move(s, x) ==
    LET p == Owner[s]
        g == live[p]
    IN  /\ task[s].at = "idle"
        /\ \/ /\ g.worn[x] > 0 /\ Fits(Received(g, x, g.worn[x]).bags)
              /\ live' = [live EXCEPT ![p].worn[x] = 0, ![p].bags[x] = @ + g.worn[x]]
           \/ /\ g.bags[x] > 0
              /\ live' = [live EXCEPT ![p].bags[x] = 0, ![p].worn[x] = @ + g.bags[x]]
        /\ Becomes(s, [Doing("save", p) EXCEPT !.kind = "move", !.todo = <<p>>])
        /\ Touches(s, {p})
        /\ UNCHANGED <<online, rows, balance, receipts, granted>>
        /\ Spend("dealings", MaxDealings)

Saved(t) == Head(task[t].todo)

SaveRead(s) ==
    /\ task[s].at = "save"
    /\ Saved(s) \in online
    /\ task' = [task EXCEPT ![s].at = "write", ![s].goods = live[Saved(s)]]
    /\ UNCHANGED <<online, live, rows, balance, receipts, granted, harm, spent>>

NextSave(s) ==
    IF Len(task[s].todo) = 1 THEN Rests(s)
    ELSE task' = [task EXCEPT ![s].at = "save", ![s].todo = Tail(@)]

(* Only a move of the player's own stores the equipment, too. *)
SaveWrite(s) ==
    /\ task[s].at = "write"
    /\ rows' = [rows EXCEPT
                   ![Saved(s)] = IF task[s].kind = "move" THEN task[s].goods
                                 ELSE [@ EXCEPT !.bags = task[s].goods.bags]]
    /\ NextSave(s)
    /\ Touches(s, {Saved(s)})
    /\ UNCHANGED <<online, live, balance, receipts, granted, spent>>

(* "trade persistence failed" is logged and the thread goes on. *)
SaveLost(s) ==
    /\ task[s].at = "write" /\ task[s].kind = "swap"
    /\ NextSave(s)
    /\ harm' = harm \cup {"unsaved"}
    /\ UNCHANGED <<online, live, rows, balance, receipts, granted, spent>>

----------------------------------------------------------------------------

Login(s) == ReadWorn(s) \/ ReadBags(s) \/ Register(s) \/ Refused(s) \/ Wear(s) \/ Pack(s)

Deal(s) == \/ \E kind \in BankDeals \cup {"remove"}, x \in Things, n \in 1..MaxUnits :
                  Begin(s, kind, x, n)
           \/ CopyBags(s) \/ Settle(s) \/ StoreDeal(s) \/ StoreWorn(s) \/ StoreBags(s)
           \/ PutWorn(s) \/ PutBags(s)

Give(t) == \/ \E p \in Players, x \in Things, n \in 1..MaxUnits : LookUp(t, p, x, n)
           \/ Fetch(t) \/ Grant(t) \/ Deliver(t)

Handing(s) == \/ \E p \in Players, kind \in {"loot", "reward"}, x \in Things, n \in 1..MaxUnits :
                     Offer(s, p, kind, x, n)
              \/ Hand(s) \/ StoreHanded(s)

Moving(s) == \/ \E from, to \in Players, x \in Things : \E todo \in {<<from, to>>, <<to, from>>} :
                    Swap(s, from, to, x, todo)
             \/ \E x \in Things : Move(s, x)
             \/ SaveRead(s) \/ SaveWrite(s) \/ SaveLost(s)

Next == \/ \E s \in Sessions : Login(s) \/ End(s) \/ Deal(s) \/ Handing(s) \/ Moving(s)
        \/ \E t \in Threads : Give(t)
        \/ GiftFails

Spec == Init /\ [][Next]_vars

----------------------------------------------------------------------------
(* Properties *)

(* Where the goods of a player count: a deal counts from its transaction on, *)
(* a gift from its row on, everything else when the world has it.            *)
Settling(p) == {t \in Threads : task[t].who = p
                                  /\ task[t].at \in {"storebags", "putworn", "putbags", "deliver"}}

Belongings(p) ==
    IF Settling(p) # {}
    THEN LET t == CHOOSE t \in Settling(p) : TRUE
         IN  CASE task[t].at = "deliver"   -> [live[p] EXCEPT !.bags = Gift(t).bags]
               [] task[t].at = "storebags" -> [live[p] EXCEPT !.worn = After(task[t]).worn]
               [] OTHER                    -> After(task[t])
    ELSE IF Packed(p) THEN live[p] ELSE rows[p]

Wealth == MapThenSumSet(LAMBDA p : Value(Belongings(p)) + balance[p], Players)
FirstWealth == MapThenSumSet(LAMBDA p : Value(Stock[p]) + Savings[p], Players)

(* The balance of an account is what the replies of the bank and the shops   *)
(* add up to: it is read and written by two transactions with nothing held   *)
(* in between, and only the one session of the character keeps others away.  *)
BalanceIsReceipts == balance = receipts

(* Gold and goods are neither made nor lost as long as nobody works on goods *)
(* another thread has a copy of and no save fails after the world changed:   *)
(* whatever is refused, whichever session ends at which step and logs in     *)
(* again, deals, gifts, trades and moves add up.                             *)
WealthIsKept == harm = {} => Wealth = FirstWealth + granted

(* Under the same premise a stop of the server costs nobody anything: the    *)
(* rows of a player nobody is at work on are what the world has.             *)
RowsKeepUp ==
    harm = {} => \A p \in Players :
        Packed(p) /\ (\A t \in Threads : p \notin Holds(t)) => rows[p] = live[p]
=============================================================================
