---------------------------- MODULE Bank_proofs ----------------------------
(****************************************************************************)
(* Bank, in two parts.                                                      *)
(*                                                                          *)
(* Types and the balance of the accounts: that no count of goods and no     *)
(* balance falls below zero rests on what a thread has checked on its own   *)
(* copy; that the balance it stores is the one it has read rests on the     *)
(* registration, which lets one session of a character in.                  *)
(*                                                                          *)
(* What everybody owns: a thread that deals changes the world, the rows and *)
(* the account one after the other, from copies it made before it let go of *)
(* the locks; Estate is the side of a player's goods that is ahead while it *)
(* does so.  As long as no recorded flaw has struck, a copy is what the     *)
(* world or the rows still have (CopiesMatch), who is handed something      *)
(* stays until it is stored (TargetsStay), one thread at a time has changed *)
(* one side of a player's goods only (OneAtATime), and the goods of all     *)
(* others are stored (OthersStored).  Each step then moves worth between    *)
(* estates and accounts, or grants it.  Wealth is a fold over the players;  *)
(* folds are taken apart along the well-founded order of finite sets.       *)
(****************************************************************************)
EXTENDS Bank, SequenceTheorems, FiniteSetTheorems, WellFoundedInduction, TLAPS

----------------------------------------------------------------------------
(* Types and balances *)

Deals == BankDeals \cup {"remove"}

(* The stages of a deal that has been decided. *)
Decided == {"store", "storeworn", "storebags", "putworn", "putbags"}

(* What a thread may be in the middle of. *)
TaskOK(t, d) ==
    /\ d \in Task
    /\ t \in Sessions /\ d.at \in LoggingIn \cup Dealing => d.who = Owner[t]
    /\ d.at \in Dealing => d.kind \in Deals
    /\ d.at \in Decided => After(d) \in Goods
    /\ d.at \in Saving => d.todo # <<>>

Tasks ==
    /\ task \in [Threads -> Task]
    /\ \A t \in Threads : TaskOK(t, task[t])

(* Everything that is counted. *)
Ledgers ==
    /\ online \subseteq Players
    /\ live \in [Players -> Goods]
    /\ rows \in [Players -> Goods]
    /\ balance \in [Players -> Nat]
    /\ receipts \in [Players -> Int]
    /\ granted \in Int

Notes ==
    /\ harm \subseteq {"crossed", "unsaved"}
    /\ spent \in [Bounded -> Nat]

Sound == Tasks /\ Ledgers /\ Notes

----------------------------------------------------------------------------
(* Goods *)

LEMMA CountsField == ASSUME NEW c \in Counts, NEW x \in Things PROVE c[x] \in Nat
BY DEF Counts

LEMMA CountsChanged ==
  ASSUME NEW c \in Counts, NEW x, NEW n \in Nat
  PROVE  [c EXCEPT ![x] = n] \in Counts
BY DEF Counts

LEMMA GoodsFields ==
  ASSUME NEW g \in Goods
  PROVE  g.worn \in Counts /\ g.bags \in Counts
BY DEF Goods

LEMMA GoodsChanged ==
  ASSUME NEW g \in Goods, NEW c \in Counts
  PROVE  [g EXCEPT !.worn = c] \in Goods /\ [g EXCEPT !.bags = c] \in Goods
BY DEF Goods

LEMMA EmptyType == Empty \in Goods /\ Empty.worn \in Counts /\ Empty.bags \in Counts
BY DEF Empty, Goods, Counts

LEMMA TotalType ==
  ASSUME NEW g \in Goods, NEW x \in Things
  PROVE  Total(g, x) \in Nat
BY GoodsFields, CountsField DEF Total

LEMMA WorthType == ASSUME NEW x PROVE Worth(x) \in Nat
BY BankAssumption DEF Worth

LEMMA ReceivedType ==
  ASSUME NEW g \in Goods, NEW x \in Things, NEW n \in Nat
  PROVE  Received(g, x, n) \in Goods
<1> DEFINE c == [g.bags EXCEPT ![x] = g.bags[x] + n]
<1>1. c \in Counts
  <2>1. g.bags \in Counts /\ g.bags[x] + n \in Nat
    BY GoodsFields, CountsField
  <2> QED
    BY <2>1, CountsChanged
<1>2. Received(g, x, n) = [g EXCEPT !.bags = c]
  BY DEF Received
<1> HIDE DEF c
<1> QED
  BY <1>1, <1>2, GoodsChanged

(* What is there can be taken: worn units first, then carried ones. *)
LEMMA PartedType ==
  ASSUME NEW g \in Goods, NEW x \in Things, NEW n \in Nat, n <= Total(g, x)
  PROVE  Parted(g, x, n) \in Goods
<1> DEFINE worn == IF g.worn[x] < n THEN g.worn[x] ELSE n
           c == [g.worn EXCEPT ![x] = g.worn[x] - worn]
           d == [g.bags EXCEPT ![x] = g.bags[x] - (n - worn)]
           h == [g EXCEPT !.worn = c]
<1>1. g.worn \in Counts /\ g.bags \in Counts /\ g.worn[x] \in Nat /\ g.bags[x] \in Nat
  BY GoodsFields, CountsField
<1>2. g.worn[x] - worn \in Nat /\ g.bags[x] - (n - worn) \in Nat
  BY <1>1 DEF Total
<1>3. c \in Counts /\ d \in Counts
  BY <1>1, <1>2, CountsChanged
<1>4. h \in Goods /\ h.bags = g.bags
  <2> HIDE DEF c
  <2> QED BY <1>3 DEF Goods
<1>5. Parted(g, x, n) = [h EXCEPT !.bags = d]
  BY DEF Parted, Goods
<1> HIDE DEF c, d, h
<1> QED
  BY <1>3, <1>4, <1>5, GoodsChanged

----------------------------------------------------------------------------
(* Tasks *)

LEMMA TaskFields ==
  ASSUME NEW d \in Task
  PROVE  /\ d.at \in Stages /\ d.kind \in Kinds /\ d.who \in Players /\ d.thing \in Things
         /\ d.n \in Nat /\ d.goods \in Goods /\ d.sum \in Nat /\ d.todo \in Seq(Players)
BY DEF Task

(* One field of a task at a time. *)
LEMMA AtChanged ==
  ASSUME NEW d \in Task, NEW at \in Stages
  PROVE  LET e == [d EXCEPT !.at = at]
         IN  /\ e \in Task /\ e.at = at /\ e.kind = d.kind /\ e.who = d.who
             /\ e.thing = d.thing /\ e.n = d.n /\ e.goods = d.goods /\ e.sum = d.sum
             /\ e.todo = d.todo
BY DEF Task

LEMMA KindChanged ==
  ASSUME NEW d \in Task, NEW kind \in Kinds
  PROVE  LET e == [d EXCEPT !.kind = kind]
         IN  /\ e \in Task /\ e.at = d.at /\ e.kind = kind /\ e.who = d.who
             /\ e.thing = d.thing /\ e.n = d.n /\ e.goods = d.goods /\ e.todo = d.todo
BY DEF Task

LEMMA ThingChanged ==
  ASSUME NEW d \in Task, NEW x \in Things, NEW n \in Nat
  PROVE  LET e == [d EXCEPT !.thing = x, !.n = n]
         IN  /\ e \in Task /\ e.at = d.at /\ e.kind = d.kind /\ e.who = d.who
             /\ e.goods = d.goods /\ e.todo = d.todo
<1> DEFINE f == [d EXCEPT !.thing = x]
<1>1. /\ f \in Task /\ f.at = d.at /\ f.kind = d.kind /\ f.who = d.who
      /\ f.goods = d.goods /\ f.todo = d.todo
  BY DEF Task
<1>2. [d EXCEPT !.thing = x, !.n = n] = [f EXCEPT !.n = n]
  OBVIOUS
<1> HIDE DEF f
<1> QED
  BY <1>1, <1>2 DEF Task

LEMMA GoodsTaken ==
  ASSUME NEW d \in Task, NEW g \in Goods
  PROVE  LET e == [d EXCEPT !.goods = g]
         IN  /\ e \in Task /\ e.at = d.at /\ e.kind = d.kind /\ e.who = d.who
             /\ e.thing = d.thing /\ e.n = d.n /\ e.goods = g /\ e.todo = d.todo
BY DEF Task

LEMMA TodoChanged ==
  ASSUME NEW d \in Task, NEW todo \in Seq(Players)
  PROVE  LET e == [d EXCEPT !.todo = todo]
         IN  /\ e \in Task /\ e.at = d.at /\ e.kind = d.kind /\ e.who = d.who
             /\ e.goods = d.goods /\ e.todo = todo
BY DEF Task

LEMMA SumChanged ==
  ASSUME NEW d \in Task, NEW sum \in Nat
  PROVE  LET e == [d EXCEPT !.sum = sum]
         IN  /\ e \in Task /\ e.at = d.at /\ e.kind = d.kind /\ e.who = d.who
             /\ e.thing = d.thing /\ e.n = d.n /\ e.goods = d.goods /\ e.sum = sum
             /\ e.todo = d.todo
BY DEF Task

LEMMA DoingType ==
  ASSUME NEW at \in Stages, NEW p \in Players
  PROVE  LET e == Doing(at, p)
         IN  e \in Task /\ e.at = at /\ e.who = p /\ e.todo = <<>>
BY EmptyType, BankAssumption DEF Doing, Task, Kinds

(* What a deal comes to depends on the goods, the kind, the thing and the *)
(* number alone.                                                          *)
LEMMA DealIsKept ==
  ASSUME NEW d, NEW e, e.kind = d.kind, e.thing = d.thing, e.n = d.n, e.goods = d.goods
  PROVE  After(e) = After(d) /\ Credit(e) = Credit(d)
BY DEF After, Credit

(* A deal that is possible leaves goods, and what it adds is a number. *)
LEMMA DealType ==
  ASSUME NEW d \in Task, d.kind \in Deals,
         d.kind \in {"sell", "remove"} => Total(d.goods, d.thing) >= d.n
  PROVE  After(d) \in Goods
<1>1. d.goods \in Goods /\ d.thing \in Things /\ d.n \in Nat /\ Coin \in Things
  BY TaskFields, BankAssumption
<1>2. CASE d.kind = "deposit"
  <2>1. Total(d.goods, Coin) \in Nat
    BY <1>1, TotalType
  <2>2. Parted(d.goods, Coin, Total(d.goods, Coin)) \in Goods
    BY <1>1, <2>1, PartedType
  <2> QED
    BY <1>2, <2>2 DEF After
<1>3. CASE d.kind = "withdraw"
  BY <1>1, <1>3, ReceivedType DEF After
<1>4. CASE d.kind = "buy"
  BY <1>1, <1>4, ReceivedType DEF After
<1>5. CASE d.kind \in {"sell", "remove"}
  <2>1. Parted(d.goods, d.thing, d.n) \in Goods
    <3>1. Total(d.goods, d.thing) \in Nat
      BY <1>1, TotalType
    <3>2. d.n <= Total(d.goods, d.thing)
      BY <1>1, <1>5, <3>1
    <3> QED
      BY <1>1, <3>2, PartedType
  <2>2. After(d) = Parted(d.goods, d.thing, d.n)
    BY <1>5 DEF After
  <2> QED
    BY <2>1, <2>2
<1> QED
  BY <1>2, <1>3, <1>4, <1>5 DEF Deals, BankDeals

LEMMA CreditType ==
  ASSUME NEW d \in Task, d.kind \in Deals
  PROVE  /\ Credit(d) \in Int
         /\ d.kind \in {"deposit", "sell", "remove"} => Credit(d) \in Nat
<1>1. d.goods \in Goods /\ d.n \in Nat /\ Coin \in Things /\ Price \in Nat
  BY TaskFields, BankAssumption
<1>2. Total(d.goods, Coin) \in Nat
  BY <1>1, TotalType
<1>3. Price * d.n \in Nat
  BY <1>1
<1>4. CASE d.kind = "deposit"
  BY <1>2, <1>4 DEF Credit
<1>5. CASE d.kind = "withdraw"
  BY <1>1, <1>5 DEF Credit
<1>6. CASE d.kind = "buy"
  <2>1. Credit(d) = 0 - Price * d.n
    BY <1>6 DEF Credit
  <2> QED
    BY <1>3, <1>6, <2>1
<1>7. CASE d.kind = "sell"
  <2>1. Credit(d) = Price * d.n
    BY <1>7 DEF Credit
  <2> QED
    BY <1>3, <2>1
<1>8. CASE d.kind = "remove"
  BY <1>8 DEF Credit
<1> QED
  BY <1>4, <1>5, <1>6, <1>7, <1>8 DEF Deals, BankDeals

(* The balance a deal is to leave is not negative: Allowed has seen to it. *)
LEMMA SumType ==
  ASSUME Ledgers, NEW d \in Task, d.kind \in Deals, Allowed(d)
  PROVE  /\ balance[d.who] + Credit(d) \in Nat
         /\ d.kind \in {"sell", "remove"} => Total(d.goods, d.thing) >= d.n
<1>1. balance[d.who] \in Nat
  BY TaskFields DEF Ledgers
<1>2. CASE d.kind \in {"deposit", "sell", "remove"}
  <2>1. Credit(d) \in Nat
    BY <1>2, CreditType
  <2>2. d.kind \in {"sell", "remove"} => Total(d.goods, d.thing) >= d.n
    BY DEF Allowed
  <2> QED
    BY <1>1, <2>1, <2>2
<1>3. CASE d.kind \in {"withdraw", "buy"}
  <2>1. balance[d.who] + Credit(d) >= 0
    BY <1>3 DEF Allowed
  <2>2. Credit(d) \in Int
    BY CreditType
  <2> QED
    BY <1>1, <1>3, <2>1, <2>2
<1> QED
  BY <1>2, <1>3 DEF Deals, BankDeals

----------------------------------------------------------------------------
(* One step of a thread *)

LEMMA TaskStep ==
  ASSUME Tasks, NEW t \in Threads, NEW d, TaskOK(t, d), task' = [task EXCEPT ![t] = d]
  PROVE  Tasks'
<1>1. task' \in [Threads -> Task]
  BY DEF Tasks, TaskOK
<1>2. ASSUME NEW u \in Threads PROVE TaskOK(u, task'[u])
  <2>1. CASE u = t
    BY <2>1 DEF Tasks
  <2>2. CASE u # t
    <3>1. task'[u] = task[u] /\ TaskOK(u, task[u])
      BY <2>2 DEF Tasks
    <3> QED
      BY <3>1
  <2> QED
    BY <2>1, <2>2
<1> QED
  BY <1>1, <1>2 DEF Tasks, TaskOK

LEMMA TasksStay == ASSUME Tasks, UNCHANGED task PROVE Tasks'
BY DEF Tasks, TaskOK

LEMMA StagesDiffer ==
  /\ Decided \subseteq Dealing
  /\ LoggingIn \cup Dealing \cup Giving \cup Saving \cup {"off", "idle"} = Stages
  /\ "off" \notin LoggingIn \cup Dealing \cup Saving
  /\ "idle" \notin LoggingIn \cup Dealing \cup Saving
  /\ \A g \in Giving : g \notin LoggingIn \cup Dealing \cup Saving
  /\ \A g \in Saving : g \notin LoggingIn \cup Dealing
  /\ \A g \in LoggingIn : g \notin Dealing \cup Saving
  /\ \A g \in Dealing : g \notin Saving
BY DEF Decided, Dealing, LoggingIn, Giving, Saving, Stages

LEMMA RestOK ==
  ASSUME NEW t \in Threads, NEW p \in Players, NEW at \in {"off", "idle"}
  PROVE  TaskOK(t, Doing(at, p))
<1>1. at \in Stages /\ at \notin LoggingIn \cup Dealing \cup Saving \cup Decided
  BY StagesDiffer
<1> QED
  BY <1>1, DoingType DEF TaskOK

LEMMA RestStep ==
  ASSUME Tasks, NEW t \in Threads, Rests(t)
  PROVE  Tasks'
<1>1. task[t].who \in Players
  BY TaskFields DEF Tasks
<1> QED
  BY <1>1, RestOK, TaskStep DEF Rests, Becomes

(* Going on to another stage: what that stage relies on is there already. *)
LEMMA GotoOK ==
  ASSUME NEW t, NEW d, TaskOK(t, d), NEW at \in Stages,
         t \in Sessions /\ at \in LoggingIn \cup Dealing => d.who = Owner[t],
         at \in Dealing => d.kind \in Deals,
         at \in Decided => After(d) \in Goods,
         at \in Saving => d.todo # <<>>
  PROVE  TaskOK(t, [d EXCEPT !.at = at])
<1> DEFINE e == [d EXCEPT !.at = at]
<1>1. /\ e \in Task /\ e.at = at /\ e.kind = d.kind /\ e.who = d.who
      /\ e.thing = d.thing /\ e.n = d.n /\ e.goods = d.goods /\ e.todo = d.todo
  BY AtChanged DEF TaskOK
<1> SUFFICES TaskOK(t, e)
  OBVIOUS
<1> HIDE DEF e
<1>2. After(e) = After(d)
  BY <1>1, DealIsKept
<1> QED
  BY <1>1, <1>2 DEF TaskOK

LEMMA GotoStep ==
  ASSUME Tasks, NEW t \in Threads, NEW at \in Stages, Goto(t, at),
         t \in Sessions /\ at \in LoggingIn \cup Dealing => task[t].who = Owner[t],
         at \in Dealing => task[t].kind \in Deals,
         at \in Decided => After(task[t]) \in Goods,
         at \in Saving => task[t].todo # <<>>
  PROVE  Tasks'
<1>1. TaskOK(t, task[t])
  BY DEF Tasks
<1>2. TaskOK(t, [task[t] EXCEPT !.at = at])
  BY <1>1, GotoOK
<1>3. task' = [task EXCEPT ![t] = [task[t] EXCEPT !.at = at]]
  BY DEF Goto
<1> QED
  BY <1>2, <1>3, TaskStep

LEMMA HarmStays ==
  ASSUME harm \subseteq {"crossed", "unsaved"}, NEW t, NEW S, Touches(t, S)
  PROVE  harm' \subseteq {"crossed", "unsaved"}
BY DEF Touches

LEMMA NotesAfterSpend ==
  ASSUME Notes, NEW b \in Bounded, NEW bound, Spend(b, bound),
         harm' \subseteq {"crossed", "unsaved"}
  PROVE  Notes'
BY DEF Notes, Spend

(* The goods of a player, in the world or in the rows. *)
LEMMA GoodsStep ==
  ASSUME NEW f \in [Players -> Goods], NEW p, NEW c \in Counts
  PROVE  /\ [f EXCEPT ![p].worn = c] \in [Players -> Goods]
         /\ [f EXCEPT ![p].bags = c] \in [Players -> Goods]
<1>1. ASSUME NEW q \in Players
      PROVE  [f[q] EXCEPT !.worn = c] \in Goods /\ [f[q] EXCEPT !.bags = c] \in Goods
  BY GoodsChanged
<1> QED
  BY <1>1

LEMMA GoodsReplaced ==
  ASSUME NEW f \in [Players -> Goods], NEW p, NEW g \in Goods
  PROVE  [f EXCEPT ![p] = g] \in [Players -> Goods]
OBVIOUS

----------------------------------------------------------------------------
(* Every action keeps the types *)

LEMMA InitSound == Init => Sound
<1> SUFFICES ASSUME Init PROVE Sound
  OBVIOUS
<1>1. Empty \in Goods
  BY EmptyType
<1>2. Ledgers
  BY <1>1, BankAssumption DEF Init, Ledgers
<1>3. Notes
  BY DEF Init, Notes
<1>4. ASSUME NEW t \in Threads
      PROVE  TaskOK(t, IF t = Operator THEN Doing("idle", CHOOSE p \in Players : TRUE)
                                       ELSE Doing("off", Owner[t]))
  <2>1. (CHOOSE p \in Players : TRUE) \in Players
    BY BankAssumption
  <2>2. t # Operator => Owner[t] \in Players
    BY BankAssumption DEF Threads
  <2> QED
    BY <2>1, <2>2, RestOK
<1>5. Tasks
  BY <1>4 DEF Init, Tasks, TaskOK
<1> QED
  BY <1>2, <1>3, <1>5 DEF Sound

LEMMA OwnerType == ASSUME NEW s \in Sessions PROVE Owner[s] \in Players /\ s \in Threads
BY BankAssumption DEF Threads

LEMMA LoginSound ==
  ASSUME Sound, NEW s \in Sessions, Login(s)
  PROVE  Sound'
<1> DEFINE p == Owner[s]
<1>0. /\ s \in Threads /\ p \in Players /\ task[s] \in Task /\ TaskOK(s, task[s])
      /\ rows[p] \in Goods /\ task[s].goods \in Goods
  BY OwnerType, TaskFields DEF Sound, Tasks, Ledgers
<1>1. CASE ReadWorn(s)
  <2> DEFINE d == Doing("readbags", p)
             g == [d.goods EXCEPT !.worn = rows[p].worn]
             e == [d EXCEPT !.goods = g]
  <2>1. "readbags" \in Stages /\ "readbags" \in LoggingIn
    BY DEF Stages, LoggingIn
  <2>2. d \in Task /\ d.at = "readbags" /\ d.who = p /\ d.goods \in Goods
    BY <1>0, <2>1, DoingType, TaskFields
  <2>3. g \in Goods
    BY <1>0, <2>2, GoodsFields, GoodsChanged
  <2>4. task' = [task EXCEPT ![s] = e]
    BY <1>1 DEF ReadWorn, Becomes
  <2>5. e \in Task /\ e.at = "readbags" /\ e.who = p
    <3> HIDE DEF d, g
    <3> QED BY <2>2, <2>3, GoodsTaken
  <2>6. TaskOK(s, e)
    <3> HIDE DEF e
    <3> QED BY <2>1, <2>5, StagesDiffer DEF TaskOK
  <2>7. Tasks'
    <3> HIDE DEF e
    <3> QED BY <1>0, <2>4, <2>6, TaskStep DEF Sound
  <2>8. Ledgers'
    BY <1>1 DEF ReadWorn, Sound, Ledgers
  <2>9. Notes'
    BY <1>1, NotesAfterSpend DEF ReadWorn, Sound, Notes, Bounded
  <2> QED
    BY <2>7, <2>8, <2>9 DEF Sound
<1>2. CASE ReadBags(s)
  <2> DEFINE d == [task[s] EXCEPT !.at = "register"]
             g == [d.goods EXCEPT !.bags = rows[p].bags]
             e == [d EXCEPT !.goods = g]
  <2>1. "register" \in Stages /\ {"readbags", "register"} \subseteq LoggingIn
    BY DEF Stages, LoggingIn
  <2>2. d \in Task /\ d.at = "register" /\ d.who = p /\ d.goods \in Goods
    <3>1. task[s].who = p
      BY <1>0, <1>2, <2>1 DEF ReadBags, TaskOK
    <3> QED
      BY <1>0, <2>1, <3>1, AtChanged
  <2>3. g \in Goods
    BY <1>0, <2>2, GoodsFields, GoodsChanged
  <2>4. task' = [task EXCEPT ![s] = e]
    BY <1>2 DEF ReadBags, Sound, Tasks, Task
  <2>5. e \in Task /\ e.at = "register" /\ e.who = p
    <3> HIDE DEF d, g
    <3> QED BY <2>2, <2>3, GoodsTaken
  <2>6. TaskOK(s, e)
    <3> HIDE DEF e
    <3> QED BY <2>1, <2>5, StagesDiffer DEF TaskOK
  <2>7. Tasks'
    <3> HIDE DEF e
    <3> QED BY <1>0, <2>4, <2>6, TaskStep DEF Sound
  <2> QED
    BY <1>2, <2>7 DEF ReadBags, Sound, Ledgers, Notes
<1>3. CASE Register(s)
  <2>1. {"register", "wear"} \subseteq LoggingIn /\ "wear" \in Stages
    BY DEF LoggingIn, Stages
  <2>2. task[s].who = p
    BY <1>0, <1>3, <2>1 DEF Register, TaskOK
  <2>3. Tasks'
    BY <1>0, <1>3, <2>1, <2>2, GotoStep, StagesDiffer DEF Register, Sound
  <2>4. Ledgers'
    BY <1>0, <1>3, EmptyType DEF Register, Sound, Ledgers
  <2>5. Notes'
    BY <1>3, HarmStays DEF Register, Sound, Notes
  <2> QED
    BY <2>3, <2>4, <2>5 DEF Sound
<1>4. CASE Refused(s)
  <2>1. Tasks'
    BY <1>0, <1>4, RestOK, TaskStep DEF Refused, Becomes, Sound
  <2> QED
    BY <1>4, <2>1 DEF Refused, Sound, Ledgers, Notes
<1>5. CASE Wear(s)
  <2>1. {"wear", "pack"} \subseteq LoggingIn /\ "pack" \in Stages
    BY DEF LoggingIn, Stages
  <2>2. task[s].who = p
    BY <1>0, <1>5, <2>1 DEF Wear, TaskOK
  <2>3. Tasks'
    BY <1>0, <1>5, <2>1, <2>2, GotoStep, StagesDiffer DEF Wear, Sound
  <2>4. live' \in [Players -> Goods]
    BY <1>0, <1>5, GoodsFields, GoodsStep DEF Wear, Sound, Ledgers
  <2>5. Notes'
    BY <1>5, HarmStays DEF Wear, Sound, Notes
  <2> QED
    BY <1>5, <2>3, <2>4, <2>5 DEF Wear, Sound, Ledgers
<1>6. CASE Pack(s)
  <2>1. Tasks'
    BY <1>0, <1>6, RestStep DEF Pack, Sound
  <2>2. live' \in [Players -> Goods]
    BY <1>0, <1>6, GoodsFields, GoodsStep DEF Pack, Sound, Ledgers
  <2>3. Notes'
    BY <1>6, HarmStays DEF Pack, Sound, Notes
  <2> QED
    BY <1>6, <2>1, <2>2, <2>3 DEF Pack, Sound, Ledgers
<1> QED
  BY <1>1, <1>2, <1>3, <1>4, <1>5, <1>6 DEF Login

LEMMA EndSound ==
  ASSUME Sound, NEW s \in Sessions, End(s)
  PROVE  Sound'
<1>1. s \in Threads /\ Owner[s] \in Players
  BY OwnerType
<1>2. Tasks'
  BY <1>1, RestOK, TaskStep DEF End, Becomes, Sound
<1>3. Ledgers'
  BY <1>1, EmptyType DEF End, Sound, Ledgers
<1>4. Notes'
  BY DEF End, Sound, Notes
<1> QED
  BY <1>2, <1>3, <1>4 DEF Sound

LEMMA BeginSound ==
  ASSUME Sound, NEW s \in Sessions, NEW kind \in Deals, NEW x \in Things, NEW n \in Nat,
         Begin(s, kind, x, n)
  PROVE  Sound'
<1> DEFINE p == Owner[s]
           c == Doing("copybags", p)
           d == [c EXCEPT !.kind = kind]
           e == [d EXCEPT !.thing = x, !.n = n]
           g == [worn |-> live[p].worn, bags |-> Empty.bags]
           f == [e EXCEPT !.goods = g]
<1>1. /\ s \in Threads /\ p \in Players /\ live[p] \in Goods
      /\ "copybags" \in Stages /\ "copybags" \in Dealing /\ "copybags" \notin Decided
      /\ kind \in Kinds
  BY OwnerType DEF Sound, Ledgers, Stages, Dealing, Decided, Deals, Kinds
<1>2. g \in Goods
  BY <1>1, GoodsFields, EmptyType DEF Goods
<1>3. c \in Task /\ c.at = "copybags" /\ c.who = p
  BY <1>1, DoingType
<1>4. d \in Task /\ d.at = "copybags" /\ d.who = p /\ d.kind = kind
  <2> HIDE DEF c
  <2> QED BY <1>1, <1>3, KindChanged
<1>5. e \in Task /\ e.at = "copybags" /\ e.who = p /\ e.kind = kind
  <2> HIDE DEF d
  <2> QED BY <1>4, ThingChanged
<1>6. f \in Task /\ f.at = "copybags" /\ f.who = p /\ f.kind = kind
  <2> HIDE DEF e, g
  <2> QED BY <1>2, <1>5, GoodsTaken
<1>7. task' = [task EXCEPT ![s] = f]
  BY DEF Begin, Becomes
<1> HIDE DEF f
<1>8. TaskOK(s, f)
  BY <1>1, <1>6, StagesDiffer DEF TaskOK
<1>9. Tasks'
  BY <1>1, <1>7, <1>8, TaskStep DEF Sound
<1>10. Notes'
  BY NotesAfterSpend DEF Begin, Sound, Notes, Bounded
<1> QED
  BY <1>9, <1>10 DEF Begin, Sound, Ledgers

LEMMA DealSound ==
  ASSUME Sound, NEW s \in Sessions, Deal(s)
  PROVE  Sound'
<1> DEFINE p == Owner[s]
           d == task[s]
<1>0. /\ s \in Threads /\ p \in Players /\ d \in Task /\ TaskOK(s, d)
      /\ live[p] \in Goods /\ rows[p] \in Goods /\ d.goods \in Goods /\ d.thing \in Things
  BY OwnerType, TaskFields DEF Sound, Tasks, Ledgers
<1>1. CASE \E kind \in BankDeals \cup {"remove"}, x \in Things, n \in 1..MaxUnits :
               Begin(s, kind, x, n)
  <2>1. PICK kind \in BankDeals \cup {"remove"}, x \in Things, n \in 1..MaxUnits :
            Begin(s, kind, x, n)
    BY <1>1
  <2>2. kind \in Deals /\ n \in Nat
    BY BankAssumption DEF Deals
  <2> QED
    BY <2>1, <2>2, BeginSound
<1>2. CASE CopyBags(s)
  <2> DEFINE e == [d EXCEPT !.at = "settle"]
             g == [e.goods EXCEPT !.bags = live[p].bags]
             f == [e EXCEPT !.goods = g]
  <2>1. /\ "settle" \in Stages /\ {"copybags", "settle"} \subseteq Dealing
        /\ "settle" \notin Decided
    BY DEF Stages, Dealing, Decided
  <2>2. d.who = p /\ d.kind \in Deals
    BY <1>0, <1>2, <2>1 DEF CopyBags, TaskOK
  <2>3. /\ e \in Task /\ e.at = "settle" /\ e.who = p /\ e.goods \in Goods
        /\ e.kind \in Deals
    BY <1>0, <2>1, <2>2, AtChanged
  <2>4. g \in Goods
    BY <1>0, <2>3, GoodsFields, GoodsChanged
  <2>5. task' = [task EXCEPT ![s] = f]
    BY <1>2 DEF CopyBags, Sound, Tasks, Task
  <2>6. f \in Task /\ f.at = "settle" /\ f.who = p /\ f.kind \in Deals
    <3> HIDE DEF e, g
    <3> QED BY <2>3, <2>4, GoodsTaken
  <2>7. TaskOK(s, f)
    <3> HIDE DEF f
    <3> QED BY <2>1, <2>6, StagesDiffer DEF TaskOK
  <2>8. Tasks'
    <3> HIDE DEF f
    <3> QED BY <1>0, <2>5, <2>7, TaskStep DEF Sound
  <2> QED
    BY <1>2, <2>8 DEF CopyBags, Sound, Ledgers, Notes
<1>3. CASE Settle(s)
  <2>1. /\ {"settle", "store", "storeworn"} \subseteq Dealing
        /\ {"store", "storeworn"} \subseteq Stages
    BY DEF Stages, Dealing
  <2>2. d.who = p /\ d.kind \in Deals
    BY <1>0, <1>3, <2>1 DEF Settle, TaskOK
  <2>3. CASE ~Allowed(d) /\ Rests(s)
    <3>1. Tasks'
      BY <1>0, <2>3, RestStep DEF Sound
    <3> QED
      BY <1>3, <3>1 DEF Settle, Sound, Ledgers, Notes
  <2>4. CASE Allowed(d) /\ task' = [task EXCEPT
                   ![s].at = IF d.kind = "remove" THEN "storeworn" ELSE "store",
                   ![s].sum = balance[p] + Credit(d)]
    <3> DEFINE at == IF d.kind = "remove" THEN "storeworn" ELSE "store"
               sum == balance[p] + Credit(d)
               e == [d EXCEPT !.at = at]
               f == [e EXCEPT !.sum = sum]
    <3>1. /\ sum \in Nat
          /\ d.kind \in {"sell", "remove"} => Total(d.goods, d.thing) >= d.n
      BY <1>0, <2>2, <2>4, SumType DEF Sound
    <3>2. After(d) \in Goods
      BY <1>0, <2>2, <3>1, DealType
    <3>3. at \in Stages /\ at \in Dealing
      BY <2>1
    <3>4. /\ e \in Task /\ e.at = at /\ e.kind = d.kind /\ e.who = p
          /\ e.thing = d.thing /\ e.n = d.n /\ e.goods = d.goods
      <4> HIDE DEF at
      <4> QED BY <1>0, <2>2, <3>3, AtChanged
    <3>5. /\ f \in Task /\ f.at = at /\ f.kind = d.kind /\ f.who = p
          /\ f.thing = d.thing /\ f.n = d.n /\ f.goods = d.goods
      <4> HIDE DEF e, sum, at
      <4> QED BY <3>1, <3>4, SumChanged
    <3>6. task' = [task EXCEPT ![s] = f]
      <4> HIDE DEF at, sum
      <4>1. task' = [task EXCEPT ![s].at = at, ![s].sum = sum]
        BY <2>4 DEF at, sum
      <4> QED
        BY <4>1 DEF Sound, Tasks, Task
    <3> HIDE DEF f, at
    <3>7. After(f) = After(d)
      BY <3>5, DealIsKept
    <3>8. TaskOK(s, f)
      BY <2>2, <3>2, <3>3, <3>5, <3>7, StagesDiffer DEF TaskOK
    <3>9. Tasks'
      BY <1>0, <3>6, <3>8, TaskStep DEF Sound
    <3> QED
      BY <1>3, <3>9 DEF Settle, Sound, Ledgers, Notes
  <2> QED
    BY <1>3, <2>3, <2>4 DEF Settle
<1>4. CASE StoreDeal(s)
  <2>1. /\ {"store", "putworn"} \subseteq Dealing /\ {"store", "putworn"} \subseteq Decided
        /\ "putworn" \in Stages
    BY DEF Stages, Dealing, Decided
  <2>2. d.who = p /\ d.kind \in Deals /\ After(d) \in Goods /\ d.at = "store"
    BY <1>0, <1>4, <2>1 DEF StoreDeal, TaskOK
  <2>3. Tasks'
    BY <1>0, <1>4, <2>1, <2>2, GotoStep, StagesDiffer DEF StoreDeal, Sound
  <2>4. rows' \in [Players -> Goods]
    BY <1>0, <1>4, <2>2, GoodsReplaced DEF StoreDeal, Sound, Ledgers
  <2>5. d.sum \in Nat /\ Credit(d) \in Int
    BY <1>0, <2>2, TaskFields, CreditType
  <2>6. balance' \in [Players -> Nat]
    BY <1>0, <1>4, <2>5 DEF StoreDeal, Sound, Ledgers
  <2>7. receipts' \in [Players -> Int]
    <3>1. receipts[p] + Credit(d) \in Int
      BY <1>0, <2>5 DEF Sound, Ledgers
    <3>2. receipts' = [receipts EXCEPT ![p] = receipts[p] + Credit(d)]
      BY <1>4 DEF StoreDeal
    <3> QED
      BY <3>1, <3>2 DEF Sound, Ledgers
  <2>8. Notes'
    BY <1>4, HarmStays DEF StoreDeal, Sound, Notes
  <2>9. Ledgers'
    BY <1>4, <2>4, <2>6, <2>7 DEF StoreDeal, Sound, Ledgers
  <2> QED
    BY <2>3, <2>8, <2>9 DEF Sound
<1>5. CASE StoreWorn(s)
  <2>1. {"storeworn", "storebags"} \subseteq Dealing \cap Decided /\ "storebags" \in Stages
    BY DEF Stages, Dealing, Decided
  <2>2. d.who = p /\ d.kind \in Deals /\ After(d) \in Goods
    BY <1>0, <1>5, <2>1 DEF StoreWorn, TaskOK
  <2>3. Tasks'
    BY <1>0, <1>5, <2>1, <2>2, GotoStep, StagesDiffer DEF StoreWorn, Sound
  <2>4. rows' \in [Players -> Goods]
    BY <1>0, <1>5, <2>2, GoodsFields, GoodsStep DEF StoreWorn, Sound, Ledgers
  <2>5. granted' \in Int
    <3>1. /\ d.goods.worn[d.thing] \in Nat /\ After(d).worn[d.thing] \in Nat
          /\ Worth(d.thing) \in Nat
      BY <1>0, <2>2, GoodsFields, CountsField, WorthType
    <3>2. d.goods.worn[d.thing] - After(d).worn[d.thing] \in Int
      BY <3>1
    <3>3. Worth(d.thing) * (d.goods.worn[d.thing] - After(d).worn[d.thing]) \in Int
      BY <3>1, <3>2
    <3> QED
      BY <1>5, <3>3 DEF StoreWorn, Sound, Ledgers
  <2>6. Notes'
    BY <1>5, HarmStays DEF StoreWorn, Sound, Notes
  <2>7. Ledgers'
    BY <1>5, <2>4, <2>5 DEF StoreWorn, Sound, Ledgers
  <2> QED
    BY <2>3, <2>6, <2>7 DEF Sound
<1>6. CASE StoreBags(s)
  <2>1. {"storebags", "putworn"} \subseteq Dealing \cap Decided /\ "putworn" \in Stages
    BY DEF Stages, Dealing, Decided
  <2>2. d.who = p /\ d.kind \in Deals /\ After(d) \in Goods
    BY <1>0, <1>6, <2>1 DEF StoreBags, TaskOK
  <2>3. Tasks'
    BY <1>0, <1>6, <2>1, <2>2, GotoStep, StagesDiffer DEF StoreBags, Sound
  <2>4. rows' \in [Players -> Goods]
    BY <1>0, <1>6, <2>2, GoodsFields, GoodsStep DEF StoreBags, Sound, Ledgers
  <2>5. granted' \in Int
    <3>1. /\ d.goods.bags[d.thing] \in Nat /\ After(d).bags[d.thing] \in Nat
          /\ Worth(d.thing) \in Nat
      BY <1>0, <2>2, GoodsFields, CountsField, WorthType
    <3>2. d.goods.bags[d.thing] - After(d).bags[d.thing] \in Int
      BY <3>1
    <3>3. Worth(d.thing) * (d.goods.bags[d.thing] - After(d).bags[d.thing]) \in Int
      BY <3>1, <3>2
    <3> QED
      BY <1>6, <3>3 DEF StoreBags, Sound, Ledgers
  <2>6. Notes'
    BY <1>6, HarmStays DEF StoreBags, Sound, Notes
  <2>7. Ledgers'
    BY <1>6, <2>4, <2>5 DEF StoreBags, Sound, Ledgers
  <2> QED
    BY <2>3, <2>6, <2>7 DEF Sound
<1>7. CASE PutWorn(s)
  <2>1. {"putworn", "putbags"} \subseteq Dealing \cap Decided /\ "putbags" \in Stages
    BY DEF Stages, Dealing, Decided
  <2>2. d.who = p /\ d.kind \in Deals /\ After(d) \in Goods
    BY <1>0, <1>7, <2>1 DEF PutWorn, TaskOK
  <2>3. Tasks'
    BY <1>0, <1>7, <2>1, <2>2, GotoStep, StagesDiffer DEF PutWorn, Sound
  <2>4. live' \in [Players -> Goods]
    BY <1>0, <1>7, <2>2, GoodsFields, GoodsStep DEF PutWorn, Sound, Ledgers
  <2>5. Notes'
    BY <1>7, HarmStays DEF PutWorn, Sound, Notes
  <2> QED
    BY <1>7, <2>3, <2>4, <2>5 DEF PutWorn, Sound, Ledgers
<1>8. CASE PutBags(s)
  <2>1. "putbags" \in Decided
    BY DEF Decided
  <2>2. After(d) \in Goods
    BY <1>0, <1>8, <2>1 DEF PutBags, TaskOK
  <2>3. Tasks'
    BY <1>0, <1>8, RestStep DEF PutBags, Sound
  <2>4. live' \in [Players -> Goods]
    BY <1>0, <1>8, <2>2, GoodsFields, GoodsStep DEF PutBags, Sound, Ledgers
  <2>5. Notes'
    BY <1>8, HarmStays DEF PutBags, Sound, Notes
  <2> QED
    BY <1>8, <2>3, <2>4, <2>5 DEF PutBags, Sound, Ledgers
<1> QED
  BY <1>1, <1>2, <1>3, <1>4, <1>5, <1>6, <1>7, <1>8 DEF Deal

(* Looking up whom to give what, and offering a share or a reward. *)
LEMMA GivingOK ==
  ASSUME NEW t \in Threads, NEW p \in Players, NEW at \in Giving, NEW kind \in Kinds,
         NEW x \in Things, NEW n \in Nat, NEW g \in Goods
  PROVE  /\ TaskOK(t, [Doing(at, p) EXCEPT !.kind = kind, !.thing = x, !.n = n])
         /\ TaskOK(t, [Doing(at, p) EXCEPT !.kind = kind, !.thing = x, !.n = n, !.goods = g])
<1> DEFINE c == Doing(at, p)
           d == [c EXCEPT !.kind = kind]
           e == [d EXCEPT !.thing = x, !.n = n]
           f == [e EXCEPT !.goods = g]
<1>1. at \in Stages /\ at \notin LoggingIn \cup Dealing \cup Saving \cup Decided
  BY StagesDiffer
<1>2. c \in Task /\ c.at = at
  BY <1>1, DoingType
<1>3. d \in Task /\ d.at = at
  <2> HIDE DEF c
  <2> QED BY <1>2, KindChanged
<1>4. e \in Task /\ e.at = at
  <2> HIDE DEF d
  <2> QED BY <1>3, ThingChanged
<1>5. f \in Task /\ f.at = at
  <2> HIDE DEF e
  <2> QED BY <1>4, GoodsTaken
<1>6. TaskOK(t, e)
  <2> HIDE DEF e
  <2> QED BY <1>1, <1>4 DEF TaskOK
<1>7. TaskOK(t, f)
  <2> HIDE DEF f
  <2> QED BY <1>1, <1>5 DEF TaskOK
<1> QED
  BY <1>6, <1>7

LEMMA GiftType ==
  ASSUME Sound, NEW t \in Threads
  PROVE  /\ Gift(t) \in Goods
         /\ Worth(task[t].thing) * task[t].n \in Int
<1>1. task[t].goods \in Goods /\ task[t].thing \in Things /\ task[t].n \in Nat
  BY TaskFields DEF Sound, Tasks
<1>2. Worth(task[t].thing) \in Nat
  BY WorthType
<1>3. Worth(task[t].thing) * task[t].n \in Int
  BY <1>1, <1>2
<1> QED
  BY <1>1, <1>3, ReceivedType DEF Gift

LEMMA GiveSound ==
  ASSUME Sound, NEW t \in Threads, Give(t)
  PROVE  Sound'
<1> DEFINE d == task[t]
           q == d.who
<1>0. /\ d \in Task /\ TaskOK(t, d) /\ q \in Players /\ live[q] \in Goods /\ rows[q] \in Goods
      /\ d.goods \in Goods
  BY TaskFields DEF Sound, Tasks, Ledgers
<1>1. CASE \E p \in Players, x \in Things, n \in 1..MaxUnits : LookUp(t, p, x, n)
  <2>1. PICK p \in Players, x \in Things, n \in 1..MaxUnits : LookUp(t, p, x, n)
    BY <1>1
  <2> DEFINE kind == IF p \in online THEN "giftlive" ELSE "giftstored"
  <2>2. kind \in Kinds /\ "fetch" \in Giving /\ n \in Nat
    BY BankAssumption DEF Kinds, Giving
  <2>3. task' = [task EXCEPT ![t] =
                    [Doing("fetch", p) EXCEPT !.kind = kind, !.thing = x, !.n = n]]
    BY <2>1 DEF LookUp, Becomes
  <2> HIDE DEF kind
  <2>4. TaskOK(t, [Doing("fetch", p) EXCEPT !.kind = kind, !.thing = x, !.n = n])
    BY <2>2, GivingOK, EmptyType
  <2>5. Tasks'
    BY <2>3, <2>4, TaskStep DEF Sound
  <2>6. Notes'
    BY <2>1, NotesAfterSpend DEF LookUp, Sound, Notes, Bounded
  <2> QED
    BY <2>1, <2>5, <2>6 DEF LookUp, Sound, Ledgers
<1>2. CASE Fetch(t)
  <2>1. CASE Rests(t)
    <3>1. Tasks'
      BY <2>1, RestStep DEF Sound
    <3> QED
      BY <1>2, <3>1 DEF Fetch, Sound, Ledgers, Notes
  <2>2. CASE task' = [task EXCEPT ![t].at = "grant", ![t].goods.bags =
                         IF d.kind = "giftlive" THEN live[q].bags ELSE rows[q].bags]
    <3> DEFINE bags == IF d.kind = "giftlive" THEN live[q].bags ELSE rows[q].bags
               e == [d EXCEPT !.at = "grant"]
               g == [e.goods EXCEPT !.bags = bags]
               f == [e EXCEPT !.goods = g]
    <3>1. "grant" \in Stages /\ "grant" \notin LoggingIn \cup Dealing \cup Saving \cup Decided
      BY DEF Stages, LoggingIn, Dealing, Saving, Giving, Decided
    <3>2. bags \in Counts
      BY <1>0, GoodsFields
    <3>3. e \in Task /\ e.at = "grant" /\ e.goods \in Goods
      BY <1>0, <3>1, AtChanged
    <3>4. g \in Goods
      <4> HIDE DEF e, bags
      <4> QED BY <3>2, <3>3, GoodsChanged
    <3>5. f \in Task /\ f.at = "grant"
      <4> HIDE DEF e, g
      <4> QED BY <3>3, <3>4, GoodsTaken
    <3>6. task' = [task EXCEPT ![t] = f]
      <4> HIDE DEF bags
      <4>1. task' = [task EXCEPT ![t].at = "grant", ![t].goods.bags = bags]
        BY <2>2 DEF bags
      <4> QED
        BY <4>1 DEF Sound, Tasks, Task
    <3> HIDE DEF f
    <3>7. TaskOK(t, f)
      BY <3>1, <3>5 DEF TaskOK
    <3>8. Tasks'
      BY <3>6, <3>7, TaskStep DEF Sound
    <3> QED
      BY <1>2, <3>8 DEF Fetch, Sound, Ledgers, Notes
  <2> QED
    BY <1>2, <2>1, <2>2 DEF Fetch
<1>3. CASE Grant(t)
  <2>1. /\ "deliver" \in Stages
        /\ "deliver" \notin LoggingIn \cup Dealing \cup Saving \cup Decided
    BY DEF Stages, LoggingIn, Dealing, Saving, Giving, Decided
  <2>2. /\ rows' = [rows EXCEPT ![q].bags = Gift(t).bags]
        /\ granted' = granted + Worth(d.thing) * d.n
        /\ Touches(t, {q})
        /\ UNCHANGED <<online, live, balance, receipts, spent>>
    BY <1>3, Zenon DEF Grant
  <2>3. Goto(t, "deliver") \/ Rests(t)
    BY <1>3, Zenon DEF Grant
  <2>4. Tasks'
    BY <2>1, <2>3, GotoStep, RestStep DEF Sound
  <2>5. rows' \in [Players -> Goods]
    BY <1>0, <2>2, GiftType, GoodsFields, GoodsStep DEF Sound, Ledgers
  <2>6. granted' \in Int
    <3>1. Worth(d.thing) * d.n \in Int
      BY GiftType
    <3> QED
      BY <2>2, <3>1 DEF Sound, Ledgers
  <2>7. Notes'
    BY <2>2, HarmStays DEF Sound, Notes
  <2>8. Ledgers'
    BY <2>2, <2>5, <2>6 DEF Sound, Ledgers
  <2> QED
    BY <2>4, <2>7, <2>8 DEF Sound
<1>4. CASE Deliver(t)
  <2>1. Tasks'
    BY <1>4, RestStep DEF Deliver, Sound
  <2>2. live' \in [Players -> Goods]
    BY <1>0, <1>4, GiftType, GoodsFields, GoodsStep DEF Deliver, Sound, Ledgers
  <2>3. Notes'
    BY <1>4, HarmStays DEF Deliver, Sound, Notes
  <2> QED
    BY <1>4, <2>1, <2>2, <2>3 DEF Deliver, Sound, Ledgers
<1> QED
  BY <1>1, <1>2, <1>3, <1>4 DEF Give

LEMMA GiftFailsSound ==
  ASSUME Sound, GiftFails
  PROVE  Sound'
<1>1. Operator \in Threads
  BY DEF Threads
<1>2. Tasks'
  BY <1>1, RestStep DEF GiftFails, Sound
<1> QED
  BY <1>2 DEF GiftFails, Sound, Ledgers, Notes

LEMMA HandingSound ==
  ASSUME Sound, NEW s \in Sessions, Handing(s)
  PROVE  Sound'
<1> DEFINE d == task[s]
           q == d.who
<1>0. /\ s \in Threads /\ d \in Task /\ TaskOK(s, d) /\ q \in Players
      /\ live[q] \in Goods /\ rows[q] \in Goods
  BY OwnerType, TaskFields DEF Sound, Tasks, Ledgers
<1>1. CASE \E p \in Players, kind \in {"loot", "reward"}, x \in Things, n \in 1..MaxUnits :
               Offer(s, p, kind, x, n)
  <2>1. PICK p \in Players, kind \in {"loot", "reward"}, x \in Things, n \in 1..MaxUnits :
            Offer(s, p, kind, x, n)
    BY <1>1
  <2>2. kind \in Kinds /\ "hand" \in Giving /\ n \in Nat /\ live[p] \in Goods
    BY BankAssumption DEF Kinds, Giving, Sound, Ledgers
  <2>3. task' = [task EXCEPT ![s] =
                    [Doing("hand", p) EXCEPT !.kind = kind, !.thing = x, !.n = n,
                                             !.goods = live[p]]]
    BY <2>1 DEF Offer, Becomes
  <2>4. TaskOK(s, [Doing("hand", p) EXCEPT !.kind = kind, !.thing = x, !.n = n,
                                           !.goods = live[p]])
    BY <1>0, <2>2, GivingOK
  <2>5. Tasks'
    BY <1>0, <2>3, <2>4, TaskStep DEF Sound
  <2>6. Notes'
    BY <2>1, NotesAfterSpend DEF Offer, Sound, Notes, Bounded
  <2> QED
    BY <2>1, <2>5, <2>6 DEF Offer, Sound, Ledgers
<1>2. CASE Hand(s)
  <2>1. /\ "storehanded" \in Stages /\ "save" \in Stages
        /\ "storehanded" \notin LoggingIn \cup Dealing \cup Saving \cup Decided
        /\ "save" \notin LoggingIn \cup Dealing \cup Decided
    BY DEF Stages, LoggingIn, Dealing, Saving, Giving, Decided
  <2>0. /\ live' = [live EXCEPT ![q].bags = Gift(s).bags]
        /\ granted' = granted + Worth(d.thing) * d.n
        /\ Touches(s, {q})
        /\ UNCHANGED <<online, rows, balance, receipts, spent>>
    BY <1>2, Zenon DEF Hand
  <2>2. ASSUME Goto(s, "storehanded") PROVE Tasks'
    BY <1>0, <2>1, <2>2, GotoStep DEF Sound
  <2>3. ASSUME task' = [task EXCEPT ![s].at = "save", ![s].todo = <<q>>] PROVE Tasks'
    <3> DEFINE e == [d EXCEPT !.at = "save"]
               f == [e EXCEPT !.todo = <<q>>]
    <3>1. e \in Task /\ e.at = "save"
      BY <1>0, <2>1, AtChanged
    <3>2. <<q>> \in Seq(Players) /\ <<q>> # <<>>
      BY <1>0
    <3>3. f \in Task /\ f.at = "save" /\ f.todo = <<q>>
      <4> HIDE DEF e
      <4> QED BY <3>1, <3>2, TodoChanged
    <3>4. task' = [task EXCEPT ![s] = f]
      <4> HIDE DEF q
      <4> QED BY <2>3 DEF Sound, Tasks, Task
    <3> HIDE DEF f
    <3>5. TaskOK(s, f)
      BY <2>1, <3>2, <3>3 DEF TaskOK
    <3> QED
      BY <1>0, <3>4, <3>5, TaskStep DEF Sound
  <2>4. Tasks'
    <3>1. CASE d.kind = "loot"
      <4>1. Goto(s, "storehanded")
        BY <1>2, <3>1, Zenon DEF Hand
      <4> QED
        BY <2>2, <4>1
    <3>2. CASE d.kind # "loot"
      <4>1. task' = [task EXCEPT ![s].at = "save", ![s].todo = <<q>>]
        BY <1>2, <3>2 DEF Hand
      <4> QED
        BY <2>3, <4>1
    <3> QED
      BY <3>1, <3>2
  <2>5. live' \in [Players -> Goods]
    BY <1>0, <2>0, GiftType, GoodsFields, GoodsStep DEF Sound, Ledgers
  <2>6. granted' \in Int
    <3>1. Worth(d.thing) * d.n \in Int
      BY <1>0, GiftType
    <3> QED
      BY <2>0, <3>1 DEF Sound, Ledgers
  <2>7. Notes'
    BY <2>0, HarmStays DEF Sound, Notes
  <2>8. Ledgers'
    BY <2>0, <2>5, <2>6 DEF Sound, Ledgers
  <2> QED
    BY <2>4, <2>7, <2>8 DEF Sound
<1>3. CASE StoreHanded(s)
  <2>1. Tasks'
    BY <1>0, <1>3, RestStep DEF StoreHanded, Sound
  <2>2. rows' \in [Players -> Goods]
    BY <1>0, <1>3, GiftType, GoodsFields, GoodsStep DEF StoreHanded, Sound, Ledgers
  <2>3. Notes'
    BY <1>3, HarmStays DEF StoreHanded, Sound, Notes
  <2> QED
    BY <1>3, <2>1, <2>2, <2>3 DEF StoreHanded, Sound, Ledgers
<1> QED
  BY <1>1, <1>2, <1>3 DEF Handing

(* One count of one player. *)
LEMMA CountStep ==
  ASSUME NEW f \in [Players -> Goods], NEW p \in Players, NEW x \in Things, NEW n \in Nat
  PROVE  /\ [f EXCEPT ![p].worn[x] = n] \in [Players -> Goods]
         /\ [f EXCEPT ![p].bags[x] = n] \in [Players -> Goods]
<1> DEFINE c == [f[p].worn EXCEPT ![x] = n]
           d == [f[p].bags EXCEPT ![x] = n]
<1>1. c \in Counts /\ d \in Counts
  BY GoodsFields, CountsChanged
<1>2. /\ [f EXCEPT ![p].worn[x] = n] = [f EXCEPT ![p].worn = c]
      /\ [f EXCEPT ![p].bags[x] = n] = [f EXCEPT ![p].bags = d]
  OBVIOUS
<1> HIDE DEF c, d
<1> QED
  BY <1>1, <1>2, GoodsStep

(* The goods of the players todo are to be stored. *)
LEMMA SavingOK ==
  ASSUME NEW t \in Threads, NEW p \in Players, NEW kind \in Kinds,
         NEW todo \in Seq(Players), todo # <<>>
  PROVE  TaskOK(t, [Doing("save", p) EXCEPT !.kind = kind, !.todo = todo])
<1> DEFINE c == Doing("save", p)
           d == [c EXCEPT !.kind = kind]
           e == [d EXCEPT !.todo = todo]
<1>1. /\ "save" \in Stages
      /\ "save" \notin LoggingIn \cup Dealing \cup Decided
  BY DEF Stages, LoggingIn, Dealing, Saving, Decided
<1>2. c \in Task /\ c.at = "save"
  BY <1>1, DoingType
<1>3. d \in Task /\ d.at = "save"
  <2> HIDE DEF c
  <2> QED BY <1>2, KindChanged
<1>4. e \in Task /\ e.at = "save" /\ e.todo = todo
  <2> HIDE DEF d
  <2> QED BY <1>3, TodoChanged
<1> SUFFICES TaskOK(t, e)
  OBVIOUS
<1> HIDE DEF e
<1> QED
  BY <1>1, <1>4 DEF TaskOK

LEMMA SwapSound ==
  ASSUME Sound, NEW s \in Sessions, NEW from \in Players, NEW to \in Players,
         NEW x \in Things, NEW todo \in {<<from, to>>, <<to, from>>},
         Swap(s, from, to, x, todo)
  PROVE  Sound'
<1> DEFINE n == live[from].bags[x]
           m == [live EXCEPT ![from].bags[x] = 0]
           k == m[to].bags[x] + n
<1>1. s \in Threads /\ Owner[s] \in Players /\ live[from].bags[x] \in Nat
  BY OwnerType, GoodsFields, CountsField DEF Sound, Ledgers
<1>2. m \in [Players -> Goods]
  BY CountStep DEF Sound, Ledgers
<1>3. k \in Nat
  <2>1. m[to].bags[x] \in Nat
    <3> HIDE DEF m
    <3> QED BY <1>2, GoodsFields, CountsField
  <2> HIDE DEF m
  <2> QED BY <1>1, <2>1
<1>4. live' = [m EXCEPT ![to].bags[x] = k]
  <2>1. live' = [live EXCEPT ![from].bags[x] = 0, ![to].bags[x] = @ + n]
    BY Zenon DEF Swap
  <2>2. from # to
    BY Zenon DEF Swap
  <2>3. live \in [Players -> Goods] /\ m[to] = live[to]
    BY <2>2 DEF Sound, Ledgers
  <2>4. k = live[to].bags[x] + n
    BY <2>3
  <2> QED
    BY <2>1, <2>2, <2>3, <2>4
<1>5. live' \in [Players -> Goods]
  <2> HIDE DEF m, k
  <2> QED BY <1>2, <1>3, <1>4, CountStep
<1>6. todo \in Seq(Players) /\ todo # <<>> /\ "swap" \in Kinds
  <2>1. <<from, to>> \in Seq(Players) /\ <<to, from>> \in Seq(Players)
    OBVIOUS
  <2>2. <<from, to>> # <<>> /\ <<to, from>> # <<>>
    OBVIOUS
  <2> QED
    BY <2>1, <2>2 DEF Kinds
<1>7. Tasks'
  <2>1. TaskOK(s, [Doing("save", Owner[s]) EXCEPT !.kind = "swap", !.todo = todo])
    BY <1>1, <1>6, SavingOK
  <2>2. task' = [task EXCEPT ![s] =
                    [Doing("save", Owner[s]) EXCEPT !.kind = "swap", !.todo = todo]]
    BY Zenon DEF Swap, Becomes
  <2> QED
    BY <1>1, <2>1, <2>2, TaskStep DEF Sound
<1>8. /\ Touches(s, {from, to}) /\ Spend("dealings", MaxDealings)
      /\ UNCHANGED <<online, rows, balance, receipts, granted>>
  BY Zenon DEF Swap
<1>9. Notes'
  <2>1. harm' \subseteq {"crossed", "unsaved"}
    BY <1>8, HarmStays DEF Sound, Notes
  <2> QED
    BY <1>8, <2>1, NotesAfterSpend DEF Sound, Bounded
<1> QED
  BY <1>5, <1>7, <1>8, <1>9 DEF Sound, Ledgers

LEMMA MoveSound ==
  ASSUME Sound, NEW s \in Sessions, NEW x \in Things, Move(s, x)
  PROVE  Sound'
<1> DEFINE p == Owner[s]
           a == live[p].worn[x]
           b == live[p].bags[x]
           m == [live EXCEPT ![p].worn[x] = 0]
           h == [live EXCEPT ![p].bags[x] = 0]
<1>1. s \in Threads /\ p \in Players /\ a \in Nat /\ b \in Nat
  BY OwnerType, GoodsFields, CountsField DEF Sound, Ledgers
<1>2. m \in [Players -> Goods] /\ h \in [Players -> Goods]
  BY <1>1, CountStep DEF Sound, Ledgers
<1>3. m[p].bags[x] + a \in Nat /\ h[p].worn[x] + b \in Nat
  <2>1. m[p].bags[x] \in Nat /\ h[p].worn[x] \in Nat
    <3> HIDE DEF m, h
    <3> QED BY <1>1, <1>2, GoodsFields, CountsField
  <2> HIDE DEF m, h
  <2> QED BY <1>1, <2>1
<1>4. \/ live' = [m EXCEPT ![p].bags[x] = m[p].bags[x] + a]
      \/ live' = [h EXCEPT ![p].worn[x] = h[p].worn[x] + b]
  <2>1. \/ live' = [live EXCEPT ![p].worn[x] = 0, ![p].bags[x] = @ + a]
        \/ live' = [live EXCEPT ![p].bags[x] = 0, ![p].worn[x] = @ + b]
    BY Zenon DEF Move
  <2> QED
    BY <2>1 DEF Sound, Ledgers
<1>5. live' \in [Players -> Goods]
  <2> HIDE DEF m, h
  <2>1. /\ [m EXCEPT ![p].bags[x] = m[p].bags[x] + a] \in [Players -> Goods]
        /\ [h EXCEPT ![p].worn[x] = h[p].worn[x] + b] \in [Players -> Goods]
    BY <1>1, <1>2, <1>3, CountStep
  <2> QED
    BY <1>4, <2>1
<1>6. <<p>> \in Seq(Players) /\ <<p>> # <<>> /\ "move" \in Kinds
  BY <1>1 DEF Kinds
<1>7. Tasks'
  <2>1. TaskOK(s, [Doing("save", p) EXCEPT !.kind = "move", !.todo = <<p>>])
    BY <1>1, <1>6, SavingOK
  <2>2. task' = [task EXCEPT ![s] =
                    [Doing("save", p) EXCEPT !.kind = "move", !.todo = <<p>>]]
    BY Zenon DEF Move, Becomes
  <2> QED
    BY <1>1, <2>1, <2>2, TaskStep DEF Sound
<1>8. /\ Touches(s, {p}) /\ Spend("dealings", MaxDealings)
      /\ UNCHANGED <<online, rows, balance, receipts, granted>>
  BY Zenon DEF Move
<1>9. Notes'
  <2>1. harm' \subseteq {"crossed", "unsaved"}
    BY <1>8, HarmStays DEF Sound, Notes
  <2> QED
    BY <1>8, <2>1, NotesAfterSpend DEF Sound, Bounded
<1> QED
  BY <1>5, <1>7, <1>8, <1>9 DEF Sound, Ledgers

(* Somebody is left whose goods are to be stored. *)
LEMMA SavedType ==
  ASSUME Tasks, NEW s \in Threads, task[s].at \in Saving
  PROVE  task[s].todo \in Seq(Players) /\ Saved(s) \in Players
<1>1. task[s].todo \in Seq(Players) /\ task[s].todo # <<>>
  BY TaskFields DEF Tasks, TaskOK
<1> DEFINE todo == task[s].todo
<1>2. Head(todo) \in Players
  <2> HIDE DEF todo
  <2>1. todo \in Seq(Players) /\ todo # <<>>
    BY <1>1 DEF todo
  <2> QED
    BY <2>1
<1> QED
  BY <1>1, <1>2 DEF Saved

LEMMA NextSaveStep ==
  ASSUME Tasks, NEW s \in Threads, task[s].at \in Saving, NextSave(s)
  PROVE  Tasks'
<1>1. CASE Rests(s)
  BY <1>1, RestStep
<1>2. CASE /\ Len(task[s].todo) # 1
           /\ task' = [task EXCEPT ![s].at = "save", ![s].todo = Tail(@)]
  <2> DEFINE d == task[s]
             todo == Tail(d.todo)
             e == [d EXCEPT !.at = "save"]
             f == [e EXCEPT !.todo = todo]
  <2>1. /\ "save" \in Stages
        /\ "save" \notin LoggingIn \cup Dealing \cup Decided
    BY DEF Stages, LoggingIn, Dealing, Saving, Decided
  <2>2. d \in Task /\ d.todo \in Seq(Players) /\ d.todo # <<>> /\ Len(d.todo) # 1
    BY <1>2, TaskFields DEF Tasks, TaskOK
  <2>3. todo \in Seq(Players) /\ todo # <<>>
    <3> DEFINE q == d.todo
    <3>1. q \in Seq(Players) /\ q # <<>> /\ Len(q) # 1
      BY <2>2
    <3> SUFFICES Tail(q) \in Seq(Players) /\ Tail(q) # <<>>
      OBVIOUS
    <3> HIDE DEF q
    <3>2. Len(q) \in Nat /\ Len(q) # 0
      BY <3>1, EmptySeq
    <3>3. Tail(q) \in Seq(Players) /\ Len(Tail(q)) = Len(q) - 1
      BY <3>1, HeadTailProperties
    <3>4. Len(Tail(q)) # 0
      BY <3>1, <3>2, <3>3
    <3>5. Tail(q) = <<>> <=> Len(Tail(q)) = 0
      BY <3>3, EmptySeq, Zenon
    <3> QED
      BY <3>3, <3>4, <3>5
  <2>4. e \in Task /\ e.at = "save" /\ e.todo = d.todo
    BY <2>1, <2>2, AtChanged
  <2>5. f \in Task /\ f.at = "save" /\ f.todo = todo
    <3> HIDE DEF e, todo
    <3> QED BY <2>3, <2>4, TodoChanged
  <2>6. task' = [task EXCEPT ![s] = f]
    BY <1>2, <2>2 DEF Tasks
  <2> HIDE DEF f
  <2>7. TaskOK(s, f)
    BY <2>1, <2>3, <2>5 DEF TaskOK
  <2> QED
    BY <2>6, <2>7, TaskStep
<1> QED
  BY <1>1, <1>2, Zenon DEF NextSave

LEMMA MovingSound ==
  ASSUME Sound, NEW s \in Sessions, Moving(s)
  PROVE  Sound'
<1> DEFINE d == task[s]
<1>0. s \in Threads /\ d \in Task /\ TaskOK(s, d)
  BY OwnerType DEF Sound, Tasks
<1>1. CASE \E from, to \in Players, x \in Things : \E todo \in {<<from, to>>, <<to, from>>} :
               Swap(s, from, to, x, todo)
  BY <1>1, SwapSound
<1>2. CASE \E x \in Things : Move(s, x)
  BY <1>2, MoveSound
<1>3. CASE SaveRead(s)
  <2> DEFINE g == live[Saved(s)]
             e == [d EXCEPT !.at = "write"]
             f == [e EXCEPT !.goods = g]
  <2>1. /\ "write" \in Stages /\ "write" \in Saving /\ "save" \in Saving
        /\ "write" \notin LoggingIn \cup Dealing \cup Decided
    BY DEF Stages, LoggingIn, Dealing, Saving, Decided
  <2>2. g \in Goods /\ d.todo # <<>>
    <3>1. d.at = "save"
      BY <1>3 DEF SaveRead
    <3>2. Saved(s) \in Players
      BY <1>0, <2>1, <3>1, SavedType DEF Sound
    <3> QED
      BY <1>0, <2>1, <3>1, <3>2 DEF Sound, Ledgers, TaskOK
  <2>3. e \in Task /\ e.at = "write" /\ e.todo = d.todo
    BY <1>0, <2>1, AtChanged
  <2>4. f \in Task /\ f.at = "write" /\ f.todo = d.todo
    <3> HIDE DEF e, g
    <3> QED BY <2>2, <2>3, GoodsTaken
  <2>5. task' = [task EXCEPT ![s] = f]
    <3> HIDE DEF g
    <3>1. task' = [task EXCEPT ![s].at = "write", ![s].goods = g]
      BY <1>3 DEF SaveRead, g
    <3> QED
      BY <3>1 DEF Sound, Tasks, Task
  <2> HIDE DEF f
  <2>6. TaskOK(s, f)
    BY <2>1, <2>2, <2>4 DEF TaskOK
  <2>7. Tasks'
    BY <1>0, <2>5, <2>6, TaskStep DEF Sound
  <2> QED
    BY <1>3, <2>7 DEF SaveRead, Sound, Ledgers, Notes
<1>4. CASE SaveWrite(s)
  <2>1. d.at \in Saving
    BY <1>4 DEF SaveWrite, Saving
  <2>2. /\ rows' = [rows EXCEPT ![Saved(s)] = IF d.kind = "move" THEN d.goods
                                              ELSE [@ EXCEPT !.bags = d.goods.bags]]
        /\ NextSave(s) /\ Touches(s, {Saved(s)})
        /\ UNCHANGED <<online, live, balance, receipts, granted, spent>>
    BY <1>4, Zenon DEF SaveWrite
  <2>3. Tasks'
    BY <1>0, <2>1, <2>2, NextSaveStep DEF Sound
  <2>4. rows' \in [Players -> Goods]
    <3> DEFINE p == Saved(s)
               g == [rows[p] EXCEPT !.bags = d.goods.bags]
    <3>1. p \in Players
      BY <1>0, <2>1, SavedType DEF Sound
    <3>2. rows[p] \in Goods /\ d.goods \in Goods /\ d.goods.bags \in Counts
      BY <1>0, <3>1, TaskFields, GoodsFields DEF Sound, Ledgers
    <3>3. g \in Goods
      BY <3>2, GoodsChanged
    <3>4. rows' = [rows EXCEPT ![p] = d.goods] \/ rows' = [rows EXCEPT ![p] = g]
      <4> HIDE DEF p
      <4>1. rows' = [rows EXCEPT ![p] = IF d.kind = "move" THEN d.goods
                                        ELSE [@ EXCEPT !.bags = d.goods.bags]]
        BY <2>2 DEF p
      <4> QED
        BY <4>1
    <3> HIDE DEF p, g
    <3> QED
      BY <3>2, <3>3, <3>4, GoodsReplaced DEF Sound, Ledgers
  <2>5. Notes'
    BY <2>2, HarmStays DEF Sound, Notes
  <2> QED
    BY <2>2, <2>3, <2>4, <2>5 DEF Sound, Ledgers
<1>5. CASE SaveLost(s)
  <2>1. d.at \in Saving
    BY <1>5 DEF SaveLost, Saving
  <2>2. NextSave(s)
    BY <1>5, Zenon DEF SaveLost
  <2>3. Tasks'
    BY <1>0, <2>1, <2>2, NextSaveStep DEF Sound
  <2>4. /\ harm' = harm \cup {"unsaved"}
        /\ UNCHANGED <<online, live, rows, balance, receipts, granted, spent>>
    BY <1>5, Zenon DEF SaveLost
  <2> QED
    BY <2>3, <2>4 DEF Sound, Ledgers, Notes
<1> QED
  BY <1>1, <1>2, <1>3, <1>4, <1>5 DEF Moving

----------------------------------------------------------------------------
(* The types *)

LEMMA StepSound == Sound /\ [Next]_vars => Sound'
<1> SUFFICES ASSUME Sound, [Next]_vars PROVE Sound'
  OBVIOUS
<1>1. ASSUME NEW s \in Sessions, Login(s) \/ End(s) \/ Deal(s) \/ Handing(s) \/ Moving(s)
      PROVE  Sound'
  BY <1>1, LoginSound, EndSound, DealSound, HandingSound, MovingSound
<1>2. ASSUME NEW t \in Threads, Give(t) PROVE Sound'
  BY <1>2, GiveSound
<1>3. CASE GiftFails
  BY <1>3, GiftFailsSound
<1>4. CASE UNCHANGED vars
  BY <1>4, TasksStay DEF vars, Sound, Ledgers, Notes
<1> QED
  BY <1>1, <1>2, <1>3, <1>4 DEF Next

LEMMA SoundIsTyped == Sound => TypeOK
<1> SUFFICES ASSUME Sound PROVE TypeOK
  OBVIOUS
<1>1. ASSUME NEW s \in Sessions, task[s].at \in LoggingIn \cup Dealing
      PROVE  task[s].who = Owner[s]
  BY <1>1, OwnerType DEF Sound, Tasks, TaskOK
<1> QED
  BY <1>1 DEF Sound, Tasks, Ledgers, Notes, TypeOK

(* No count of goods and no balance is ever negative, whatever deals, gifts, *)
(* shares, trades and moves are going on at once and wherever a session ends: *)
(* what a deal takes is on the copy it stores, and what it costs is in the   *)
(* balance it has read.                                                      *)
THEOREM BankTypes == Spec => []TypeOK
<1>1. Init => Sound
  BY InitSound
<1>2. Sound /\ [Next]_vars => Sound'
  BY StepSound
<1>3. Sound => TypeOK
  BY SoundIsTyped
<1> QED
  BY <1>1, <1>2, <1>3, PTL DEF Spec

----------------------------------------------------------------------------
(* One session of a character, and what it is about to store *)

InWorld(d) == d.at \notin {"off", "readbags", "register"}

(* The sessions at work are those of players in the world, one of each. *)
OneSession ==
    /\ \A s \in Sessions : InWorld(task[s]) => Owner[s] \in online
    /\ \A s, u \in Sessions :
          InWorld(task[s]) /\ InWorld(task[u]) /\ Owner[s] = Owner[u] => s = u

(* The balance a deal is about to store is the one of the account and what *)
(* the deal adds to it.                                                    *)
Pending == \A s \in Sessions :
    task[s].at = "store" => task[s].sum = balance[Owner[s]] + Credit(task[s])

Balanced == OneSession /\ Pending /\ balance = receipts

(* Thread t alone gets on, not into the world and not to the point of storing *)
(* a deal.                                                                    *)
GetsOn(t) ==
    /\ \A u \in Threads \ {t} : task'[u] = task[u]
    /\ task'[t].at # "store"
    /\ t \in Sessions /\ InWorld(task'[t]) => InWorld(task[t])

LEMMA PendingStep ==
  ASSUME Pending, NEW t \in Threads, UNCHANGED balance,
         \A u \in Threads \ {t} : task'[u] = task[u],
         t \in Sessions => task'[t].at # "store"
  PROVE  Pending'
<1>1. ASSUME NEW s \in Sessions, task'[s].at = "store"
      PROVE  task'[s].sum = balance'[Owner[s]] + Credit(task'[s])
  <2>1. s # t /\ s \in Threads
    BY <1>1 DEF Threads
  <2>2. task'[s] = task[s]
    BY <2>1
  <2> QED
    BY <1>1, <2>2 DEF Pending
<1> QED
  BY <1>1 DEF Pending, Credit, Total, Parted

LEMMA QuietStep ==
  ASSUME Balanced, NEW t \in Threads, GetsOn(t), UNCHANGED <<online, balance, receipts>>
  PROVE  Balanced'
<1>1. ASSUME NEW s \in Sessions PROVE s \in Threads
  BY DEF Threads
<1>2. ASSUME NEW s \in Sessions, s # t PROVE task'[s] = task[s]
  BY <1>1, <1>2 DEF GetsOn
<1>3. ASSUME NEW s \in Sessions, InWorld(task'[s]) PROVE InWorld(task[s])
  BY <1>2, <1>3 DEF GetsOn
<1>4. OneSession'
  BY <1>3 DEF Balanced, OneSession, InWorld
<1>5. Pending'
  BY PendingStep DEF Balanced, GetsOn
<1> QED
  BY <1>4, <1>5 DEF Balanced

LEMMA RestsGetsOn ==
  ASSUME Tasks, NEW t \in Threads, Rests(t), InWorld(task[t])
  PROVE  GetsOn(t)
BY DEF Tasks, Rests, Becomes, Doing, GetsOn, InWorld

LEMMA GotoGetsOn ==
  ASSUME Tasks, NEW t \in Threads, NEW at, Goto(t, at), at # "store", InWorld(task[t])
  PROVE  GetsOn(t)
BY DEF Tasks, Task, Goto, GetsOn, InWorld

LEMMA BecomesGetsOn ==
  ASSUME Tasks, NEW t \in Threads, NEW d, Becomes(t, d), d.at # "store",
         InWorld(d) => InWorld(task[t])
  PROVE  GetsOn(t)
BY DEF Tasks, Task, Becomes, GetsOn, InWorld

LEMMA LoginBalanced ==
  ASSUME Sound, Balanced, NEW s \in Sessions, Login(s)
  PROVE  Balanced'
<1>0. s \in Threads /\ Tasks
  BY OwnerType DEF Sound
<1>1. CASE ReadWorn(s)
  <2>1. GetsOn(s)
    BY <1>0, <1>1 DEF ReadWorn, Tasks, Becomes, Doing, GetsOn, InWorld
  <2> QED
    BY <1>0, <1>1, <2>1, QuietStep DEF ReadWorn
<1>2. CASE ReadBags(s)
  <2>1. GetsOn(s)
    BY <1>0, <1>2 DEF ReadBags, Tasks, Task, GetsOn, InWorld
  <2> QED
    BY <1>0, <1>2, <2>1, QuietStep DEF ReadBags
<1>3. CASE Register(s)
  <2>1. /\ \A u \in Threads \ {s} : task'[u] = task[u]
        /\ task'[s].at = "wear"
    BY <1>0, <1>3 DEF Register, Goto, Tasks, Task
  <2>2. /\ Owner[s] \notin online /\ online' = online \cup {Owner[s]}
        /\ UNCHANGED <<balance, receipts>>
    BY <1>3 DEF Register
  <2>3. Pending'
    BY <1>0, <2>1, <2>2, PendingStep DEF Balanced
  <2>4. ASSUME NEW u \in Sessions, u # s
        PROVE  task'[u] = task[u] /\ (InWorld(task[u]) => Owner[u] # Owner[s])
    <3>1. u \in Threads
      BY DEF Threads
    <3> QED
      BY <2>1, <2>2, <2>4, <3>1 DEF Balanced, OneSession
  <2>5. OneSession'
    <3>1. ASSUME NEW u \in Sessions, InWorld(task'[u]) PROVE Owner[u] \in online'
      BY <2>2, <2>4, <3>1 DEF Balanced, OneSession
    <3>2. ASSUME NEW u \in Sessions, NEW v \in Sessions,
                 InWorld(task'[u]), InWorld(task'[v]), Owner[u] = Owner[v]
          PROVE  u = v
      BY <2>4, <3>2 DEF Balanced, OneSession
    <3> QED
      BY <3>1, <3>2 DEF OneSession, InWorld
  <2> QED
    BY <2>2, <2>3, <2>5 DEF Balanced
<1>4. CASE Refused(s)
  <2>1. GetsOn(s)
    BY <1>0, <1>4 DEF Refused, Tasks, Becomes, Doing, GetsOn, InWorld
  <2> QED
    BY <1>0, <1>4, <2>1, QuietStep DEF Refused
<1>5. CASE Wear(s)
  <2>1. GetsOn(s)
    BY <1>0, <1>5, GotoGetsOn DEF Wear, InWorld
  <2> QED
    BY <1>0, <1>5, <2>1, QuietStep DEF Wear
<1>6. CASE Pack(s)
  <2>1. GetsOn(s)
    BY <1>0, <1>6, RestsGetsOn DEF Pack, InWorld
  <2> QED
    BY <1>0, <1>6, <2>1, QuietStep DEF Pack
<1> QED
  BY <1>1, <1>2, <1>3, <1>4, <1>5, <1>6 DEF Login

LEMMA EndBalanced ==
  ASSUME Sound, Balanced, NEW s \in Sessions, End(s)
  PROVE  Balanced'
<1>0. s \in Threads /\ Tasks /\ TaskOK(s, task[s])
  BY OwnerType DEF Sound, Tasks
<1>1. /\ \A u \in Threads \ {s} : task'[u] = task[u]
      /\ task'[s].at = "off"
  BY <1>0 DEF End, Becomes, Doing, Tasks
<1>2. UNCHANGED <<balance, receipts>>
  BY DEF End
<1>3. CASE task[s].at \in {"readbags", "register"}
  <2>1. GetsOn(s)
    BY <1>1 DEF GetsOn, InWorld
  <2>2. UNCHANGED online
    BY <1>3 DEF End
  <2> QED
    BY <1>0, <1>2, <2>1, <2>2, QuietStep
<1>4. CASE task[s].at \notin {"readbags", "register"}
  <2>1. online' = online \ {Owner[s]}
    BY <1>4 DEF End
  <2>2. InWorld(task[s])
    BY <1>0, <1>4 DEF End, MayFail, InWorld
  <2>3. Pending'
    BY <1>0, <1>1, <1>2, PendingStep DEF Balanced
  <2>4. ASSUME NEW u \in Sessions, InWorld(task'[u])
        PROVE  task'[u] = task[u] /\ Owner[u] \in online'
    <3>1. u # s /\ u \in Threads
      BY <1>1, <2>4 DEF InWorld, Threads
    <3>2. task'[u] = task[u]
      BY <1>1, <3>1
    <3>3. Owner[u] # Owner[s] /\ Owner[u] \in online
      BY <2>2, <2>4, <3>1, <3>2 DEF Balanced, OneSession
    <3> QED
      BY <2>1, <3>2, <3>3
  <2>5. OneSession'
    <3>1. ASSUME NEW u \in Sessions, NEW v \in Sessions,
                 InWorld(task'[u]), InWorld(task'[v]), Owner[u] = Owner[v]
          PROVE  u = v
      BY <2>4, <3>1 DEF Balanced, OneSession
    <3> QED
      BY <2>4, <3>1 DEF OneSession, InWorld
  <2> QED
    BY <1>2, <2>3, <2>5 DEF Balanced
<1> QED
  BY <1>3, <1>4

(* The deal that is decided is the one that is stored. *)
LEMMA SettleBalanced ==
  ASSUME Sound, Balanced, NEW s \in Sessions, Settle(s)
  PROVE  Balanced'
<1> DEFINE d == task[s]
<1>0. s \in Threads /\ Tasks /\ d \in Task /\ InWorld(d)
  BY OwnerType DEF Sound, Tasks, Settle, InWorld
<1>1. UNCHANGED <<online, balance, receipts>>
  BY DEF Settle
<1>2. CASE Rests(s)
  BY <1>0, <1>1, <1>2, RestsGetsOn, QuietStep
<1>3. CASE task' = [task EXCEPT
                 ![s].at = IF d.kind = "remove" THEN "storeworn" ELSE "store",
                 ![s].sum = balance[Owner[s]] + Credit(d)]
  <2> DEFINE sum == balance[Owner[s]] + Credit(d)
             at == IF d.kind = "remove" THEN "storeworn" ELSE "store"
             e == [d EXCEPT !.at = at]
             f == [e EXCEPT !.sum = sum]
  <2>1. /\ e.kind = d.kind /\ e.thing = d.thing /\ e.n = d.n /\ e.goods = d.goods
        /\ e = [at |-> at, kind |-> d.kind, who |-> d.who, thing |-> d.thing, n |-> d.n,
                goods |-> d.goods, sum |-> d.sum, todo |-> d.todo]
    BY <1>0 DEF Task
  <2>2. /\ f.kind = d.kind /\ f.thing = d.thing /\ f.n = d.n /\ f.goods = d.goods
        /\ f.sum = sum
    <3> HIDE DEF e, sum
    <3> QED BY <2>1
  <2>3. task' = [task EXCEPT ![s] = f]
    <3> HIDE DEF sum, at
    <3>1. task' = [task EXCEPT ![s].at = at, ![s].sum = sum]
      BY <1>3 DEF sum, at
    <3> QED
      BY <1>0, <3>1 DEF Tasks, Task
  <2>4. task'[s] = f /\ \A u \in Threads \ {s} : task'[u] = task[u]
    <3> HIDE DEF f
    <3> QED BY <1>0, <2>3 DEF Tasks
  <2>5. Credit(f) = Credit(d)
    <3> HIDE DEF f
    <3> QED BY <2>2, DealIsKept
  <2>6. Pending'
    <3>1. ASSUME NEW u \in Sessions, task'[u].at = "store"
          PROVE  task'[u].sum = balance'[Owner[u]] + Credit(task'[u])
      <4>1. CASE u = s
        <5> HIDE DEF f
        <5> QED BY <1>1, <2>2, <2>4, <2>5, <4>1 DEF sum
      <4>2. CASE u # s
        <5>1. task'[u] = task[u]
          BY <2>4, <4>2 DEF Threads
        <5> QED
          BY <1>1, <3>1, <5>1 DEF Balanced, Pending
      <4> QED
        BY <4>1, <4>2
    <3> QED
      BY <3>1 DEF Pending, Credit, Total, Parted
  <2>7. OneSession'
    <3>1. ASSUME NEW u \in Sessions, InWorld(task'[u]) PROVE InWorld(task[u])
      BY <1>0, <2>4, <3>1 DEF Threads
    <3> QED
      BY <1>1, <3>1 DEF Balanced, OneSession, InWorld
  <2> QED
    BY <1>1, <2>6, <2>7 DEF Balanced
<1> QED
  BY <1>2, <1>3, Zenon DEF Settle

(* Nobody else has the balance of this account in mind. *)
LEMMA StoreDealBalanced ==
  ASSUME Sound, Balanced, NEW s \in Sessions, StoreDeal(s)
  PROVE  Balanced'
<1> DEFINE p == Owner[s]
           c == Credit(task[s])
<1>0. s \in Threads /\ Tasks /\ p \in Players /\ InWorld(task[s])
  BY OwnerType DEF Sound, StoreDeal, InWorld
<1>1. /\ balance' = [balance EXCEPT ![p] = task[s].sum]
      /\ receipts' = [receipts EXCEPT ![p] = receipts[p] + c]
      /\ Goto(s, "putworn") /\ UNCHANGED online
  BY DEF StoreDeal
<1>2. GetsOn(s)
  BY <1>0, <1>1, GotoGetsOn
<1>3. task[s].sum = balance[p] + c
  BY DEF StoreDeal, Balanced, Pending
<1>4. balance' = receipts'
  BY <1>1, <1>3 DEF Balanced, Sound, Ledgers
<1>5. ASSUME NEW u \in Sessions, InWorld(task'[u])
      PROVE  /\ InWorld(task[u])
             /\ u # s => Owner[u] # p /\ task'[u] = task[u]
             /\ u = s => task'[u].at # "store"
  <2>1. InWorld(task[u])
    BY <1>2, <1>5 DEF GetsOn, Threads
  <2>2. u # s => task'[u] = task[u]
    BY <1>2 DEF GetsOn, Threads
  <2> QED
    BY <1>0, <1>2, <2>1, <2>2 DEF Balanced, OneSession, GetsOn
<1>6. OneSession'
  BY <1>1, <1>5 DEF Balanced, OneSession, InWorld
<1>7. Pending'
  <2>1. ASSUME NEW u \in Sessions, task'[u].at = "store"
        PROVE  task'[u].sum = balance'[Owner[u]] + Credit(task'[u])
    <3>1. InWorld(task'[u])
      BY <2>1 DEF InWorld
    <3>2. u # s /\ Owner[u] # p /\ task'[u] = task[u]
      BY <1>5, <2>1, <3>1
    <3>3. balance'[Owner[u]] = balance[Owner[u]]
      BY <1>1, <3>2, OwnerType DEF Sound, Ledgers
    <3> QED
      BY <2>1, <3>2, <3>3 DEF Balanced, Pending
  <2> QED
    BY <2>1 DEF Pending, Credit, Total, Parted
<1> QED
  BY <1>4, <1>6, <1>7 DEF Balanced

LEMMA DealBalanced ==
  ASSUME Sound, Balanced, NEW s \in Sessions, Deal(s)
  PROVE  Balanced'
<1>0. s \in Threads /\ Tasks
  BY OwnerType DEF Sound
<1>1. CASE \E kind \in BankDeals \cup {"remove"}, x \in Things, n \in 1..MaxUnits :
               Begin(s, kind, x, n)
  <2>1. GetsOn(s) /\ UNCHANGED <<online, balance, receipts>>
    BY <1>0, <1>1 DEF Begin, Becomes, Doing, Tasks, GetsOn, InWorld
  <2> QED
    BY <1>0, <2>1, QuietStep
<1>2. CASE CopyBags(s)
  <2>1. GetsOn(s) /\ UNCHANGED <<online, balance, receipts>>
    BY <1>0, <1>2 DEF CopyBags, Tasks, Task, GetsOn, InWorld
  <2> QED
    BY <1>0, <2>1, QuietStep
<1>3. CASE StoreWorn(s)
  <2>1. GetsOn(s) /\ UNCHANGED <<online, balance, receipts>>
    BY <1>0, <1>3, GotoGetsOn DEF StoreWorn, InWorld
  <2> QED
    BY <1>0, <2>1, QuietStep
<1>4. CASE StoreBags(s)
  <2>1. GetsOn(s) /\ UNCHANGED <<online, balance, receipts>>
    BY <1>0, <1>4, GotoGetsOn DEF StoreBags, InWorld
  <2> QED
    BY <1>0, <2>1, QuietStep
<1>5. CASE PutWorn(s)
  <2>1. GetsOn(s) /\ UNCHANGED <<online, balance, receipts>>
    BY <1>0, <1>5, GotoGetsOn DEF PutWorn, InWorld
  <2> QED
    BY <1>0, <2>1, QuietStep
<1>6. CASE PutBags(s)
  <2>1. GetsOn(s) /\ UNCHANGED <<online, balance, receipts>>
    BY <1>0, <1>6, RestsGetsOn DEF PutBags, InWorld
  <2> QED
    BY <1>0, <2>1, QuietStep
<1> QED
  BY <1>1, <1>2, <1>3, <1>4, <1>5, <1>6, SettleBalanced, StoreDealBalanced DEF Deal

LEMMA GiveBalanced ==
  ASSUME Sound, Balanced, NEW t \in Threads, Give(t)
  PROVE  Balanced'
<1>0. Tasks
  BY DEF Sound
<1>1. CASE \E p \in Players, x \in Things, n \in 1..MaxUnits : LookUp(t, p, x, n)
  <2>1. GetsOn(t) /\ UNCHANGED <<online, balance, receipts>>
    BY <1>0, <1>1 DEF LookUp, Becomes, Doing, Tasks, GetsOn, InWorld
  <2> QED
    BY <2>1, QuietStep
<1>2. CASE Fetch(t)
  <2>1. InWorld(task[t]) /\ UNCHANGED <<online, balance, receipts>>
    BY <1>2 DEF Fetch, InWorld
  <2>2. GetsOn(t)
    <3>1. CASE Rests(t)
      BY <1>0, <2>1, <3>1, RestsGetsOn
    <3>2. CASE \E bags : task' = [task EXCEPT ![t].at = "grant", ![t].goods.bags = bags]
      BY <1>0, <2>1, <3>2 DEF Tasks, Task, GetsOn
    <3> QED
      BY <1>2, <3>1, <3>2 DEF Fetch
  <2> QED
    BY <2>1, <2>2, QuietStep
<1>3. CASE Grant(t)
  <2>1. /\ InWorld(task[t]) /\ UNCHANGED <<online, balance, receipts>>
        /\ Goto(t, "deliver") \/ Rests(t)
    <3>1. task[t].at = "grant" /\ (Goto(t, "deliver") \/ Rests(t))
      BY <1>3, Zenon DEF Grant
    <3>2. UNCHANGED <<online, balance, receipts>>
      BY <1>3, Zenon DEF Grant
    <3> QED
      BY <3>1, <3>2 DEF InWorld
  <2>2. GetsOn(t)
    BY <1>0, <2>1, GotoGetsOn, RestsGetsOn
  <2> QED
    BY <2>1, <2>2, QuietStep
<1>4. CASE Deliver(t)
  <2>1. GetsOn(t) /\ UNCHANGED <<online, balance, receipts>>
    BY <1>0, <1>4, RestsGetsOn DEF Deliver, InWorld
  <2> QED
    BY <2>1, QuietStep
<1> QED
  BY <1>1, <1>2, <1>3, <1>4 DEF Give

LEMMA GiftFailsBalanced ==
  ASSUME Sound, Balanced, GiftFails
  PROVE  Balanced'
<1>1. Operator \in Threads /\ Tasks
  BY DEF Threads, Sound
<1>2. Rests(Operator) /\ UNCHANGED <<online, balance, receipts>>
  BY DEF GiftFails
<1>3. GetsOn(Operator)
  BY <1>1, <1>2, BankAssumption DEF Rests, Becomes, Doing, Tasks, GetsOn
<1> QED
  BY <1>1, <1>2, <1>3, QuietStep

LEMMA HandingBalanced ==
  ASSUME Sound, Balanced, NEW s \in Sessions, Handing(s)
  PROVE  Balanced'
<1>0. s \in Threads /\ Tasks
  BY OwnerType DEF Sound
<1>1. CASE \E p \in Players, kind \in {"loot", "reward"}, x \in Things, n \in 1..MaxUnits :
               Offer(s, p, kind, x, n)
  <2>1. GetsOn(s) /\ UNCHANGED <<online, balance, receipts>>
    BY <1>0, <1>1 DEF Offer, Becomes, Doing, Tasks, GetsOn, InWorld
  <2> QED
    BY <1>0, <2>1, QuietStep
<1>2. CASE Hand(s)
  <2>1. InWorld(task[s]) /\ UNCHANGED <<online, balance, receipts>>
    <3>1. task[s].at = "hand" /\ UNCHANGED <<online, balance, receipts>>
      BY <1>2, Zenon DEF Hand
    <3> QED
      BY <3>1 DEF InWorld
  <2>2. GetsOn(s)
    <3>1. CASE task[s].kind = "loot"
      <4>1. Goto(s, "storehanded")
        BY <1>2, <3>1, Zenon DEF Hand
      <4> QED
        BY <1>0, <2>1, <4>1, GotoGetsOn
    <3>2. CASE task[s].kind # "loot"
      <4>1. task' = [task EXCEPT ![s].at = "save", ![s].todo = <<task[s].who>>]
        BY <1>2, <3>2 DEF Hand
      <4> QED
        BY <1>0, <2>1, <4>1 DEF Tasks, Task, GetsOn, InWorld
    <3> QED
      BY <3>1, <3>2
  <2> QED
    BY <1>0, <2>1, <2>2, QuietStep
<1>3. CASE StoreHanded(s)
  <2>1. GetsOn(s) /\ UNCHANGED <<online, balance, receipts>>
    BY <1>0, <1>3, RestsGetsOn DEF StoreHanded, InWorld
  <2> QED
    BY <1>0, <2>1, QuietStep
<1> QED
  BY <1>1, <1>2, <1>3 DEF Handing

LEMMA NextSaveGetsOn ==
  ASSUME Tasks, NEW t \in Threads, InWorld(task[t]), NextSave(t)
  PROVE  GetsOn(t)
<1>1. CASE Rests(t)
  BY <1>1, RestsGetsOn
<1>2. CASE task' = [task EXCEPT ![t].at = "save", ![t].todo = Tail(@)]
  BY <1>2 DEF Tasks, Task, GetsOn, InWorld
<1> QED
  BY <1>1, <1>2, Zenon DEF NextSave

LEMMA MovingBalanced ==
  ASSUME Sound, Balanced, NEW s \in Sessions, Moving(s)
  PROVE  Balanced'
<1>0. s \in Threads /\ Tasks
  BY OwnerType DEF Sound
<1>1. ASSUME NEW p, NEW kind, NEW todo, task[s].at = "idle",
             Becomes(s, [Doing("save", p) EXCEPT !.kind = kind, !.todo = todo])
      PROVE  GetsOn(s)
  BY <1>0, <1>1 DEF Becomes, Doing, Tasks, GetsOn, InWorld
<1>2. CASE \E from, to \in Players, x \in Things : \E todo \in {<<from, to>>, <<to, from>>} :
               Swap(s, from, to, x, todo)
  <2>1. PICK from \in Players, to \in Players, x \in Things :
            \E todo \in {<<from, to>>, <<to, from>>} : Swap(s, from, to, x, todo)
    BY <1>2
  <2>2. PICK todo \in {<<from, to>>, <<to, from>>} : Swap(s, from, to, x, todo)
    BY <2>1
  <2>3. /\ task[s].at = "idle"
        /\ Becomes(s, [Doing("save", Owner[s]) EXCEPT !.kind = "swap", !.todo = todo])
        /\ UNCHANGED <<online, balance, receipts>>
    BY <2>2, Zenon DEF Swap
  <2> QED
    BY <1>0, <1>1, <2>3, QuietStep
<1>3. CASE \E x \in Things : Move(s, x)
  <2>1. PICK x \in Things : Move(s, x)
    BY <1>3
  <2>2. /\ task[s].at = "idle"
        /\ Becomes(s, [Doing("save", Owner[s]) EXCEPT !.kind = "move", !.todo = <<Owner[s]>>])
        /\ UNCHANGED <<online, balance, receipts>>
    BY <2>1, Zenon DEF Move
  <2> QED
    BY <1>0, <1>1, <2>2, QuietStep
<1>4. CASE SaveRead(s)
  <2>1. GetsOn(s) /\ UNCHANGED <<online, balance, receipts>>
    BY <1>0, <1>4 DEF SaveRead, Tasks, Task, GetsOn, InWorld
  <2> QED
    BY <1>0, <2>1, QuietStep
<1>5. CASE SaveWrite(s) \/ SaveLost(s)
  <2>1. /\ task[s].at = "write" /\ NextSave(s)
        /\ UNCHANGED <<online, balance, receipts>>
    BY <1>5, Zenon DEF SaveWrite, SaveLost
  <2>2. InWorld(task[s])
    BY <2>1 DEF InWorld
  <2> QED
    BY <1>0, <2>1, <2>2, NextSaveGetsOn, QuietStep
<1> QED
  BY <1>2, <1>3, <1>4, <1>5 DEF Moving

LEMMA InitBalanced == Init => Balanced
<1> SUFFICES ASSUME Init PROVE Balanced
  OBVIOUS
<1>1. ASSUME NEW s \in Sessions PROVE task[s].at = "off"
  BY <1>1, BankAssumption DEF Init, Threads, Doing
<1> QED
  BY <1>1 DEF Init, Balanced, OneSession, Pending, InWorld

LEMMA StepBalanced == Sound /\ Balanced /\ [Next]_vars => Balanced'
<1> SUFFICES ASSUME Sound, Balanced, [Next]_vars PROVE Balanced'
  OBVIOUS
<1>1. ASSUME NEW s \in Sessions, Login(s) \/ End(s) \/ Deal(s) \/ Handing(s) \/ Moving(s)
      PROVE  Balanced'
  BY <1>1, LoginBalanced, EndBalanced, DealBalanced, HandingBalanced, MovingBalanced
<1>2. ASSUME NEW t \in Threads, Give(t) PROVE Balanced'
  BY <1>2, GiveBalanced
<1>3. CASE GiftFails
  BY <1>3, GiftFailsBalanced
<1>4. CASE UNCHANGED vars
  BY <1>4 DEF vars, Balanced, OneSession, Pending, InWorld, Credit, Total, Parted
<1> QED
  BY <1>1, <1>2, <1>3, <1>4 DEF Next

(* The balance of every account is what the replies of the bank and the shops *)
(* add up to.  A deal reads it and writes it by two transactions; it is right *)
(* because a character has one session in the world (OneSession), so that the *)
(* balance a session has in mind is still that of the account (Pending).      *)
THEOREM BankBalance == Spec => []BalanceIsReceipts
<1>1. Init => Sound /\ Balanced
  BY InitSound, InitBalanced
<1>2. Sound /\ Balanced /\ [Next]_vars => (Sound /\ Balanced)'
  BY StepSound, StepBalanced
<1>3. Balanced => BalanceIsReceipts
  BY DEF Balanced, BalanceIsReceipts
<1> QED
  BY <1>1, <1>2, <1>3, PTL DEF Spec

----------------------------------------------------------------------------
(* Sums over finite sets, as MapThenSumSet takes them *)

Pick(s) == CHOOSE x \in s : TRUE

(* it is the sum of F over every subset of S. *)
Sums(F, S, it) ==
    it = [s \in SUBSET S |-> IF s = {} THEN 0 ELSE F[Pick(s)] + it[s \ {Pick(s)}]]

LEMMA SmallestSet ==
  ASSUME NEW S, IsFiniteSet(S), NEW Bad, Bad \subseteq SUBSET S, Bad # {}
  PROVE  \E s \in Bad : \A t \in Bad : t \subseteq s => t = s
<1> DEFINE R == StrictSubsetOrdering(S)
<1>1. IsWellFoundedOn(R, SUBSET S)
  BY FS_StrictSubsetOrderingWellFounded, FS_FiniteSubsetsOfFinite
<1>2. \A s, t \in SUBSET S : <<t, s>> \in R <=> t \subseteq s /\ t # s
  BY DEF StrictSubsetOrdering
<1> HIDE DEF R
<1>3. \E s \in Bad : \A t \in Bad : ~ (<<t, s>> \in R)
  BY <1>1, WFMin
<1> QED
  BY <1>2, <1>3

LEMMA SumOf ==
  ASSUME NEW S, NEW F, NEW it, Sums(F, S, it)
  PROVE  \A s \in SUBSET S : it[s] = IF s = {} THEN 0 ELSE F[Pick(s)] + it[s \ {Pick(s)}]
BY DEF Sums

LEMMA PickType == ASSUME NEW s, s # {} PROVE Pick(s) \in s
BY DEF Pick

(* Summands that differ at one place only make sums that differ as they do. *)
LEMMA SumsDiffer ==
  ASSUME NEW S, IsFiniteSet(S), NEW F \in [S -> Int], NEW G \in [S -> Int], NEW a,
         \A x \in S \ {a} : G[x] = F[x],
         NEW T \in SUBSET S, NEW U \in SUBSET S, NEW it, NEW jt,
         Sums(F, T, it), Sums(G, U, jt), NEW r, r \subseteq T, r \subseteq U
  PROVE  /\ it[r] \in Int
         /\ a \in r => jt[r] = it[r] + (G[a] - F[a])
         /\ a \notin r => jt[r] = it[r]
<1>i. \A v \in SUBSET T : it[v] = IF v = {} THEN 0 ELSE F[Pick(v)] + it[v \ {Pick(v)}]
  BY DEF Sums
<1>j. \A v \in SUBSET U : jt[v] = IF v = {} THEN 0 ELSE G[Pick(v)] + jt[v \ {Pick(v)}]
  BY DEF Sums
<1> DEFINE OK(s) == /\ it[s] \in Int
                    /\ a \in s => jt[s] = it[s] + (G[a] - F[a])
                    /\ a \notin s => jt[s] = it[s]
           Bad == {s \in SUBSET (T \cap U) : ~OK(s)}
<1>1. SUFFICES Bad = {}
  BY <1>1
<1>2. SUFFICES ASSUME Bad # {} PROVE FALSE
  OBVIOUS
<1>3. PICK s \in Bad : \A t \in Bad : t \subseteq s => t = s
  <2>1. Bad \subseteq SUBSET S
    OBVIOUS
  <2> HIDE DEF Bad
  <2> QED BY <1>2, <2>1, SmallestSet
<1>4. s \subseteq T /\ s \subseteq U /\ ~OK(s)
  OBVIOUS
<1>5. CASE s = {}
  <2>1. it[s] = 0 /\ jt[s] = 0
    BY <1>4, <1>5, <1>i, <1>j
  <2> QED
    BY <1>4, <1>5, <2>1
<1>6. CASE s # {}
  <2> DEFINE x == Pick(s)
             t == s \ {x}
  <2>1. x \in s /\ it[s] = F[x] + it[t] /\ jt[s] = G[x] + jt[t]
    BY <1>4, <1>6, <1>i, <1>j, PickType
  <2>2. OK(t)
    BY <1>3, <1>4, <2>1
  <2>3. x \in S /\ F[x] \in Int /\ G[x] \in Int
    BY <1>4, <2>1
  <2>4. CASE x = a
    BY <2>1, <2>2, <2>3, <2>4, <1>4
  <2>5. CASE x # a
    <3>1. G[x] = F[x] /\ (a \in t <=> a \in s)
      BY <2>3, <2>5
    <3>2. CASE a \in s
      <4>1. G[a] \in Int /\ F[a] \in Int
        BY <1>4, <3>2
      <4> QED
        BY <2>1, <2>2, <2>3, <3>1, <3>2, <4>1, <1>4
    <3>3. CASE a \notin s
      BY <2>1, <2>2, <2>3, <3>1, <3>3, <1>4
    <3> QED
      BY <3>2, <3>3
  <2> QED
    BY <2>4, <2>5
<1> QED
  BY <1>5, <1>6

LEMMA SumsAgree ==
  ASSUME NEW S, IsFiniteSet(S), NEW F \in [S -> Int],
         NEW T \in SUBSET S, NEW U \in SUBSET S, NEW it, NEW jt,
         Sums(F, T, it), Sums(F, U, jt), NEW r, r \subseteq T, r \subseteq U
  PROVE  it[r] \in Int /\ jt[r] = it[r]
<1>1. PICK a : a \notin S
  BY NoSetContainsEverything
<1>2. it[r] \in Int /\ (a \notin r => jt[r] = it[r])
  BY SumsDiffer
<1> QED
  BY <1>1, <1>2

(* Every finite sum exists: a smallest set without one would have the sums of *)
(* its proper subsets put together.                                           *)
LEMMA SumsExist ==
  ASSUME NEW S, IsFiniteSet(S), NEW F \in [S -> Int]
  PROVE  \E it : Sums(F, S, it)
<1> DEFINE Bad == {s \in SUBSET S : ~\E it : Sums(F, s, it)}
<1>1. SUFFICES ASSUME Bad # {} PROVE FALSE
  OBVIOUS
<1>2. PICK T \in Bad : \A t \in Bad : t \subseteq T => t = T
  <2>1. Bad \subseteq SUBSET S
    OBVIOUS
  <2> HIDE DEF Bad
  <2> QED BY <1>1, <2>1, SmallestSet
<1> DEFINE H(s) == CHOOSE it : Sums(F, s, it)
           jt == [s \in SUBSET T |-> IF s = T /\ T # {}
                                     THEN F[Pick(T)] + H(T \ {Pick(T)})[T \ {Pick(T)}]
                                     ELSE IF s = {} THEN 0 ELSE H(s)[s]]
<1>3. T \in SUBSET S /\ ~\E it : Sums(F, T, it)
  OBVIOUS
<1>4. ASSUME NEW s \in SUBSET T, s # T PROVE Sums(F, s, H(s))
  <2>1. \E it : Sums(F, s, it)
    BY <1>2, <1>3, <1>4
  <2> QED
    BY <2>1, Zenon
<1>5. ASSUME NEW s \in SUBSET T
      PROVE  jt[s] = IF s = {} THEN 0 ELSE F[Pick(s)] + jt[s \ {Pick(s)}]
  <2> HIDE DEF H, Bad
  <2> DEFINE x == Pick(s)
             t == s \ {x}
  <2>1. CASE s = {}
    BY <2>1
  <2>2. CASE s # {}
    <3>1. x \in s /\ t \in SUBSET T /\ t # T /\ t # s
      BY <2>2 DEF Pick
    <3>2. Sums(F, t, H(t))
      BY <1>4, <3>1
    <3>3. jt[t] = H(t)[t]
      <4> HIDE DEF x
      <4>1. CASE t = {}
        <5>1. H(t)[t] = 0
          BY <3>2, <4>1, SumOf
        <5> QED
          BY <3>1, <4>1, <5>1
      <4>2. CASE t # {}
        BY <3>1, <4>2
      <4> QED BY <4>1, <4>2
    <3>4. CASE s = T
      BY <2>2, <3>3, <3>4
    <3>5. CASE s # T
      <4>1. Sums(F, s, H(s))
        BY <1>4, <3>5
      <4>2. H(s)[s] = F[x] + H(s)[t]
        BY <2>2, <4>1, <3>5, SumOf
      <4>3. H(s)[t] = H(t)[t]
        <5>1. s \in SUBSET S /\ t \in SUBSET S /\ t \subseteq s
          BY <1>3, <3>1
        <5> HIDE DEF t
        <5> QED BY <3>2, <4>1, <5>1, SumsAgree
      <4>4. jt[s] = H(s)[s]
        BY <2>2, <3>5
      <4> QED
        BY <2>2, <3>3, <4>2, <4>3, <4>4
    <3> QED BY <3>4, <3>5
  <2> QED BY <2>1, <2>2
<1>6. Sums(F, T, jt)
  <2>1. jt = [s \in SUBSET T |-> jt[s]]
    OBVIOUS
  <2> HIDE DEF jt
  <2> QED BY <1>5, <2>1 DEF Sums
<1> QED
  BY <1>3, <1>6

SumOver(F, S) == (CHOOSE it : Sums(F, S, it))[S]

LEMMA SumIsTaken ==
  ASSUME NEW S, IsFiniteSet(S), NEW F \in [S -> Int]
  PROVE  Sums(F, S, CHOOSE it : Sums(F, S, it))
BY SumsExist, Zenon

LEMMA SumOverIs ==
  ASSUME NEW S, IsFiniteSet(S), NEW F \in [S -> Int], NEW it, Sums(F, S, it)
  PROVE  it[S] = SumOver(F, S)
<1> DEFINE jt == CHOOSE jt : Sums(F, S, jt)
<1>1. Sums(F, S, jt) /\ SumOver(F, S) = jt[S]
  BY SumIsTaken DEF SumOver
<1> HIDE DEF jt
<1> QED
  BY <1>1, SumsAgree

LEMMA SumOverType ==
  ASSUME NEW S, IsFiniteSet(S), NEW F \in [S -> Int]
  PROVE  SumOver(F, S) \in Int
<1> DEFINE it == CHOOSE it : Sums(F, S, it)
<1>1. Sums(F, S, it)
  BY SumIsTaken
<1>2. SumOver(F, S) = it[S]
  BY DEF SumOver
<1> HIDE DEF it
<1> QED
  BY <1>1, <1>2, SumsAgree

LEMMA SumOverDiffers ==
  ASSUME NEW S, IsFiniteSet(S), NEW F \in [S -> Int], NEW G \in [S -> Int], NEW a \in S,
         \A x \in S \ {a} : G[x] = F[x]
  PROVE  SumOver(G, S) = SumOver(F, S) + (G[a] - F[a])
<1> DEFINE sumF == CHOOSE it : Sums(F, S, it)
           sumG == CHOOSE it : Sums(G, S, it)
<1>1. Sums(F, S, sumF) /\ Sums(G, S, sumG)
  BY SumIsTaken
<1>2. SumOver(F, S) = sumF[S] /\ SumOver(G, S) = sumG[S]
  BY DEF SumOver
<1> HIDE DEF sumF, sumG
<1> QED
  BY <1>1, <1>2, SumsDiffer

(* Two summands that differ. *)
LEMMA SumOverDiffersTwice ==
  ASSUME NEW S, IsFiniteSet(S), NEW F \in [S -> Int], NEW G \in [S -> Int],
         NEW a \in S, NEW b \in S, a # b,
         \A x \in S \ {a, b} : G[x] = F[x]
  PROVE  SumOver(G, S) = SumOver(F, S) + (G[a] - F[a]) + (G[b] - F[b])
<1> DEFINE H == [F EXCEPT ![a] = G[a]]
<1>1. H \in [S -> Int] /\ H[a] = G[a] /\ \A x \in S \ {a} : H[x] = F[x]
  OBVIOUS
<1> HIDE DEF H
<1>2. SumOver(H, S) = SumOver(F, S) + (H[a] - F[a])
  BY <1>1, SumOverDiffers
<1>3. \A x \in S \ {b} : G[x] = H[x]
  BY <1>1
<1>4. SumOver(G, S) = SumOver(H, S) + (G[b] - H[b])
  BY <1>1, <1>3, SumOverDiffers
<1>5. SumOver(F, S) \in Int /\ SumOver(G, S) \in Int /\ SumOver(H, S) \in Int
  BY <1>1, SumOverType
<1> QED
  BY <1>1, <1>2, <1>4, <1>5

LEMMA WorthsType ==
  ASSUME NEW g \in Goods
  PROVE  [x \in Things |-> Worth(x) * Total(g, x)] \in [Things -> Int]
BY TotalType, WorthType

(* What goods are worth, a sum over the kinds of things. *)
LEMMA ValueIsSum ==
  ASSUME NEW g \in Goods
  PROVE  Value(g) = SumOver([x \in Things |-> Worth(x) * Total(g, x)], Things)
<1> DEFINE F == [x \in Things |-> Worth(x) * Total(g, x)]
           P(it) == it = [s \in SUBSET Things |->
                             IF s = {} THEN 0
                             ELSE LET x == CHOOSE x \in s : TRUE
                                  IN  Worth(x) * Total(g, x) + it[s \ {x}]]
<1>1. F \in [Things -> Int]
  BY WorthsType
<1>2. \A it : Sums(F, Things, it) <=> P(it)
  <2> SUFFICES ASSUME NEW it PROVE Sums(F, Things, it) <=> P(it)
    OBVIOUS
  <2>1. ASSUME NEW s \in SUBSET Things
        PROVE  (IF s = {} THEN 0 ELSE F[Pick(s)] + it[s \ {Pick(s)}])
                  = IF s = {} THEN 0
                    ELSE LET x == CHOOSE x \in s : TRUE
                         IN  Worth(x) * Total(g, x) + it[s \ {x}]
    <3>1. s # {} => Pick(s) \in Things
      BY PickType
    <3>2. s # {} => F[Pick(s)] = Worth(Pick(s)) * Total(g, Pick(s))
      BY <3>1
    <3> HIDE DEF F
    <3> QED BY <3>2 DEF Pick
  <2> HIDE DEF F
  <2> QED BY <2>1 DEF Sums
<1>3. Value(g) = (CHOOSE it : P(it))[Things]
  BY DEF Value, MapThenSumSet, MapThenFoldSet
<1> HIDE DEF P, F
<1>4. PICK it : Sums(F, Things, it)
  BY <1>1, SumsExist, BankAssumption
<1>5. P(CHOOSE jt : P(jt))
  BY <1>2, <1>4, Zenon
<1>6. Sums(F, Things, CHOOSE jt : P(jt))
  BY <1>2, <1>5
<1>7. SumOver(F, Things) = (CHOOSE jt : P(jt))[Things]
  BY <1>1, <1>6, SumOverIs, BankAssumption
<1> QED
  BY <1>3, <1>7 DEF F

LEMMA ValueType == ASSUME NEW g \in Goods PROVE Value(g) \in Int
<1> DEFINE F == [x \in Things |-> Worth(x) * Total(g, x)]
<1>1. F \in [Things -> Int]
  BY WorthsType
<1>2. Value(g) = SumOver(F, Things)
  BY ValueIsSum
<1> HIDE DEF F
<1> QED
  BY <1>1, <1>2, SumOverType, BankAssumption

(* Goods that differ in the number of one thing. *)
LEMMA ValueDiffers ==
  ASSUME NEW g \in Goods, NEW h \in Goods, NEW a \in Things,
         \A x \in Things \ {a} : Total(h, x) = Total(g, x)
  PROVE  Value(h) = Value(g) + Worth(a) * (Total(h, a) - Total(g, a))
<1> DEFINE F == [x \in Things |-> Worth(x) * Total(g, x)]
           G == [x \in Things |-> Worth(x) * Total(h, x)]
<1>1. F \in [Things -> Int] /\ G \in [Things -> Int]
  BY WorthsType
<1>2. \A x \in Things \ {a} : G[x] = F[x]
  OBVIOUS
<1>3. F[a] = Worth(a) * Total(g, a) /\ G[a] = Worth(a) * Total(h, a)
  OBVIOUS
<1>4. Value(g) = SumOver(F, Things) /\ Value(h) = SumOver(G, Things)
  BY ValueIsSum
<1> HIDE DEF F, G
<1>5. Value(h) = Value(g) + (G[a] - F[a])
  BY <1>1, <1>2, <1>4, SumOverDiffers, BankAssumption
<1>6. Worth(a) \in Int /\ Total(g, a) \in Int /\ Total(h, a) \in Int
  BY WorthType, TotalType
<1>7. Worth(a) * Total(h, a) - Worth(a) * Total(g, a) = Worth(a) * (Total(h, a) - Total(g, a))
  <2>1. \A w, m, n \in Int : w * m - w * n = w * (m - n)
    OBVIOUS
  <2> QED BY <1>6, <2>1
<1> QED
  BY <1>3, <1>5, <1>7

----------------------------------------------------------------------------
(* Goods: who has copies of what, and what is still to be stored *)

(* The players a thread with task d holds, cf. Holds. *)
Reach(d) ==
    CASE d.at \in {"off", "idle"} -> {}
      [] d.at \in Saving -> {d.todo[i] : i \in DOMAIN d.todo}
      [] OTHER -> {d.who}

Present(d) == Received(d.goods, d.thing, d.n)

(* Task d has changed the rows of p and not yet the world, or the world and *)
(* not yet the rows.                                                         *)
Settles(d, p) == d.at \in {"storebags", "putworn", "putbags", "deliver"} /\ d.who = p
Owes(d, p) == \/ d.at = "storehanded" /\ d.who = p
              \/ d.at \in Saving /\ p \in Reach(d)
HalfDone(d, p) == Settles(d, p) \/ Owes(d, p)

(* What the copies of task d have to do with the goods L of p in the world and *)
(* its goods R in the rows.                                                     *)
Knows(d, p, L, R) ==
    /\ d.at \in Dealing /\ d.kind \in {"buy", "sell"} => d.thing # Coin
    /\ d.at = "store" => d.kind \in BankDeals
    /\ d.at \in {"storeworn", "storebags"} => d.kind = "remove"
    /\ d.at = "readbags" => d.goods.worn = R.worn
    /\ d.at \in {"register", "wear", "pack"} => d.goods = R
    /\ d.at = "pack" => d.goods.worn = L.worn
    /\ d.at = "copybags" => d.goods.worn = L.worn
    /\ d.at \in {"settle", "store", "storeworn", "storebags", "putworn", "hand"} => d.goods = L
    /\ d.at = "storebags" => R.worn = After(d).worn /\ R.bags = L.bags
    /\ d.at \in {"putworn", "putbags"} => R = After(d)
    /\ d.at = "putbags" => L.worn = R.worn
    /\ d.at = "grant" => d.goods.bags = IF d.kind = "giftlive" THEN L.bags ELSE R.bags
    /\ d.at = "deliver" => R.bags = Present(d).bags
    /\ d.at = "storehanded" => L.bags = Present(d).bags
    /\ d.at \in {"deliver", "storehanded"} => R.worn = L.worn
    /\ d.at \in Saving /\ d.kind # "move" => R.worn = L.worn
    /\ d.at = "write" /\ p = Head(d.todo) => d.goods = L

(* The goods of a player in the world are changed in the world, those of one *)
(* that is not there in the rows.                                             *)
InTheWorld(d) == \/ d.at \in {"hand", "storehanded", "deliver"} \cup Saving
                 \/ d.at = "grant" /\ d.kind = "giftlive"
InTheRows(d) == d.at \in {"fetch", "grant"} /\ d.kind # "giftlive"

CopiesMatch == \A t \in Threads : \A p \in Reach(task[t]) :
                   Knows(task[t], p, live[p], rows[p])

TargetsStay == \A t \in Threads : \A p \in Reach(task[t]) :
                   /\ InTheWorld(task[t]) => Packed(p)
                   /\ InTheRows(task[t]) => p \notin online

OneAtATime == \A t, u \in Threads : \A p \in Players :
                  HalfDone(task[t], p) /\ HalfDone(task[u], p) => t = u

OthersStored == \A p \in Players :
                    Packed(p) /\ (\A t \in Threads : ~HalfDone(task[t], p)) => rows[p] = live[p]

BridgeGives == task[Operator].at \in {"idle", "fetch", "grant", "deliver"}

Kept == CopiesMatch /\ TargetsStay /\ OneAtATime /\ OthersStored

Estate(p) == IF Packed(p) /\ \A t \in Threads : ~Settles(task[t], p) THEN live[p] ELSE rows[p]


LEMMA HoldsIsReach == \A t \in Threads : Holds(t) = Reach(task[t])
BY DEF Holds, Reach

LEMMA ReachIs ==
  ASSUME NEW d
  PROVE  /\ d.at \in {"off", "idle"} => Reach(d) = {}
         /\ d.at \in Saving => Reach(d) = {d.todo[i] : i \in DOMAIN d.todo}
         /\ d.at \notin {"off", "idle"} \cup Saving => Reach(d) = {d.who}
BY DEF Reach, Saving

LEMMA ReachType == ASSUME NEW d \in Task PROVE Reach(d) \subseteq Players
<1>1. ASSUME NEW i \in DOMAIN d.todo PROVE d.todo[i] \in Players
  <2>1. d.todo \in Seq(Players)
    BY TaskFields
  <2> HIDE DEF Task
  <2> QED BY <2>1
<1>2. d.who \in Players
  BY TaskFields
<1> QED
  BY <1>1, <1>2, ReachIs DEF Saving

(* Who is only half done is held. *)
LEMMA HalfDoneIsHeld ==
  ASSUME NEW d, NEW p, HalfDone(d, p)
  PROVE  p \in Reach(d)
BY ReachIs DEF HalfDone, Settles, Owes, Saving

(* A step that changes goods and does no harm changes nobody's another thread *)
(* holds.                                                                      *)
LEMMA TouchesAlone ==
  ASSUME NEW t \in Threads, NEW S, Touches(t, S), harm' = {}
  PROVE  harm = {} /\ \A u \in Threads \ {t} : Reach(task[u]) \cap S = {}
BY HoldsIsReach DEF Touches, Crossed

(* Whose containers are there changes with the session of the player only. *)
HasBags(d) == d.at \notin {"off"} \cup LoggingIn

LEMMA PackedSame ==
  ASSUME NEW t \in Threads, \A u \in Threads \ {t} : task'[u] = task[u],
         t \in Sessions => (HasBags(task'[t]) <=> HasBags(task[t])), NEW q
  PROVE  Packed(q)' <=> Packed(q)
<1>1. \A s \in Sessions : HasBags(task'[s]) <=> HasBags(task[s])
  BY DEF Threads
<1> QED
  BY <1>1 DEF Packed, HasBags

LEMMA PackedByOwner ==
  ASSUME NEW s \in Sessions, \A u \in Threads \ {s} : task'[u] = task[u],
         NEW q, q # Owner[s]
  PROVE  Packed(q)' <=> Packed(q)
BY DEF Packed, Threads

LEMMA PackedOnline ==
  ASSUME OneSession, NEW p, Packed(p)
  PROVE  p \in online
BY DEF OneSession, Packed, InWorld, LoggingIn

(* Step by thread t that changes the goods of S, and what is still to be done *)
(* for them, at most.                                                          *)
Changes(t, S) ==
    /\ S \subseteq Players
    /\ \A u \in Threads \ {t} : task'[u] = task[u] /\ Reach(task[u]) \cap S = {}
    /\ \A q \in Players \ S :
          /\ live'[q] = live[q] /\ rows'[q] = rows[q]
          /\ Packed(q)' <=> Packed(q)
          /\ q \in online' <=> q \in online
          /\ Settles(task'[t], q) <=> Settles(task[t], q)
          /\ HalfDone(task'[t], q) <=> HalfDone(task[t], q)

(* What has to be shown of the thread itself, and of S. *)
Restores(t, S) ==
    /\ \A p \in Reach(task'[t]) :
          /\ Knows(task'[t], p, live'[p], rows'[p])
          /\ InTheWorld(task'[t]) => Packed(p)'
          /\ InTheRows(task'[t]) => p \notin online'
    /\ \A p \in S : Packed(p)' /\ ~HalfDone(task'[t], p) => rows'[p] = live'[p]

LEMMA KeptStep ==
  ASSUME Kept, Tasks, Tasks', NEW t \in Threads, NEW S, Changes(t, S), Restores(t, S)
  PROVE  Kept'
<1>0. ASSUME NEW u \in Threads
      PROVE  Reach(task[u]) \subseteq Players /\ Reach(task'[u]) \subseteq Players
  BY <1>0, ReachType DEF Tasks
<1>1. ASSUME NEW u \in Threads \ {t}, NEW p \in Reach(task'[u])
      PROVE  /\ p \in Reach(task[u]) /\ task'[u] = task[u] /\ p \in Players \ S
             /\ live'[p] = live[p] /\ rows'[p] = rows[p]
             /\ Packed(p)' <=> Packed(p)
             /\ p \in online' <=> p \in online
  BY <1>0, <1>1 DEF Changes
<1>2. CopiesMatch'
  <2>1. ASSUME NEW u \in Threads, NEW p \in Reach(task'[u])
        PROVE  Knows(task'[u], p, live'[p], rows'[p])
    <3>1. CASE u = t
      BY <2>1, <3>1 DEF Restores
    <3>2. CASE u # t
      BY <1>1, <2>1, <3>2 DEF Kept, CopiesMatch
    <3> QED BY <3>1, <3>2
  <2> QED
    BY <2>1 DEF CopiesMatch, Reach, Knows, After, Present, Received, Parted, Total
<1>3. TargetsStay'
  <2>1. ASSUME NEW u \in Threads, NEW p \in Reach(task'[u])
        PROVE  /\ InTheWorld(task'[u]) => Packed(p)'
               /\ InTheRows(task'[u]) => p \notin online'
    <3>1. CASE u = t
      BY <2>1, <3>1 DEF Restores
    <3>2. CASE u # t
      BY <1>1, <2>1, <3>2 DEF Kept, TargetsStay
    <3> QED BY <3>1, <3>2
  <2> QED
    BY <2>1 DEF TargetsStay, Reach, InTheWorld, InTheRows
<1>4. ASSUME NEW u \in Threads, NEW p \in Players, HalfDone(task'[u], p)
      PROVE  \/ u # t /\ HalfDone(task[u], p) /\ task'[u] = task[u] /\ p \notin S
             \/ u = t /\ (p \in S \/ HalfDone(task[t], p))
  <2>1. CASE u = t
    BY <1>4, <2>1 DEF Changes
  <2>2. CASE u # t
    <3>1. p \in Reach(task'[u])
      BY <1>4, HalfDoneIsHeld
    <3> QED
      BY <1>1, <1>4, <2>2, <3>1
  <2> QED BY <2>1, <2>2
<1>5. OneAtATime'
  <2>1. ASSUME NEW u \in Threads, NEW v \in Threads, NEW p \in Players,
               HalfDone(task'[u], p), HalfDone(task'[v], p)
        PROVE  u = v
    <3>1. CASE u # t /\ v # t
      BY <1>4, <2>1, <3>1 DEF Kept, OneAtATime
    <3>2. CASE u = t /\ v # t
      BY <1>4, <2>1, <3>2 DEF Kept, OneAtATime
    <3>3. CASE u # t /\ v = t
      BY <1>4, <2>1, <3>3 DEF Kept, OneAtATime
    <3> QED BY <3>1, <3>2, <3>3
  <2> QED
    BY <2>1 DEF OneAtATime, HalfDone, Settles, Owes, Reach
<1>6. OthersStored'
  <2>1. ASSUME NEW p \in Players, Packed(p)', \A u \in Threads : ~HalfDone(task'[u], p)
        PROVE  rows'[p] = live'[p]
    <3>1. CASE p \in S
      BY <2>1, <3>1 DEF Restores
    <3>2. CASE p \notin S
      <4>1. Packed(p) /\ live'[p] = live[p] /\ rows'[p] = rows[p]
        BY <2>1, <3>2 DEF Changes
      <4>2. ASSUME NEW u \in Threads PROVE ~HalfDone(task[u], p)
        <5>1. CASE u = t
          BY <2>1, <3>2, <5>1 DEF Changes
        <5>2. CASE u # t
          <6>1. task'[u] = task[u]
            BY <5>2 DEF Changes
          <6> QED BY <2>1, <6>1
        <5> QED BY <5>1, <5>2
      <4> QED
        BY <4>1, <4>2 DEF Kept, OthersStored
    <3> QED BY <3>1, <3>2
  <2> QED
    BY <2>1 DEF OthersStored, HalfDone, Settles, Owes, Reach
<1> QED
  BY <1>2, <1>3, <1>5, <1>6 DEF Kept


(* The goods of players a step does not touch count as before; those of the *)
(* others are as far as the one thread at work on them has come.             *)
LEMMA EstateSame ==
  ASSUME NEW t \in Threads, NEW S, Changes(t, S), NEW q \in Players \ S
  PROVE  Estate(q)' = Estate(q)
<1>1. /\ live'[q] = live[q] /\ rows'[q] = rows[q]
      /\ Packed(q)' <=> Packed(q)
  BY DEF Changes
<1>2. ASSUME NEW u \in Threads PROVE Settles(task'[u], q) <=> Settles(task[u], q)
  <2>1. CASE u = t
    BY <2>1 DEF Changes
  <2>2. CASE u # t
    <3>1. task'[u] = task[u]
      BY <2>2 DEF Changes
    <3> QED BY <3>1
  <2> QED BY <2>1, <2>2
<1>3. (\A u \in Threads : ~Settles(task[u], q))' <=> \A u \in Threads : ~Settles(task[u], q)
  <2>1. (\A u \in Threads : ~Settles(task[u], q))' <=> \A u \in Threads : ~Settles(task'[u], q)
    BY DEF Settles
  <2> QED BY <1>2, <2>1
<1> QED
  BY <1>1, <1>3 DEF Estate

LEMMA EstateAlone ==
  ASSUME NEW t \in Threads, NEW S, Changes(t, S), NEW p \in S
  PROVE  /\ Estate(p) = IF Packed(p) /\ ~Settles(task[t], p) THEN live[p] ELSE rows[p]
         /\ Estate(p)' = IF Packed(p)' /\ ~Settles(task'[t], p) THEN live'[p] ELSE rows'[p]
<1>1. ASSUME NEW u \in Threads \ {t}
      PROVE  ~Settles(task[u], p) /\ ~Settles(task'[u], p)
  <2>1. task'[u] = task[u] /\ p \notin Reach(task[u])
    BY DEF Changes
  <2>2. ~Settles(task[u], p)
    BY <2>1, HalfDoneIsHeld DEF HalfDone
  <2> QED BY <2>1, <2>2
<1>2. (\A u \in Threads : ~Settles(task[u], p)) <=> ~Settles(task[t], p)
  BY <1>1
<1>3. (\A u \in Threads : ~Settles(task[u], p))' <=> ~Settles(task'[t], p)
  <2>1. (\A u \in Threads : ~Settles(task[u], p))' <=> \A u \in Threads : ~Settles(task'[u], p)
    BY DEF Settles
  <2> QED BY <1>1, <2>1
<1> QED
  BY <1>2, <1>3 DEF Estate

(* Goods are what is worn and what is carried. *)
LEMMA GoodsAre ==
  ASSUME NEW g \in Goods, NEW h \in Goods, g.worn = h.worn, g.bags = h.bags
  PROVE  g = h
BY DEF Goods

LEMMA BelongingsAreEstate ==
  ASSUME Kept, Tasks, Ledgers, NEW p \in Players
  PROVE  Belongings(p) = Estate(p) /\ Estate(p) \in Goods
<1>0. live[p] \in Goods /\ rows[p] \in Goods
  BY DEF Ledgers
<1>1. CASE Settling(p) = {}
  <2>1. \A t \in Threads : ~Settles(task[t], p)
    BY <1>1 DEF Settling, Settles
  <2> QED
    BY <1>0, <1>1, <2>1 DEF Belongings, Estate
<1>2. CASE Settling(p) # {}
  <2> DEFINE t == CHOOSE t \in Settling(p) : TRUE
             d == task[t]
  <2>1. t \in Settling(p)
    BY <1>2
  <2>2. t \in Threads /\ Settles(d, p)
    BY <2>1 DEF Settling, Settles
  <2>3. Estate(p) = rows[p]
    BY <2>2 DEF Estate
  <2>4. Belongings(p) =
          CASE d.at = "deliver"   -> [live[p] EXCEPT !.bags = Gift(t).bags]
            [] d.at = "storebags" -> [live[p] EXCEPT !.worn = After(d).worn]
            [] OTHER              -> After(d)
    BY <1>2 DEF Belongings
  <2> HIDE DEF t
  <2>5. d \in Task /\ TaskOK(t, d) /\ p \in Reach(d) /\ Knows(d, p, live[p], rows[p])
    BY <2>2, HalfDoneIsHeld DEF HalfDone, Tasks, TaskOK, Kept, CopiesMatch
  <2>6. CASE d.at = "deliver"
    <3>1. Gift(t).bags = rows[p].bags /\ rows[p].worn = live[p].worn
      BY <2>5, <2>6 DEF Knows, Gift, Present
    <3>2. [live[p] EXCEPT !.bags = rows[p].bags] = rows[p]
      BY <1>0, <3>1 DEF Goods
    <3> QED BY <1>0, <2>3, <2>4, <2>6, <3>1, <3>2
  <2>7. CASE d.at = "storebags"
    <3>1. rows[p].worn = After(d).worn /\ rows[p].bags = live[p].bags
      BY <2>5, <2>7 DEF Knows
    <3>2. [live[p] EXCEPT !.worn = rows[p].worn] = rows[p]
      BY <1>0, <3>1 DEF Goods
    <3> QED BY <1>0, <2>3, <2>4, <2>7, <3>1, <3>2
  <2>8. CASE d.at \in {"putworn", "putbags"}
    <3>1. rows[p] = After(d)
      BY <2>5, <2>8 DEF Knows
    <3> QED BY <1>0, <2>3, <2>4, <2>8, <3>1
  <2> QED
    BY <2>2, <2>6, <2>7, <2>8 DEF Settles
<1> QED BY <1>1, <1>2

(* What all players have: a sum over the players. *)
Estates == [p \in Players |-> Value(Belongings(p)) + balance[p]]

Countable == (\A p \in Players : Belongings(p) \in Goods) /\ balance \in [Players -> Nat]
Counted == Estates \in [Players -> Int] /\ Wealth = SumOver(Estates, Players)

LEMMA WealthIsSum == Countable => Counted
<1> SUFFICES ASSUME \A p \in Players : Belongings(p) \in Goods, balance \in [Players -> Nat]
             PROVE  Estates \in [Players -> Int] /\ Wealth = SumOver(Estates, Players)
  BY DEF Countable, Counted
<1> DEFINE P(it) == it = [s \in SUBSET Players |->
                             IF s = {} THEN 0
                             ELSE LET p == CHOOSE p \in s : TRUE
                                  IN  Value(Belongings(p)) + balance[p] + it[s \ {p}]]
<1>1. Estates \in [Players -> Int]
  BY ValueType DEF Estates
<1>2. \A it : Sums(Estates, Players, it) <=> P(it)
  <2> SUFFICES ASSUME NEW it PROVE Sums(Estates, Players, it) <=> P(it)
    OBVIOUS
  <2>1. ASSUME NEW s \in SUBSET Players
        PROVE  (IF s = {} THEN 0 ELSE Estates[Pick(s)] + it[s \ {Pick(s)}])
                  = IF s = {} THEN 0
                    ELSE LET p == CHOOSE p \in s : TRUE
                         IN  Value(Belongings(p)) + balance[p] + it[s \ {p}]
    <3>1. s # {} => Pick(s) \in Players
      BY PickType
    <3>2. s # {} => Estates[Pick(s)] = Value(Belongings(Pick(s))) + balance[Pick(s)]
      BY <3>1 DEF Estates
    <3> QED BY <3>2 DEF Pick
  <2> QED BY <2>1 DEF Sums
<1>3. Wealth = (CHOOSE it : P(it))[Players]
  BY DEF Wealth, MapThenSumSet, MapThenFoldSet
<1> HIDE DEF P
<1>4. PICK it : Sums(Estates, Players, it)
  BY <1>1, SumsExist, BankAssumption
<1>5. P(CHOOSE jt : P(jt))
  BY <1>2, <1>4, Zenon
<1>6. Sums(Estates, Players, CHOOSE jt : P(jt))
  BY <1>2, <1>5
<1>7. SumOver(Estates, Players) = (CHOOSE jt : P(jt))[Players]
  BY <1>1, <1>6, SumOverIs, BankAssumption
<1> QED
  BY <1>1, <1>3, <1>7

LEMMA WealthIsSumNext == Countable' => Counted'
BY WealthIsSum, PTL

BelongingsCounted ==
  \A p \in Players : Belongings(p) = Estate(p) /\ Estate(p) \in Goods

LEMMA BelongingsAreEstateNext ==
  Kept' /\ Tasks' /\ Ledgers' => BelongingsCounted'
<1>1. Kept /\ Tasks /\ Ledgers => BelongingsCounted
  BY BelongingsAreEstate DEF BelongingsCounted
<1> QED
  BY <1>1, PTL

(* A step changes the wealth by what it changes of the estates of the players *)
(* it touches.                                                                *)
LEMMA WealthStep ==
  ASSUME Kept, Tasks, Ledgers, Kept', Tasks', Ledgers',
         NEW p \in Players, NEW q \in Players,
         \A r \in Players \ {p, q} : Estate(r)' = Estate(r) /\ balance'[r] = balance[r],
         NEW n \in Int, NEW m \in Int, p = q => m = 0,
         Value(Estate(p)') + balance'[p] = Value(Estate(p)) + balance[p] + n,
         p # q => Value(Estate(q)') + balance'[q] = Value(Estate(q)) + balance[q] + m
  PROVE  Wealth \in Int /\ Wealth' = Wealth + n + m
<1>1. BelongingsCounted /\ BelongingsCounted'
  BY BelongingsAreEstate, BelongingsAreEstateNext DEF BelongingsCounted
<1>2. Countable /\ Countable'
  BY <1>1 DEF BelongingsCounted, Countable, Ledgers
<1>3. Counted /\ Counted'
  BY <1>2, WealthIsSum, WealthIsSumNext
<1> DEFINE F == Estates
           G == Estates'
<1>4. ASSUME NEW r \in Players
      PROVE  F[r] = Value(Estate(r)) + balance[r] /\ G[r] = Value(Estate(r)') + balance'[r]
  BY <1>1 DEF BelongingsCounted, Estates
<1>5. F \in [Players -> Int] /\ G \in [Players -> Int]
      /\ Wealth = SumOver(F, Players) /\ Wealth' = SumOver(G, Players)
  BY <1>3 DEF Counted
<1>6. \A r \in Players \ {p, q} : G[r] = F[r]
  BY <1>4
<1>7. G[p] = F[p] + n /\ (p # q => G[q] = F[q] + m)
  BY <1>4
<1> HIDE DEF F, G
<1>8. SumOver(F, Players) \in Int /\ SumOver(G, Players) \in Int
  BY <1>5, SumOverType, BankAssumption
<1>9. CASE p = q
  <2>1. SumOver(G, Players) = SumOver(F, Players) + (G[p] - F[p])
    BY <1>5, <1>6, <1>9, SumOverDiffers, BankAssumption
  <2> QED BY <1>5, <1>7, <1>8, <1>9, <2>1
<1>10. CASE p # q
  <2>1. SumOver(G, Players) = SumOver(F, Players) + (G[p] - F[p]) + (G[q] - F[q])
    BY <1>5, <1>6, <1>10, SumOverDiffersTwice, BankAssumption
  <2> QED BY <1>5, <1>7, <1>8, <1>10, <2>1
<1> QED BY <1>9, <1>10


----------------------------------------------------------------------------
(* Steps that do no harm *)

Firm == Sound /\ Balanced /\ BridgeGives /\ Kept

(* What a step is shown to do: the copies still match, and what it adds to the *)
(* wealth of the players was granted.                                          *)
Fair == /\ Kept'
        /\ Wealth \in Int
        /\ Wealth' - granted' = Wealth - granted

LEMMA QuietFair ==
  ASSUME Firm, Sound', NEW t \in Threads, NEW S, Changes(t, S), Restores(t, S),
         \A p \in S : Estate(p)' = Estate(p), UNCHANGED <<balance, granted>>
  PROVE  Fair
<1>1. Kept' /\ Tasks /\ Tasks' /\ Ledgers /\ Ledgers' /\ Kept
  BY KeptStep DEF Firm, Sound
<1>2. PICK p \in Players : TRUE
  BY BankAssumption
<1>3. \A q \in Players : Estate(q)' = Estate(q)
  BY EstateSame
<1>4. Value(Estate(p)) \in Int /\ balance[p] \in Nat
  BY <1>1, BelongingsAreEstate, ValueType DEF Ledgers
<1>5. Wealth \in Int /\ Wealth' = Wealth + 0 + 0
  BY <1>1, <1>3, <1>4, WealthStep
<1>6. granted \in Int
  BY <1>1 DEF Ledgers
<1> QED
  BY <1>1, <1>5, <1>6 DEF Fair

LEMMA ValueFair ==
  ASSUME Firm, Sound', NEW t \in Threads, NEW p \in Players,
         Changes(t, {p}), Restores(t, {p}),
         \A q \in Players \ {p} : balance'[q] = balance[q], NEW n \in Int,
         Value(Estate(p)') + balance'[p] = Value(Estate(p)) + balance[p] + n,
         granted' = granted + n
  PROVE  Fair
<1>1. Kept' /\ Tasks /\ Tasks' /\ Ledgers /\ Ledgers' /\ Kept
  BY KeptStep DEF Firm, Sound
<1>2. \A q \in Players \ {p} : Estate(q)' = Estate(q)
  BY EstateSame
<1>3. Wealth \in Int /\ Wealth' = Wealth + n + 0
  BY <1>1, <1>2, WealthStep
<1>4. granted \in Int
  BY <1>1 DEF Ledgers
<1> QED
  BY <1>1, <1>3, <1>4 DEF Fair

(* A thread goes on and changes no goods. *)
LEMMA StageFair ==
  ASSUME Firm, Sound', NEW t \in Threads,
         \A u \in Threads \ {t} : task'[u] = task[u],
         UNCHANGED <<online, live, rows, balance, granted>>,
         t \in Sessions => (HasBags(task'[t]) <=> HasBags(task[t])),
         \A q \in Players : ~HalfDone(task[t], q) /\ ~HalfDone(task'[t], q),
         \A p \in Reach(task'[t]) :
            /\ Knows(task'[t], p, live[p], rows[p])
            /\ InTheWorld(task'[t]) => Packed(p)
            /\ InTheRows(task'[t]) => p \notin online
  PROVE  Fair
<1>1. \A q : Packed(q)' <=> Packed(q)
  BY PackedSame
<1>2. Changes(t, {})
  <2>1. \A q \in Players : ~Settles(task[t], q) /\ ~Settles(task'[t], q)
    BY DEF HalfDone
  <2> QED BY <1>1, <2>1 DEF Changes
<1>3. Restores(t, {})
  BY <1>1 DEF Restores
<1> QED
  BY <1>2, <1>3, QuietFair

(* A thread that has changed nothing yet gives up. *)
LEMMA RestFair ==
  ASSUME Firm, Sound', NEW t \in Threads, NEW p \in Players, NEW at \in {"off", "idle"},
         task' = [task EXCEPT ![t] = Doing(at, p)],
         UNCHANGED <<online, live, rows, balance, granted>>,
         t \in Sessions => (at = "idle" <=> HasBags(task[t])),
         \A q \in Players : ~HalfDone(task[t], q)
  PROVE  Fair
<1>1. task'[t] = Doing(at, p) /\ \A u \in Threads \ {t} : task'[u] = task[u]
  BY DEF Firm, Sound, Tasks
<1>2. task'[t].at = at
  BY <1>1 DEF Doing
<1>3. Reach(task'[t]) = {}
  BY <1>2, ReachIs
<1>4. \A q \in Players : ~HalfDone(task'[t], q)
  BY <1>3, HalfDoneIsHeld
<1>5. HasBags(task'[t]) <=> at = "idle"
  BY <1>2 DEF HasBags, LoggingIn
<1> QED
  BY <1>1, <1>3, <1>4, <1>5, StageFair

(* The stages at which nothing is half done. *)
LEMMA WholeStages ==
  ASSUME NEW d, d.at \notin {"storebags", "putworn", "putbags", "deliver", "storehanded"} \cup Saving
  PROVE  \A q : ~HalfDone(d, q)
BY DEF HalfDone, Settles, Owes

LEMMA SessionTask ==
  ASSUME Firm, NEW s \in Sessions
  PROVE  /\ s \in Threads /\ Owner[s] \in Players /\ task[s] \in Task
         /\ task[s].at \in LoggingIn \cup Dealing => task[s].who = Owner[s]
         /\ task[s].at \in Dealing => task[s].kind \in Deals
         /\ live[Owner[s]] \in Goods /\ rows[Owner[s]] \in Goods /\ task[s].goods \in Goods
BY OwnerType, TaskFields DEF Firm, Sound, Tasks, TaskOK, Ledgers

(* Half of somebody's goods is put. *)
PutsBags(f, g, p, c) == g[p].worn = f[p].worn /\ g[p].bags = c /\ g[p] \in Goods
                        /\ \A q \in Players \ {p} : g[q] = f[q]
PutsWorn(f, g, p, c) == g[p].bags = f[p].bags /\ g[p].worn = c /\ g[p] \in Goods
                        /\ \A q \in Players \ {p} : g[q] = f[q]

LEMMA BagsPut ==
  ASSUME NEW f \in [Players -> Goods], NEW p \in Players, NEW c \in Counts
  PROVE  PutsBags(f, [f EXCEPT ![p].bags = c], p, c)
BY GoodsChanged DEF Goods, PutsBags

LEMMA WornPut ==
  ASSUME NEW f \in [Players -> Goods], NEW p \in Players, NEW c \in Counts
  PROVE  PutsWorn(f, [f EXCEPT ![p].worn = c], p, c)
BY GoodsChanged DEF Goods, PutsWorn

(* The containers of a player are there as far as its one session has come. *)
LEMMA OwnPacked ==
  ASSUME Firm, NEW s \in Sessions, InWorld(task[s]) \/ Owner[s] \notin online,
         \A u \in Threads \ {s} : task'[u] = task[u]
  PROVE  /\ Packed(Owner[s]) <=> HasBags(task[s])
         /\ Packed(Owner[s])' <=> HasBags(task'[s])
<1>1. ASSUME NEW u \in Sessions \ {s}, Owner[u] = Owner[s]
      PROVE  /\ ~HasBags(task[u]) /\ task'[u] = task[u]
  <2>1. ~InWorld(task[u])
    BY <1>1 DEF Firm, Balanced, OneSession
  <2> QED
    BY <2>1 DEF InWorld, HasBags, LoggingIn, Threads
<1> QED
  BY <1>1 DEF Packed, HasBags

(* A session is at work on the goods of its own player. *)
LEMMA OwnChanges ==
  ASSUME Firm, NEW s \in Sessions, Touches(s, {Owner[s]}), harm' = {},
         \A u \in Threads \ {s} : task'[u] = task[u],
         \A q \in Players \ {Owner[s]} :
            /\ live'[q] = live[q] /\ rows'[q] = rows[q]
            /\ q \in online' <=> q \in online
            /\ ~HalfDone(task[s], q) /\ ~HalfDone(task'[s], q)
  PROVE  Changes(s, {Owner[s]})
<1>1. s \in Threads /\ Owner[s] \in Players
  BY OwnerType
<1>2. \A u \in Threads \ {s} : Reach(task[u]) \cap {Owner[s]} = {}
  BY <1>1, TouchesAlone
<1>3. \A q \in Players \ {Owner[s]} : Packed(q)' <=> Packed(q)
  BY PackedByOwner
<1>4. \A q \in Players \ {Owner[s]} : ~Settles(task[s], q) /\ ~Settles(task'[s], q)
  BY DEF HalfDone
<1> QED
  BY <1>1, <1>2, <1>3, <1>4 DEF Changes

LEMMA LoginFair ==
  ASSUME Firm, Sound', NEW s \in Sessions, Login(s), harm' = {}
  PROVE  Fair
<1> DEFINE p == Owner[s]
<1>0. /\ s \in Threads /\ p \in Players /\ task[s] \in Task
      /\ task[s].at \in LoggingIn => task[s].who = p
      /\ live[p] \in Goods /\ rows[p] \in Goods /\ task[s].goods \in Goods
      /\ Tasks /\ Kept /\ OneSession /\ task \in [Threads -> Task]
  BY SessionTask DEF Firm, Sound, Tasks, Balanced
<1>k. ASSUME task[s].at \notin {"off", "idle"} \cup Saving
      PROVE  Knows(task[s], task[s].who, live[task[s].who], rows[task[s].who])
  BY <1>0, <1>k, ReachIs DEF Kept, CopiesMatch
<1>1. CASE ReadWorn(s)
  <2>1. /\ task[s].at = "off" /\ UNCHANGED <<online, live, rows, balance, granted>>
        /\ task' = [task EXCEPT ![s] = [Doing("readbags", p) EXCEPT !.goods.worn = rows[p].worn]]
    BY <1>1 DEF ReadWorn, Becomes
  <2>2. task'[s] = [Doing("readbags", p) EXCEPT !.goods.worn = rows[p].worn]
        /\ \A u \in Threads \ {s} : task'[u] = task[u]
    BY <1>0, <2>1
  <2>3. task'[s].at = "readbags" /\ task'[s].who = p /\ task'[s].goods.worn = rows[p].worn
        /\ task'[s].kind = "none"
    BY <2>2 DEF Doing, Empty
  <2>4. Reach(task'[s]) = {p} /\ HasBags(task[s]) = FALSE /\ HasBags(task'[s]) = FALSE
    BY <2>1, <2>3, ReachIs DEF Saving, HasBags, LoggingIn
  <2>5. \A q \in Players : ~HalfDone(task[s], q) /\ ~HalfDone(task'[s], q)
    BY <2>1, <2>3, WholeStages DEF Saving
  <2>6. /\ Knows(task'[s], p, live[p], rows[p])
        /\ ~InTheWorld(task'[s]) /\ ~InTheRows(task'[s])
    BY <2>3 DEF Knows, InTheWorld, InTheRows, Saving, Dealing
  <2> QED
    BY <1>0, <2>1, <2>2, <2>4, <2>5, <2>6, StageFair
<1>2. CASE ReadBags(s)
  <2>1. /\ task[s].at = "readbags" /\ UNCHANGED <<online, live, rows, balance, granted>>
        /\ task' = [task EXCEPT ![s].at = "register", ![s].goods.bags = rows[p].bags]
    BY <1>2 DEF ReadBags
  <2>2. \A u \in Threads \ {s} : task'[u] = task[u]
    BY <1>0, <2>1
  <2>3. /\ task'[s].at = "register" /\ task'[s].who = task[s].who
        /\ task'[s].goods.worn = task[s].goods.worn /\ task'[s].goods.bags = rows[p].bags
    BY <1>0, <2>1 DEF Task, Goods
  <2>4. task[s].who = p /\ task[s].goods.worn = rows[p].worn
    BY <1>0, <1>k, <2>1 DEF Knows, LoggingIn, Saving
  <2>5. task'[s].goods = rows[p]
    <3>1. task'[s].goods \in Goods
      BY <1>0, TaskFields DEF Sound, Tasks
    <3> QED BY <1>0, <2>3, <2>4, <3>1, GoodsAre
  <2>6. Reach(task'[s]) = {p} /\ HasBags(task[s]) = FALSE /\ HasBags(task'[s]) = FALSE
    BY <2>1, <2>3, <2>4, ReachIs DEF Saving, HasBags, LoggingIn
  <2>7. \A q \in Players : ~HalfDone(task[s], q) /\ ~HalfDone(task'[s], q)
    BY <2>1, <2>3, WholeStages DEF Saving
  <2>8. /\ Knows(task'[s], p, live[p], rows[p])
        /\ ~InTheWorld(task'[s]) /\ ~InTheRows(task'[s])
    BY <2>3, <2>5 DEF Knows, InTheWorld, InTheRows, Saving, Dealing
  <2> QED
    BY <1>0, <2>1, <2>2, <2>6, <2>7, <2>8, StageFair
<1>3. CASE Refused(s)
  <2>1. /\ task[s].at = "register" /\ UNCHANGED <<online, live, rows, balance, granted>>
        /\ task' = [task EXCEPT ![s] = Doing("off", p)]
    BY <1>3 DEF Refused, Becomes
  <2>2. \A q \in Players : ~HalfDone(task[s], q)
    BY <2>1, WholeStages DEF Saving
  <2> QED
    BY <1>0, <2>1, <2>2, RestFair DEF HasBags, LoggingIn
<1>4. CASE Register(s)
  <2>1. /\ task[s].at = "register" /\ p \notin online /\ UNCHANGED <<rows, balance, granted>>
        /\ live' = [live EXCEPT ![p] = Empty] /\ online' = online \cup {p}
        /\ task' = [task EXCEPT ![s].at = "wear"] /\ Touches(s, {p})
    BY <1>4 DEF Register, Goto
  <2>2. \A u \in Threads \ {s} : task'[u] = task[u]
    BY <1>0, <2>1
  <2>3. task'[s].at = "wear" /\ task'[s].who = p /\ task'[s].goods = task[s].goods
    BY <1>0, <2>1 DEF Task, LoggingIn
  <2>4. task[s].goods = rows[p]
    BY <1>0, <1>k, <2>1 DEF Knows, LoggingIn, Saving
  <2>5. ~Packed(p) /\ ~Packed(p)'
    BY <2>1, <2>2, <2>3, OwnPacked DEF HasBags, LoggingIn
  <2>6. \A q : ~HalfDone(task[s], q) /\ ~HalfDone(task'[s], q)
    BY <2>1, <2>3, WholeStages DEF Saving
  <2>7. Changes(s, {p})
    BY <1>0, <2>1, <2>2, <2>6, OwnChanges DEF Firm, Sound, Ledgers
  <2>8. Restores(s, {p})
    BY <2>1, <2>3, <2>4, <2>5, ReachIs
       DEF Restores, Knows, InTheWorld, InTheRows, Saving, Dealing
  <2>9. Estate(p)' = Estate(p)
    BY <2>1, <2>5, <2>7, EstateAlone, <1>0
  <2> QED
    BY <1>0, <2>1, <2>7, <2>8, <2>9, QuietFair
<1>5. CASE Wear(s)
  <2>1. /\ task[s].at = "wear" /\ UNCHANGED <<online, rows, balance, granted>>
        /\ live' = [live EXCEPT ![p].worn = task[s].goods.worn]
        /\ task' = [task EXCEPT ![s].at = "pack"] /\ Touches(s, {p})
    BY <1>5 DEF Wear, Goto
  <2>2. \A u \in Threads \ {s} : task'[u] = task[u]
    BY <1>0, <2>1
  <2>3. task'[s].at = "pack" /\ task'[s].who = p /\ task'[s].goods = task[s].goods
    BY <1>0, <2>1 DEF Task, LoggingIn
  <2>4. task[s].goods = rows[p]
    BY <1>0, <1>k, <2>1 DEF Knows, LoggingIn, Saving
  <2>5. ~Packed(p) /\ ~Packed(p)'
    BY <2>1, <2>2, <2>3, OwnPacked DEF HasBags, LoggingIn, InWorld
  <2>6. \A q : ~HalfDone(task[s], q) /\ ~HalfDone(task'[s], q)
    BY <2>1, <2>3, WholeStages DEF Saving
  <2>7. Changes(s, {p})
    BY <1>0, <2>1, <2>2, <2>6, OwnChanges DEF Firm, Sound, Ledgers
  <2>w. live'[p].worn = task[s].goods.worn
    BY <1>0, <2>1 DEF Firm, Sound, Ledgers, Goods
  <2>8. Restores(s, {p})
    BY <2>1, <2>3, <2>4, <2>5, <2>w, ReachIs
       DEF Restores, Knows, InTheWorld, InTheRows, Saving, Dealing
  <2>9. Estate(p)' = Estate(p)
    BY <2>1, <2>5, <2>7, EstateAlone, <1>0
  <2> QED
    BY <1>0, <2>1, <2>7, <2>8, <2>9, QuietFair
<1>6. CASE Pack(s)
  <2>1. /\ task[s].at = "pack" /\ UNCHANGED <<online, rows, balance, granted>>
        /\ live' = [live EXCEPT ![p].bags = task[s].goods.bags]
        /\ task' = [task EXCEPT ![s] = Doing("idle", task[s].who)] /\ Touches(s, {p})
    BY <1>6 DEF Pack, Rests, Becomes
  <2>2. \A u \in Threads \ {s} : task'[u] = task[u]
    BY <1>0, <2>1
  <2>3. task'[s].at = "idle"
    BY <1>0, <2>1 DEF Doing
  <2>4. task[s].goods = rows[p] /\ task[s].goods.worn = live[p].worn
    BY <1>0, <1>k, <2>1 DEF Knows, LoggingIn, Saving
  <2>5. ~Packed(p) /\ Packed(p)'
    BY <2>1, <2>2, <2>3, OwnPacked DEF HasBags, LoggingIn, InWorld
  <2>6. \A q : ~HalfDone(task[s], q) /\ ~HalfDone(task'[s], q)
    BY <2>1, <2>3, WholeStages DEF Saving
  <2>7. Changes(s, {p})
    BY <1>0, <2>1, <2>2, <2>6, OwnChanges DEF Firm, Sound, Ledgers
  <2>w. live'[p] = rows[p]
    <3>1. task[s].goods.bags \in Counts /\ live \in [Players -> Goods]
      BY <1>0, GoodsFields DEF Firm, Sound, Ledgers
    <3>2. PutsBags(live, live', p, task[s].goods.bags)
      BY <1>0, <2>1, <3>1, BagsPut, Zenon
    <3> QED BY <1>0, <2>4, <3>2, GoodsAre DEF PutsBags
  <2>8. Restores(s, {p})
    BY <2>1, <2>3, <2>w, ReachIs DEF Restores
  <2>9. Estate(p)' = Estate(p)
    <3>1. ~Settles(task[s], p) /\ ~Settles(task'[s], p)
      BY <2>6 DEF HalfDone
    <3> QED BY <2>1, <2>5, <2>7, <2>w, <3>1, EstateAlone, <1>0
  <2> QED
    BY <1>0, <2>1, <2>7, <2>8, <2>9, QuietFair
<1> QED
  BY <1>1, <1>2, <1>3, <1>4, <1>5, <1>6 DEF Login


(* A session that ends at a stage at which the rows are ahead of the world, or *)
(* equal to it, takes nothing away.                                            *)
LEMMA EndFair ==
  ASSUME Firm, Sound', NEW s \in Sessions, End(s), harm' = {}
  PROVE  Fair
<1> DEFINE p == Owner[s]
           d == task[s]
<1>0. /\ s \in Threads /\ p \in Players /\ d \in Task
      /\ d.at \in LoggingIn \cup Dealing => d.who = p
      /\ Tasks /\ Kept /\ OneSession /\ task \in [Threads -> Task]
      /\ live \in [Players -> Goods] /\ rows \in [Players -> Goods]
  BY SessionTask DEF Firm, Sound, Tasks, Balanced, Ledgers
<1>1. /\ MayFail(s) /\ UNCHANGED <<rows, balance, granted>>
      /\ task' = [task EXCEPT ![s] = Doing("off", p)]
  BY DEF End, Becomes
<1>2. /\ task'[s].at = "off" /\ \A u \in Threads \ {s} : task'[u] = task[u]
  BY <1>0, <1>1 DEF Doing
<1>3. CASE d.at \in {"readbags", "register"}
  <2>1. UNCHANGED <<online, live>>
    BY <1>3 DEF End
  <2>2. \A q \in Players : ~HalfDone(d, q)
    BY <1>3, WholeStages DEF Saving
  <2>3. ~HasBags(d)
    BY <1>3 DEF HasBags, LoggingIn
  <2> QED
    BY <1>0, <1>1, <2>1, <2>2, <2>3, RestFair
<1>4. CASE d.at \notin {"readbags", "register"}
  <2>1. /\ online' = online \ {p} /\ live' = [live EXCEPT ![p] = Empty]
        /\ ~Crossed(s, {p}) /\ harm = {} /\ d.at \notin Unsaved
    BY <1>4 DEF End
  <2>2. Touches(s, {p})
    BY <2>1 DEF Touches, End
  <2>3. d.at \in {"idle", "settle", "store", "storeworn", "storebags", "grant", "fetch",
                  "deliver", "hand"}
    BY <1>1, <1>4, <2>1 DEF MayFail, Unsaved, Saving
  <2>4. InWorld(d) /\ HasBags(d) /\ ~HasBags(task'[s])
    BY <1>2, <2>3 DEF InWorld, HasBags, LoggingIn
  <2>5. Packed(p) /\ ~Packed(p)' /\ p \in online
    BY <1>0, <1>2, <2>4, OwnPacked DEF OneSession
  <2>6. d.at # "deliver"
    <3>1. SUFFICES ASSUME d.at = "deliver" PROVE FALSE
      OBVIOUS
    <3>2. d.who \notin online
      BY <1>1, <3>1 DEF MayFail
    <3>3. d.who \in Reach(d) /\ InTheWorld(d)
      BY <3>1, ReachIs DEF Saving, InTheWorld
    <3>4. Packed(d.who)
      BY <1>0, <3>3 DEF Kept, TargetsStay
    <3> QED
      BY <1>0, <3>2, <3>4, PackedOnline
  <2>7. ASSUME NEW q \in Players \ {p}
        PROVE  ~HalfDone(d, q) /\ ~HalfDone(task'[s], q)
    <3>1. ~HalfDone(task'[s], q)
      BY <1>2, WholeStages DEF Saving
    <3>2. CASE d.at = "storebags"
      BY <1>0, <3>1, <3>2 DEF HalfDone, Settles, Owes, Dealing, Saving
    <3>3. CASE d.at # "storebags"
      BY <2>3, <2>6, <3>1, <3>3, WholeStages DEF Saving
    <3> QED BY <3>1, <3>2, <3>3
  <2>8. Changes(s, {p})
    BY <1>0, <1>1, <1>2, <2>1, <2>2, <2>7, OwnChanges
  <2>9. Restores(s, {p})
    BY <1>2, <2>5, ReachIs DEF Restores
  <2>10. Estate(p)' = Estate(p)
    <3>1. Estate(p)' = rows[p]
      BY <1>0, <1>1, <2>5, <2>8, EstateAlone
    <3>2. CASE Settles(d, p)
      BY <1>0, <2>8, <3>1, <3>2, EstateAlone
    <3>3. CASE ~Settles(d, p)
      <4>1. ~HalfDone(d, p)
        BY <2>3, <3>3 DEF HalfDone, Owes, Saving
      <4>2. ASSUME NEW u \in Threads PROVE ~HalfDone(task[u], p)
        <5>1. CASE u = s
          BY <4>1, <5>1
        <5>2. CASE u # s
          BY <1>0, <2>8, <5>2, HalfDoneIsHeld DEF Changes
        <5> QED BY <5>1, <5>2
      <4>3. rows[p] = live[p]
        BY <1>0, <2>5, <4>2 DEF Kept, OthersStored
      <4> QED
        BY <1>0, <2>5, <2>8, <3>1, <3>3, <4>3, EstateAlone
    <3> QED BY <3>2, <3>3
  <2> QED
    BY <1>0, <1>1, <2>8, <2>9, <2>10, QuietFair
<1> QED
  BY <1>3, <1>4


----------------------------------------------------------------------------
(* What goods gain and lose *)

(* Goods that differ at one thing, worn or carried. *)
LEMMA ValueMoves ==
  ASSUME NEW g \in Goods, NEW h \in Goods, NEW a \in Things, NEW n \in Int,
         \A x \in Things \ {a} : h.worn[x] = g.worn[x] /\ h.bags[x] = g.bags[x],
         h.worn[a] + h.bags[a] = g.worn[a] + g.bags[a] + n
  PROVE  Value(h) = Value(g) + Worth(a) * n
<1>1. \A x \in Things \ {a} : Total(h, x) = Total(g, x)
  BY DEF Total
<1>2. Total(h, a) - Total(g, a) = n
  <2>1. g.worn[a] \in Nat /\ g.bags[a] \in Nat
    BY GoodsFields, CountsField
  <2> QED BY <2>1 DEF Total
<1> QED
  BY <1>1, <1>2, ValueDiffers

LEMMA ReceivedIs ==
  ASSUME NEW g \in Goods, NEW x \in Things, NEW n \in Nat
  PROVE  LET h == Received(g, x, n)
         IN  /\ h \in Goods /\ h.worn = g.worn
             /\ h.bags[x] = g.bags[x] + n
             /\ \A y \in Things \ {x} : h.bags[y] = g.bags[y]
<1>1. Received(g, x, n) \in Goods
  BY ReceivedType
<1>2. g.bags \in Counts
  BY GoodsFields
<1> QED
  BY <1>1, <1>2 DEF Received, Goods, Counts

LEMMA ReceivedValue ==
  ASSUME NEW g \in Goods, NEW x \in Things, NEW n \in Nat
  PROVE  Value(Received(g, x, n)) = Value(g) + Worth(x) * n
<1> DEFINE h == Received(g, x, n)
<1>1. /\ h \in Goods /\ h.worn = g.worn
      /\ h.bags[x] = g.bags[x] + n
      /\ \A y \in Things \ {x} : h.bags[y] = g.bags[y]
  BY ReceivedIs
<1> HIDE DEF h
<1>2. g.worn[x] \in Nat /\ g.bags[x] \in Nat
  BY GoodsFields, CountsField
<1>3. Value(h) = Value(g) + Worth(x) * n
  BY <1>1, <1>2, ValueMoves
<1> QED BY <1>3 DEF h

LEMMA PartedIs ==
  ASSUME NEW g \in Goods, NEW x \in Things, NEW n \in Nat
  PROVE  LET h == Parted(g, x, n)
         IN  /\ h.worn[x] \in Int /\ h.bags[x] \in Int
             /\ h.worn[x] + h.bags[x] = g.worn[x] + g.bags[x] - n
             /\ \A y \in Things \ {x} : h.worn[y] = g.worn[y] /\ h.bags[y] = g.bags[y]
<1> DEFINE worn == IF g.worn[x] < n THEN g.worn[x] ELSE n
           c == [g.worn EXCEPT ![x] = g.worn[x] - worn]
           d == [g.bags EXCEPT ![x] = g.bags[x] - (n - worn)]
<1>1. g.worn \in Counts /\ g.bags \in Counts /\ g.worn[x] \in Nat /\ g.bags[x] \in Nat
  BY GoodsFields, CountsField
<1>2. worn \in Nat
  BY <1>1
<1>3. Parted(g, x, n).worn = c /\ Parted(g, x, n).bags = d
  BY DEF Parted, Goods
<1>4. /\ c[x] = g.worn[x] - worn /\ d[x] = g.bags[x] - (n - worn)
      /\ \A y \in Things \ {x} : c[y] = g.worn[y] /\ d[y] = g.bags[y]
  BY <1>1 DEF Counts
<1> HIDE DEF worn, c, d
<1>5. /\ c[x] \in Int /\ d[x] \in Int
      /\ c[x] + d[x] = g.worn[x] + g.bags[x] - n
  BY <1>1, <1>2, <1>4
<1> QED
  BY <1>3, <1>4, <1>5

LEMMA PartedValue ==
  ASSUME NEW g \in Goods, NEW x \in Things, NEW n \in Nat, Parted(g, x, n) \in Goods
  PROVE  Value(Parted(g, x, n)) = Value(g) - Worth(x) * n
<1> DEFINE h == Parted(g, x, n)
<1>1. /\ h \in Goods /\ h.worn[x] + h.bags[x] = g.worn[x] + g.bags[x] - n
      /\ \A y \in Things \ {x} : h.worn[y] = g.worn[y] /\ h.bags[y] = g.bags[y]
  BY PartedIs
<1> HIDE DEF h
<1>2. g.worn[x] \in Nat /\ g.bags[x] \in Nat /\ Worth(x) \in Nat /\ Value(g) \in Int
  BY GoodsFields, CountsField, WorthType, ValueType
<1>3. Value(h) = Value(g) + Worth(x) * (0 - n)
  BY <1>1, <1>2, ValueMoves
<1>4. Worth(x) * (0 - n) = 0 - Worth(x) * n
  <2>1. \A w, m \in Int : w * (0 - m) = 0 - w * m
    OBVIOUS
  <2> QED BY <1>2, <2>1
<1>5. Value(h) = Value(g) - Worth(x) * n
  <2>1. Worth(x) * n \in Int
    BY <1>2
  <2> QED BY <1>2, <1>3, <1>4, <2>1
<1> QED BY <1>5 DEF h

(* A deal takes from the goods what it adds to the balance. *)
LEMMA DealValue ==
  ASSUME NEW d \in Task, d.kind \in BankDeals, After(d) \in Goods,
         d.kind \in {"buy", "sell"} => d.thing # Coin
  PROVE  Value(After(d)) = Value(d.goods) - Credit(d)
<1>1. d.goods \in Goods /\ d.thing \in Things /\ d.n \in Nat /\ Coin \in Things /\ Price \in Nat
  BY TaskFields, BankAssumption
<1>2. Worth(Coin) = 1 /\ (d.thing # Coin => Worth(d.thing) = Price)
  BY DEF Worth
<1>3. Value(d.goods) \in Int
  BY <1>1, ValueType
<1>4. CASE d.kind = "deposit"
  <2>1. Total(d.goods, Coin) \in Nat
    BY <1>1, TotalType
  <2>2. After(d) = Parted(d.goods, Coin, Total(d.goods, Coin)) /\ Credit(d) = Total(d.goods, Coin)
    BY <1>4 DEF After, Credit
  <2>3. Value(After(d)) = Value(d.goods) - 1 * Total(d.goods, Coin)
    BY <1>1, <1>2, <2>1, <2>2, PartedValue
  <2> QED BY <1>3, <2>1, <2>2, <2>3
<1>5. CASE d.kind = "withdraw"
  <2>1. After(d) = Received(d.goods, Coin, d.n) /\ Credit(d) = 0 - d.n
    BY <1>5 DEF After, Credit
  <2>2. Value(After(d)) = Value(d.goods) + 1 * d.n
    BY <1>1, <1>2, <2>1, ReceivedValue
  <2> QED BY <1>1, <1>3, <2>1, <2>2
<1>6. CASE d.kind = "buy"
  <2>1. After(d) = Received(d.goods, d.thing, d.n) /\ Credit(d) = 0 - Price * d.n
    BY <1>6 DEF After, Credit
  <2>2. Value(After(d)) = Value(d.goods) + Price * d.n
    BY <1>1, <1>2, <1>6, <2>1, ReceivedValue
  <2>3. Price * d.n \in Int
    BY <1>1
  <2> QED BY <1>3, <2>1, <2>2, <2>3
<1>7. CASE d.kind = "sell"
  <2>1. After(d) = Parted(d.goods, d.thing, d.n) /\ Credit(d) = Price * d.n
    BY <1>7 DEF After, Credit
  <2>2. Value(After(d)) = Value(d.goods) - Price * d.n
    BY <1>1, <1>2, <1>7, <2>1, PartedValue
  <2> QED BY <2>1, <2>2
<1> QED
  BY <1>4, <1>5, <1>6, <1>7 DEF BankDeals


----------------------------------------------------------------------------
(* Deals *)

LEMMA BeginFair ==
  ASSUME Firm, Sound', NEW s \in Sessions,
         NEW kind \in BankDeals \cup {"remove"}, NEW x \in Things, NEW n \in Nat,
         Begin(s, kind, x, n)
  PROVE  Fair
<1> DEFINE p == Owner[s]
<1>0. s \in Threads /\ p \in Players /\ task \in [Threads -> Task]
  BY SessionTask DEF Firm, Sound, Tasks
<1>1. /\ task[s].at = "idle" /\ UNCHANGED <<online, live, rows, balance, granted>>
      /\ kind \in {"buy", "sell"} => x # Coin
      /\ task' = [task EXCEPT ![s] =
            [Doing("copybags", p) EXCEPT !.kind = kind, !.thing = x, !.n = n,
                      !.goods = [worn |-> live[p].worn, bags |-> Empty.bags]]]
  BY DEF Begin, Becomes, BankDeals
<1>2. \A u \in Threads \ {s} : task'[u] = task[u]
  BY <1>0, <1>1
<1>3. /\ task'[s].at = "copybags" /\ task'[s].who = p /\ task'[s].kind = kind
      /\ task'[s].thing = x /\ task'[s].goods.worn = live[p].worn
  BY <1>0, <1>1 DEF Doing
<1>4. Reach(task'[s]) = {p} /\ HasBags(task[s]) /\ HasBags(task'[s])
  BY <1>1, <1>3, ReachIs DEF Saving, HasBags, LoggingIn
<1>5. \A q \in Players : ~HalfDone(task[s], q) /\ ~HalfDone(task'[s], q)
  BY <1>1, <1>3, WholeStages DEF Saving
<1>6. /\ Knows(task'[s], p, live[p], rows[p])
      /\ ~InTheWorld(task'[s]) /\ ~InTheRows(task'[s])
  BY <1>1, <1>3 DEF Knows, InTheWorld, InTheRows, Saving, Dealing
<1> QED
  BY <1>0, <1>1, <1>2, <1>4, <1>5, <1>6, StageFair

LEMMA CopyBagsFair ==
  ASSUME Firm, Sound', NEW s \in Sessions, CopyBags(s)
  PROVE  Fair
<1> DEFINE p == Owner[s]
<1>0. /\ s \in Threads /\ p \in Players /\ task[s] \in Task /\ task[s].goods \in Goods
      /\ live[p] \in Goods /\ Kept /\ task \in [Threads -> Task]
  BY SessionTask DEF Firm, Sound, Tasks
<1>1. /\ task[s].at = "copybags" /\ UNCHANGED <<online, live, rows, balance, granted>>
      /\ task' = [task EXCEPT ![s].at = "settle", ![s].goods.bags = live[p].bags]
  BY DEF CopyBags
<1>2. \A u \in Threads \ {s} : task'[u] = task[u]
  BY <1>0, <1>1
<1>3. /\ task'[s].at = "settle" /\ task'[s].who = task[s].who /\ task'[s].kind = task[s].kind
      /\ task'[s].thing = task[s].thing /\ task'[s].goods.worn = task[s].goods.worn
      /\ task'[s].goods.bags = live[p].bags
  BY <1>0, <1>1 DEF Task, Goods
<1>4. task[s].who = p
  BY <1>1, SessionTask DEF Dealing
<1>5. Reach(task[s]) = {p} /\ Reach(task'[s]) = {p} /\ HasBags(task[s]) /\ HasBags(task'[s])
  BY <1>1, <1>3, <1>4, ReachIs DEF Saving, HasBags, LoggingIn
<1>6. Knows(task[s], p, live[p], rows[p])
  BY <1>0, <1>5 DEF Kept, CopiesMatch
<1>7. task'[s].goods = live[p]
  <2>1. task'[s].goods \in Goods
    BY <1>0, TaskFields DEF Sound, Tasks
  <2>2. task[s].goods.worn = live[p].worn
    BY <1>1, <1>6 DEF Knows
  <2> QED BY <1>0, <1>3, <2>1, <2>2, GoodsAre
<1>8. \A q \in Players : ~HalfDone(task[s], q) /\ ~HalfDone(task'[s], q)
  BY <1>1, <1>3, WholeStages DEF Saving
<1>9. /\ Knows(task'[s], p, live[p], rows[p])
      /\ ~InTheWorld(task'[s]) /\ ~InTheRows(task'[s])
  BY <1>1, <1>3, <1>6, <1>7 DEF Knows, InTheWorld, InTheRows, Saving, Dealing
<1> QED
  BY <1>0, <1>1, <1>2, <1>5, <1>8, <1>9, StageFair

LEMMA SettleFair ==
  ASSUME Firm, Sound', NEW s \in Sessions, Settle(s)
  PROVE  Fair
<1> DEFINE p == Owner[s]
<1>0. /\ s \in Threads /\ p \in Players /\ task[s] \in Task
      /\ Kept /\ task \in [Threads -> Task]
  BY SessionTask DEF Firm, Sound, Tasks
<1>1. task[s].at = "settle" /\ UNCHANGED <<online, live, rows, balance, granted>>
  BY DEF Settle
<1>2. task[s].who = p /\ task[s].kind \in Deals
  BY <1>1, SessionTask DEF Dealing
<1>3. Reach(task[s]) = {p} /\ HasBags(task[s])
  BY <1>1, <1>2, ReachIs DEF Saving, HasBags, LoggingIn
<1>4. \A q \in Players : ~HalfDone(task[s], q)
  BY <1>1, WholeStages DEF Saving
<1>5. CASE Rests(s)
  <2>1. task' = [task EXCEPT ![s] = Doing("idle", p)]
    BY <1>2, <1>5 DEF Rests, Becomes
  <2> QED
    BY <1>0, <1>1, <1>3, <1>4, <2>1, RestFair
<1>6. CASE task' = [task EXCEPT
                 ![s].at = IF task[s].kind = "remove" THEN "storeworn" ELSE "store",
                 ![s].sum = balance[Owner[s]] + Credit(task[s])]
  <2>2. \A u \in Threads \ {s} : task'[u] = task[u]
    BY <1>0, <1>6
  <2>3. /\ task'[s].at = IF task[s].kind = "remove" THEN "storeworn" ELSE "store"
        /\ task'[s].who = p /\ task'[s].kind = task[s].kind
        /\ task'[s].thing = task[s].thing /\ task'[s].goods = task[s].goods
    <3> DEFINE sum == balance[Owner[s]] + Credit(task[s])
    <3>1. task' = [task EXCEPT
                 ![s].at = IF task[s].kind = "remove" THEN "storeworn" ELSE "store",
                 ![s].sum = sum]
      BY <1>6
    <3> HIDE DEF sum
    <3> QED BY <1>0, <1>2, <3>1 DEF Task
  <2>4. Reach(task'[s]) = {p} /\ HasBags(task'[s])
    BY <2>3, ReachIs DEF Saving, HasBags, LoggingIn
  <2>5. Knows(task[s], p, live[p], rows[p])
    BY <1>0, <1>3 DEF Kept, CopiesMatch
  <2>6. \A q \in Players : ~HalfDone(task'[s], q)
    BY <2>3, WholeStages DEF Saving
  <2>7. /\ Knows(task'[s], p, live[p], rows[p])
        /\ ~InTheWorld(task'[s]) /\ ~InTheRows(task'[s])
    BY <1>1, <1>2, <2>3, <2>5 DEF Knows, InTheWorld, InTheRows, Saving, Dealing, Deals
  <2> QED
    BY <1>0, <1>1, <1>3, <1>4, <2>2, <2>4, <2>6, <2>7, StageFair
<1> QED
  BY <1>5, <1>6, Zenon DEF Settle


(* What the stages of a decided deal have in common. *)
LEMMA DealGoesOn ==
  ASSUME Firm, Sound', NEW s \in Sessions, task[s].at \in Decided,
         Touches(s, {Owner[s]}), harm' = {},
         NEW at \in {"storebags", "putworn", "putbags"}, Goto(s, at), UNCHANGED online,
         \A q \in Players \ {Owner[s]} : live'[q] = live[q] /\ rows'[q] = rows[q]
  PROVE  /\ task'[s].at = at /\ task'[s].kind = task[s].kind /\ task'[s].thing = task[s].thing
         /\ task'[s].goods = task[s].goods /\ Reach(task'[s]) = {Owner[s]}
         /\ After(task'[s]) = After(task[s]) /\ After(task[s]) \in Goods
         /\ Knows(task[s], Owner[s], live[Owner[s]], rows[Owner[s]])
         /\ Packed(Owner[s]) /\ Packed(Owner[s])' /\ Changes(s, {Owner[s]})
         /\ Settles(task'[s], Owner[s])
         /\ Settles(task[s], Owner[s]) <=> task[s].at \in {"storebags", "putworn", "putbags"}
         /\ task[s].at \in {"store", "storeworn"} => rows[Owner[s]] = live[Owner[s]]
         /\ ~InTheWorld(task'[s]) /\ ~InTheRows(task'[s])
<1> DEFINE p == Owner[s]
<1>0. /\ s \in Threads /\ p \in Players /\ task[s] \in Task /\ TaskOK(s, task[s])
      /\ Kept /\ task \in [Threads -> Task]
  BY SessionTask DEF Firm, Sound, Tasks
<1>1. task' = [task EXCEPT ![s].at = at]
  BY DEF Goto
<1>2. \A u \in Threads \ {s} : task'[u] = task[u]
  BY <1>0, <1>1
<1>3. /\ task'[s].at = at /\ task'[s].who = task[s].who /\ task'[s].kind = task[s].kind
      /\ task'[s].thing = task[s].thing /\ task'[s].n = task[s].n
      /\ task'[s].goods = task[s].goods
  BY <1>0, <1>1 DEF Task
<1>4. task[s].who = p
  BY SessionTask DEF Dealing, Decided
<1>5. /\ Reach(task[s]) = {p} /\ Reach(task'[s]) = {p}
      /\ InWorld(task[s]) /\ HasBags(task[s]) /\ HasBags(task'[s])
  BY <1>3, <1>4, ReachIs DEF Saving, HasBags, LoggingIn, InWorld, Decided
<1>6. After(task'[s]) = After(task[s]) /\ After(task[s]) \in Goods
  BY <1>0, <1>3, DealIsKept DEF TaskOK
<1>7. Knows(task[s], p, live[p], rows[p])
  BY <1>0, <1>5 DEF Kept, CopiesMatch
<1>8. Packed(p) /\ Packed(p)'
  BY <1>2, <1>5, OwnPacked
<1>9. \A q \in Players \ {p} : ~HalfDone(task[s], q) /\ ~HalfDone(task'[s], q)
  BY <1>5, HalfDoneIsHeld
<1>10. Changes(s, {p})
  BY <1>2, <1>9, OwnChanges
<1>11. ASSUME task[s].at \in {"store", "storeworn"}
       PROVE  rows[p] = live[p]
  <2>1. ASSUME NEW u \in Threads PROVE ~HalfDone(task[u], p)
    <3>1. CASE u = s
      BY <1>11, <3>1, WholeStages DEF Saving
    <3>2. CASE u # s
      BY <1>0, <1>10, <3>2, HalfDoneIsHeld DEF Changes
    <3> QED BY <3>1, <3>2
  <2> QED
    BY <1>0, <1>8, <2>1 DEF Kept, OthersStored
<1>12. /\ Settles(task'[s], p)
       /\ Settles(task[s], p) <=> task[s].at \in {"storebags", "putworn", "putbags"}
  BY <1>3, <1>4 DEF Settles, Decided
<1>13. ~InTheWorld(task'[s]) /\ ~InTheRows(task'[s])
  BY <1>3 DEF InTheWorld, InTheRows, Saving
<1> QED
  BY <1>3, <1>5, <1>6, <1>7, <1>8, <1>10, <1>11, <1>12, <1>13

(* A deal counts from its transaction on, which writes goods and balance. *)
LEMMA StoreDealFair ==
  ASSUME Firm, Sound', NEW s \in Sessions, StoreDeal(s), harm' = {}
  PROVE  Fair
<1> DEFINE p == Owner[s]
           d == task[s]
<1>0. /\ s \in Threads /\ p \in Players /\ d \in Task /\ d.kind \in Deals
      /\ rows \in [Players -> Goods] /\ balance \in [Players -> Nat] /\ granted \in Int
  BY SessionTask DEF Firm, Sound, Ledgers, StoreDeal, Dealing
<1>1. /\ d.at = "store" /\ UNCHANGED <<online, live, granted>> /\ Touches(s, {p})
      /\ Goto(s, "putworn")
      /\ rows' = [rows EXCEPT ![p] = After(d)]
      /\ balance' = [balance EXCEPT ![p] = d.sum]
  BY DEF StoreDeal
<1>2. d.sum = balance[p] + Credit(d)
  BY <1>1 DEF Firm, Balanced, Pending
<1>3. /\ task'[s].at = "putworn" /\ task'[s].kind = d.kind /\ task'[s].thing = d.thing
      /\ task'[s].goods = d.goods /\ Reach(task'[s]) = {p}
      /\ After(task'[s]) = After(d) /\ After(d) \in Goods
      /\ Knows(d, p, live[p], rows[p])
      /\ Packed(p) /\ Packed(p)' /\ Changes(s, {p})
      /\ Settles(task'[s], p) /\ ~Settles(d, p)
      /\ ~InTheWorld(task'[s]) /\ ~InTheRows(task'[s])
  <2>1. \A q \in Players \ {p} : live'[q] = live[q] /\ rows'[q] = rows[q]
    BY <1>0, <1>1
  <2>2. d.at \in Decided
    BY <1>1 DEF Decided
  <2> QED BY <1>1, <2>1, <2>2, DealGoesOn
<1>4. /\ d.kind \in BankDeals /\ (d.kind \in {"buy", "sell"} => d.thing # Coin)
      /\ d.goods = live[p]
  BY <1>1, <1>3 DEF Knows, Dealing
<1>5. rows'[p] = After(d) /\ live'[p] = live[p] /\ balance'[p] = balance[p] + Credit(d)
  BY <1>0, <1>1, <1>2
<1>6. Restores(s, {p})
  <2>1. Knows(task'[s], p, live'[p], rows'[p])
    BY <1>3, <1>4, <1>5 DEF Knows, Saving
  <2>2. HalfDone(task'[s], p)
    BY <1>3 DEF HalfDone
  <2> QED
    BY <1>3, <2>1, <2>2 DEF Restores
<1>7. Estate(p) = d.goods /\ Estate(p)' = After(d)
  BY <1>0, <1>3, <1>4, <1>5, EstateAlone
<1>8. Value(After(d)) = Value(d.goods) - Credit(d)
  BY <1>0, <1>3, <1>4, DealValue
<1>9. Credit(d) \in Int /\ Value(d.goods) \in Int /\ balance[p] \in Nat
  BY <1>0, CreditType, TaskFields, ValueType
<1>10. Value(Estate(p)') + balance'[p] = Value(Estate(p)) + balance[p] + 0
  BY <1>5, <1>7, <1>8, <1>9
<1>11. \A q \in Players \ {p} : balance'[q] = balance[q]
  BY <1>0, <1>1
<1>12. granted' = granted + 0
  BY <1>0, <1>1
<1> QED
  BY <1>0, <1>3, <1>6, <1>10, <1>11, <1>12, ValueFair


(* A removal counts in two parts, each when its row is written. *)
LEMMA RemovalIs ==
  ASSUME NEW d \in Task, d.kind = "remove", After(d) \in Goods
  PROVE  /\ After(d).worn \in Counts /\ After(d).bags \in Counts /\ d.thing \in Things
         /\ \A y \in Things \ {d.thing} :
               After(d).worn[y] = d.goods.worn[y] /\ After(d).bags[y] = d.goods.bags[y]
<1>1. d.goods \in Goods /\ d.thing \in Things /\ d.n \in Nat
  BY TaskFields
<1>2. After(d) = Parted(d.goods, d.thing, d.n)
  BY DEF After
<1>3. \A y \in Things \ {d.thing} :
         /\ Parted(d.goods, d.thing, d.n).worn[y] = d.goods.worn[y]
         /\ Parted(d.goods, d.thing, d.n).bags[y] = d.goods.bags[y]
  BY <1>1, PartedIs
<1> QED
  BY <1>1, <1>2, <1>3, GoodsFields

LEMMA StoreWornFair ==
  ASSUME Firm, Sound', NEW s \in Sessions, StoreWorn(s), harm' = {}
  PROVE  Fair
<1> DEFINE p == Owner[s]
           d == task[s]
           x == d.thing
           n == d.goods.worn[x] - After(d).worn[x]
<1>0. /\ s \in Threads /\ p \in Players /\ d \in Task /\ d.goods \in Goods
      /\ rows \in [Players -> Goods] /\ balance \in [Players -> Nat] /\ granted \in Int
      /\ balance' \in [Players -> Nat]
  BY SessionTask DEF Firm, Sound, Ledgers
<1>1. /\ d.at = "storeworn" /\ UNCHANGED <<online, live, balance>> /\ Touches(s, {p})
      /\ Goto(s, "storebags")
      /\ rows' = [rows EXCEPT ![p].worn = After(d).worn]
      /\ granted' = granted - Worth(x) * n
  BY DEF StoreWorn
<1>2. After(d) \in Goods /\ After(d).worn \in Counts
  BY <1>1, GoodsFields DEF Firm, Sound, Tasks, TaskOK, Decided, Threads
<1>3. PutsWorn(rows, rows', p, After(d).worn)
  BY <1>0, <1>1, <1>2, WornPut, Zenon
<1>4. /\ task'[s].at = "storebags" /\ task'[s].kind = d.kind /\ task'[s].thing = d.thing
      /\ task'[s].goods = d.goods /\ Reach(task'[s]) = {p}
      /\ After(task'[s]) = After(d)
      /\ Knows(d, p, live[p], rows[p])
      /\ Packed(p) /\ Packed(p)' /\ Changes(s, {p})
      /\ Settles(task'[s], p) /\ ~Settles(d, p) /\ rows[p] = live[p]
      /\ ~InTheWorld(task'[s]) /\ ~InTheRows(task'[s])
  <2>1. \A q \in Players \ {p} : live'[q] = live[q] /\ rows'[q] = rows[q]
    BY <1>1, <1>3 DEF PutsWorn
  <2>2. d.at \in Decided
    BY <1>1 DEF Decided
  <2> HIDE DEF n
  <2> QED BY <1>1, <2>1, <2>2, DealGoesOn
<1>5. d.kind = "remove" /\ d.goods = live[p]
  BY <1>1, <1>4 DEF Knows
<1>6. Restores(s, {p})
  <2>1. Knows(task'[s], p, live'[p], rows'[p])
    <3>1. rows'[p].worn = After(d).worn /\ rows'[p].bags = live[p].bags /\ live'[p] = live[p]
      BY <1>1, <1>3, <1>4 DEF PutsWorn
    <3> HIDE DEF n
    <3> QED BY <1>4, <1>5, <3>1 DEF Knows, Saving
  <2>2. HalfDone(task'[s], p)
    BY <1>4 DEF HalfDone
  <2> QED
    BY <1>4, <2>1, <2>2 DEF Restores
<1>7. Estate(p) = d.goods /\ Estate(p)' = rows'[p]
  BY <1>0, <1>4, <1>5, EstateAlone
<1>8. x \in Things /\ \A y \in Things \ {x} : After(d).worn[y] = d.goods.worn[y]
  BY <1>0, <1>2, <1>5, RemovalIs
<1>9. n \in Int /\ Worth(x) \in Int /\ Value(d.goods) \in Int /\ balance[p] \in Nat
  BY <1>0, <1>2, <1>8, GoodsFields, CountsField, WorthType, ValueType
<1>10. Value(rows'[p]) = Value(d.goods) + Worth(x) * (0 - n)
  <2>1. /\ rows'[p].worn = After(d).worn /\ rows'[p].bags = d.goods.bags /\ rows'[p] \in Goods
    BY <1>3, <1>4, <1>5 DEF PutsWorn
  <2>2. /\ d.goods.worn[x] \in Nat /\ After(d).worn[x] \in Nat /\ d.goods.bags[x] \in Nat
    BY <1>0, <1>2, <1>8, GoodsFields, CountsField
  <2>3. rows'[p].worn[x] + rows'[p].bags[x] = d.goods.worn[x] + d.goods.bags[x] + (0 - n)
    BY <2>1, <2>2
  <2>4. \A y \in Things \ {x} : rows'[p].worn[y] = d.goods.worn[y] /\ rows'[p].bags[y] = d.goods.bags[y]
    BY <1>8, <2>1
  <2>5. 0 - n \in Int
    BY <1>9
  <2> HIDE DEF n
  <2> QED
    BY <1>0, <1>8, <2>1, <2>3, <2>4, <2>5, ValueMoves
<1>11. Worth(x) * (0 - n) = 0 - Worth(x) * n /\ Worth(x) * n \in Int
  <2>1. \A w, m \in Int : w * (0 - m) = 0 - w * m /\ w * m \in Int
    OBVIOUS
  <2> HIDE DEF n
  <2> QED BY <1>9, <2>1
<1> HIDE DEF n
<1> DEFINE m == 0 - Worth(x) * n
<1>12. m \in Int /\ granted' = granted + m
  BY <1>0, <1>1, <1>11
<1>13. Value(Estate(p)') + balance'[p] = Value(Estate(p)) + balance[p] + m
  BY <1>1, <1>7, <1>9, <1>10, <1>11
<1>14. \A q \in Players \ {p} : balance'[q] = balance[q]
  BY <1>1
<1> HIDE DEF m
<1> QED
  BY <1>0, <1>4, <1>6, <1>12, <1>13, <1>14, ValueFair

LEMMA StoreBagsFair ==
  ASSUME Firm, Sound', NEW s \in Sessions, StoreBags(s), harm' = {}
  PROVE  Fair
<1> DEFINE p == Owner[s]
           d == task[s]
           x == d.thing
           n == d.goods.bags[x] - After(d).bags[x]
<1>0. /\ s \in Threads /\ p \in Players /\ d \in Task /\ d.goods \in Goods
      /\ rows \in [Players -> Goods] /\ balance \in [Players -> Nat] /\ granted \in Int
      /\ balance' \in [Players -> Nat]
  BY SessionTask DEF Firm, Sound, Ledgers
<1>1. /\ d.at = "storebags" /\ UNCHANGED <<online, live, balance>> /\ Touches(s, {p})
      /\ Goto(s, "putworn")
      /\ rows' = [rows EXCEPT ![p].bags = After(d).bags]
      /\ granted' = granted - Worth(x) * n
  BY DEF StoreBags
<1>2. After(d) \in Goods /\ After(d).bags \in Counts
  BY <1>1, GoodsFields DEF Firm, Sound, Tasks, TaskOK, Decided, Threads
<1>3. PutsBags(rows, rows', p, After(d).bags)
  BY <1>0, <1>1, <1>2, BagsPut, Zenon
<1>4. /\ task'[s].at = "putworn" /\ task'[s].kind = d.kind /\ task'[s].thing = d.thing
      /\ task'[s].goods = d.goods /\ Reach(task'[s]) = {p}
      /\ After(task'[s]) = After(d)
      /\ Knows(d, p, live[p], rows[p])
      /\ Packed(p) /\ Packed(p)' /\ Changes(s, {p})
      /\ Settles(task'[s], p) /\ Settles(d, p)
      /\ ~InTheWorld(task'[s]) /\ ~InTheRows(task'[s])
  <2>1. \A q \in Players \ {p} : live'[q] = live[q] /\ rows'[q] = rows[q]
    BY <1>1, <1>3 DEF PutsBags
  <2>2. d.at \in Decided
    BY <1>1 DEF Decided
  <2> HIDE DEF n
  <2> QED BY <1>1, <2>1, <2>2, DealGoesOn
<1>5. /\ d.kind = "remove" /\ d.goods = live[p]
      /\ rows[p].worn = After(d).worn /\ rows[p].bags = d.goods.bags
  BY <1>1, <1>4 DEF Knows
<1>6. rows'[p] = After(d)
  BY <1>2, <1>3, <1>5, GoodsAre DEF PutsBags
<1>7. Restores(s, {p})
  <2>1. Knows(task'[s], p, live'[p], rows'[p])
    <3> HIDE DEF n
    <3> QED BY <1>1, <1>4, <1>5, <1>6 DEF Knows, Saving
  <2>2. HalfDone(task'[s], p)
    BY <1>4 DEF HalfDone
  <2> QED
    BY <1>4, <2>1, <2>2 DEF Restores
<1>8. Estate(p) = rows[p] /\ Estate(p)' = rows'[p]
  BY <1>0, <1>4, <1>5, EstateAlone
<1>9. x \in Things /\ \A y \in Things \ {x} : After(d).bags[y] = d.goods.bags[y]
  BY <1>0, <1>2, <1>5, RemovalIs
<1>10. /\ n \in Int /\ Worth(x) \in Int /\ rows[p] \in Goods /\ Value(rows[p]) \in Int
       /\ balance[p] \in Nat
  BY <1>0, <1>2, <1>9, GoodsFields, CountsField, WorthType, ValueType
<1>11. Value(rows'[p]) = Value(rows[p]) + Worth(x) * (0 - n)
  <2>1. /\ d.goods.bags[x] \in Nat /\ After(d).bags[x] \in Nat /\ After(d).worn[x] \in Nat
    BY <1>0, <1>2, <1>9, GoodsFields, CountsField
  <2>2. rows'[p].worn[x] + rows'[p].bags[x] = rows[p].worn[x] + rows[p].bags[x] + (0 - n)
    BY <1>5, <1>6, <2>1
  <2>3. \A y \in Things \ {x} : rows'[p].worn[y] = rows[p].worn[y] /\ rows'[p].bags[y] = rows[p].bags[y]
    BY <1>5, <1>6, <1>9
  <2>4. 0 - n \in Int /\ rows'[p] \in Goods
    BY <1>2, <1>6, <1>10
  <2> HIDE DEF n
  <2> QED
    BY <1>9, <1>10, <2>2, <2>3, <2>4, ValueMoves
<1>12. Worth(x) * (0 - n) = 0 - Worth(x) * n /\ Worth(x) * n \in Int
  <2>1. \A w, m \in Int : w * (0 - m) = 0 - w * m /\ w * m \in Int
    OBVIOUS
  <2> HIDE DEF n
  <2> QED BY <1>10, <2>1
<1> HIDE DEF n
<1> DEFINE m == 0 - Worth(x) * n
<1>13. m \in Int /\ granted' = granted + m
  BY <1>0, <1>1, <1>12
<1>14. Value(Estate(p)') + balance'[p] = Value(Estate(p)) + balance[p] + m
  BY <1>1, <1>8, <1>10, <1>11, <1>12
<1>15. \A q \in Players \ {p} : balance'[q] = balance[q]
  BY <1>1
<1> HIDE DEF m
<1> QED
  BY <1>0, <1>4, <1>7, <1>13, <1>14, <1>15, ValueFair

----------------------------------------------------------------------------
(* The deals step by step, the bridge, and the theorems *)

LEMMA PutWornFair ==
  ASSUME Firm, Sound', NEW s \in Sessions, PutWorn(s), harm' = {}
  PROVE  Fair
<1> DEFINE p == Owner[s]
           d == task[s]
<1>0. /\ s \in Threads /\ p \in Players /\ d \in Task /\ live \in [Players -> Goods]
  BY SessionTask DEF Firm, Sound, Ledgers
<1>1. /\ d.at = "putworn" /\ UNCHANGED <<online, rows, balance, granted>> /\ Touches(s, {p})
      /\ Goto(s, "putbags")
      /\ live' = [live EXCEPT ![p].worn = After(d).worn]
  BY DEF PutWorn
<1>2. After(d) \in Goods /\ After(d).worn \in Counts
  BY <1>0, <1>1, GoodsFields DEF Firm, Sound, Tasks, TaskOK, Decided
<1>3. PutsWorn(live, live', p, After(d).worn)
  BY <1>0, <1>1, <1>2, WornPut, Zenon
<1>4. /\ task'[s].at = "putbags" /\ task'[s].kind = d.kind /\ task'[s].thing = d.thing
      /\ Reach(task'[s]) = {p} /\ After(task'[s]) = After(d)
      /\ Knows(d, p, live[p], rows[p])
      /\ Packed(p) /\ Packed(p)' /\ Changes(s, {p})
      /\ Settles(task'[s], p) /\ Settles(d, p)
      /\ ~InTheWorld(task'[s]) /\ ~InTheRows(task'[s])
  <2>1. \A q \in Players \ {p} : live'[q] = live[q] /\ rows'[q] = rows[q]
    BY <1>1, <1>3 DEF PutsWorn
  <2>2. d.at \in Decided
    BY <1>1 DEF Decided
  <2> QED BY <1>1, <2>1, <2>2, DealGoesOn
<1>5. /\ rows[p] = After(d) /\ (d.kind \in {"buy", "sell"} => d.thing # Coin)
  BY <1>1, <1>4 DEF Knows, Dealing
<1>6. Restores(s, {p})
  <2>1. Knows(task'[s], p, live'[p], rows'[p])
    <3>1. live'[p].worn = After(d).worn /\ rows'[p] = After(d)
      BY <1>1, <1>3, <1>5 DEF PutsWorn
    <3> QED BY <1>4, <1>5, <3>1 DEF Knows, Saving
  <2>2. HalfDone(task'[s], p)
    BY <1>4 DEF HalfDone
  <2> QED
    BY <1>4, <2>1, <2>2 DEF Restores
<1>7. Estate(p)' = Estate(p)
  BY <1>0, <1>1, <1>4, EstateAlone
<1> QED
  BY <1>0, <1>1, <1>4, <1>6, <1>7, QuietFair

LEMMA PutBagsFair ==
  ASSUME Firm, Sound', NEW s \in Sessions, PutBags(s), harm' = {}
  PROVE  Fair
<1> DEFINE p == Owner[s]
           d == task[s]
<1>0. /\ s \in Threads /\ p \in Players /\ d \in Task /\ live \in [Players -> Goods]
      /\ task \in [Threads -> Task] /\ Kept /\ rows[p] \in Goods
  BY SessionTask DEF Firm, Sound, Ledgers, Tasks
<1>1. /\ d.at = "putbags" /\ UNCHANGED <<online, rows, balance, granted>> /\ Touches(s, {p})
      /\ live' = [live EXCEPT ![p].bags = After(d).bags]
      /\ task' = [task EXCEPT ![s] = Doing("idle", d.who)]
  BY DEF PutBags, Rests, Becomes
<1>2. After(d) \in Goods /\ After(d).bags \in Counts
  BY <1>0, <1>1, GoodsFields DEF Firm, Sound, Tasks, TaskOK, Decided
<1>3. PutsBags(live, live', p, After(d).bags)
  BY <1>0, <1>1, <1>2, BagsPut, Zenon
<1>4. \A u \in Threads \ {s} : task'[u] = task[u]
  BY <1>0, <1>1
<1>5. task'[s].at = "idle" /\ d.who = p
  BY <1>0, <1>1, SessionTask DEF Doing, Dealing
<1>6. Reach(d) = {p} /\ Reach(task'[s]) = {} /\ InWorld(d) /\ HasBags(d) /\ HasBags(task'[s])
  BY <1>1, <1>5, ReachIs DEF InWorld, HasBags, LoggingIn, Saving
<1>7. Packed(p) /\ Packed(p)'
  BY <1>4, <1>6, OwnPacked
<1>8. \A q \in Players \ {p} : ~HalfDone(d, q) /\ ~HalfDone(task'[s], q)
  BY <1>6, HalfDoneIsHeld
<1>9. Changes(s, {p})
  BY <1>1, <1>3, <1>4, <1>8, OwnChanges DEF PutsBags
<1>10. Knows(d, p, live[p], rows[p])
  BY <1>0, <1>6 DEF Kept, CopiesMatch
<1>11. live'[p] = rows'[p]
  <2>1. rows[p] = After(d) /\ live[p].worn = rows[p].worn
    BY <1>1, <1>10 DEF Knows
  <2>2. live'[p].worn = live[p].worn /\ live'[p].bags = After(d).bags /\ live'[p] \in Goods
    BY <1>3 DEF PutsBags
  <2>3. rows'[p] = rows[p]
    BY <1>1
  <2> QED BY <1>0, <2>1, <2>2, <2>3, GoodsAre
<1>12. Restores(s, {p})
  BY <1>6, <1>11 DEF Restores
<1>13. Estate(p)' = Estate(p)
  <2>1. Settles(d, p)
    BY <1>1, <1>5 DEF Settles
  <2>2. Estate(p) = rows[p]
    BY <1>0, <1>9, <2>1, EstateAlone
  <2>3. Estate(p)' = rows'[p]
    BY <1>0, <1>9, <1>11, EstateAlone
  <2> QED BY <1>1, <2>2, <2>3
<1> QED
  BY <1>0, <1>1, <1>9, <1>12, <1>13, QuietFair

LEMMA DealFair ==
  ASSUME Firm, Sound', NEW s \in Sessions, Deal(s), harm' = {}
  PROVE  Fair
<1>1. ASSUME NEW n \in 1..MaxUnits PROVE n \in Nat
  BY BankAssumption
<1> QED
  BY <1>1, BeginFair, CopyBagsFair, SettleFair, StoreDealFair, StoreWornFair, StoreBagsFair,
     PutWornFair, PutBagsFair DEF Deal

----------------------------------------------------------------------------
(* Gifts *)

(* A thread is at work on goods of the players S. *)
LEMMA ThreadChanges ==
  ASSUME NEW t \in Threads, NEW S, S \subseteq Players, Touches(t, S), harm' = {},
         \A u \in Threads \ {t} : task'[u] = task[u],
         HasBags(task[t]), HasBags(task'[t]), UNCHANGED online,
         \A q \in Players \ S :
            /\ live'[q] = live[q] /\ rows'[q] = rows[q]
            /\ ~HalfDone(task[t], q) /\ ~HalfDone(task'[t], q)
  PROVE  Changes(t, S) /\ \A q : Packed(q)' <=> Packed(q)
<1>1. \A u \in Threads \ {t} : Reach(task[u]) \cap S = {}
  BY TouchesAlone
<1>2. \A q : Packed(q)' <=> Packed(q)
  BY PackedSame
<1>3. \A q \in Players \ S : ~Settles(task[t], q) /\ ~Settles(task'[t], q)
  BY DEF HalfDone
<1> QED
  BY <1>1, <1>2, <1>3 DEF Changes

(* The rows of a player in the world are up to date before a thread starts to *)
(* change its goods.                                                           *)
LEMMA StoredBefore ==
  ASSUME Kept, NEW t \in Threads, NEW S, Changes(t, S), NEW p \in S,
         ~HalfDone(task[t], p), Packed(p)
  PROVE  rows[p] = live[p]
<1>1. ASSUME NEW u \in Threads PROVE ~HalfDone(task[u], p)
  <2>1. CASE u = t
    BY <2>1
  <2>2. CASE u # t
    BY <2>2, HalfDoneIsHeld DEF Changes
  <2> QED BY <2>1, <2>2
<1>2. p \in Players
  BY DEF Changes
<1> QED
  BY <1>1, <1>2 DEF Kept, OthersStored

LEMMA ThreadTask ==
  ASSUME Firm, NEW t \in Threads
  PROVE  /\ task[t] \in Task /\ task \in [Threads -> Task] /\ task[t].who \in Players
         /\ task[t].thing \in Things /\ task[t].n \in Nat /\ task[t].goods \in Goods
         /\ live \in [Players -> Goods] /\ rows \in [Players -> Goods]
         /\ live[task[t].who] \in Goods /\ rows[task[t].who] \in Goods
         /\ granted \in Int /\ balance \in [Players -> Nat] /\ Kept /\ OneSession
BY TaskFields DEF Firm, Sound, Tasks, Ledgers, Balanced

(* Goods that get the containers others have been given a stack into. *)
LEMMA GivenValue ==
  ASSUME NEW g \in Goods, NEW h \in Goods, NEW k \in Goods, g.bags = h.bags,
         NEW x \in Things, NEW n \in Nat,
         k.worn = h.worn, k.bags = Received(g, x, n).bags
  PROVE  Value(k) = Value(h) + Worth(x) * n
<1>1. Received(g, x, n).bags = [g.bags EXCEPT ![x] = g.bags[x] + n]
  BY DEF Received, Goods
<1>2. Received(h, x, n).bags = [h.bags EXCEPT ![x] = h.bags[x] + n]
  BY DEF Received, Goods
<1>3. k = Received(h, x, n)
  BY <1>1, <1>2, ReceivedIs, GoodsAre
<1> QED
  BY <1>3, ReceivedValue

LEMMA LookUpFair ==
  ASSUME Firm, Sound', NEW t \in Threads, NEW p \in Players, NEW x, NEW n,
         LookUp(t, p, x, n)
  PROVE  Fair
<1>0. task \in [Threads -> Task]
  BY ThreadTask
<1> DEFINE kind == IF p \in online THEN "giftlive" ELSE "giftstored"
<1>1. /\ task[t].at = "idle" /\ UNCHANGED <<online, live, rows, balance, granted>>
      /\ task' = [task EXCEPT ![t] =
            [Doing("fetch", p) EXCEPT !.kind = kind, !.thing = x, !.n = n]]
  BY DEF LookUp, Becomes
<1>2. \A u \in Threads \ {t} : task'[u] = task[u]
  BY <1>0, <1>1
<1>3. task'[t].at = "fetch" /\ task'[t].who = p /\ task'[t].kind = kind
  <2> HIDE DEF kind
  <2> QED BY <1>0, <1>1 DEF Doing
<1>4. Reach(task'[t]) = {p} /\ HasBags(task[t]) /\ HasBags(task'[t])
  BY <1>1, <1>3, ReachIs DEF Saving, HasBags, LoggingIn
<1>5. \A q \in Players : ~HalfDone(task[t], q) /\ ~HalfDone(task'[t], q)
  BY <1>1, <1>3, WholeStages DEF Saving
<1>6. /\ Knows(task'[t], p, live[p], rows[p])
      /\ ~InTheWorld(task'[t]) /\ (InTheRows(task'[t]) => p \notin online)
  BY <1>3 DEF Knows, InTheWorld, InTheRows, Saving, Dealing
<1> QED
  BY <1>1, <1>2, <1>4, <1>5, <1>6, StageFair

LEMMA FetchFair ==
  ASSUME Firm, Sound', NEW t \in Threads, Fetch(t)
  PROVE  Fair
<1> DEFINE d == task[t]
           p == d.who
           bags == IF d.kind = "giftlive" THEN live[p].bags ELSE rows[p].bags
<1>0. d \in Task /\ task \in [Threads -> Task] /\ p \in Players /\ Kept
  BY ThreadTask
<1>1. /\ d.at = "fetch" /\ UNCHANGED <<online, live, rows, balance, granted>>
      /\ \/ /\ d.kind = "giftlive" => Packed(p)
            /\ task' = [task EXCEPT ![t].at = "grant", ![t].goods.bags = bags]
         \/ Rests(t)
  BY DEF Fetch
<1>2. Reach(d) = {p} /\ HasBags(d)
  BY <1>1, ReachIs DEF Saving, HasBags, LoggingIn
<1>3. \A q \in Players : ~HalfDone(d, q)
  BY <1>1, WholeStages DEF Saving
<1>4. CASE Rests(t)
  <2>1. task' = [task EXCEPT ![t] = Doing("idle", p)]
    BY <1>4 DEF Rests, Becomes
  <2> QED
    BY <1>0, <1>1, <1>2, <1>3, <2>1, RestFair
<1>5. CASE /\ d.kind = "giftlive" => Packed(p)
           /\ task' = [task EXCEPT ![t].at = "grant", ![t].goods.bags = bags]
  <2>1. \A u \in Threads \ {t} : task'[u] = task[u]
    BY <1>0, <1>5
  <2>2. /\ task'[t].at = "grant" /\ task'[t].who = p /\ task'[t].kind = d.kind
        /\ task'[t].goods.bags = bags
    <3> HIDE DEF bags
    <3> QED BY <1>0, <1>5 DEF Task, Goods
  <2>3. Reach(task'[t]) = {p} /\ HasBags(task'[t])
    BY <2>2, ReachIs DEF Saving, HasBags, LoggingIn
  <2>4. \A q \in Players : ~HalfDone(task'[t], q)
    BY <2>2, WholeStages DEF Saving
  <2>5. Knows(task'[t], p, live[p], rows[p])
    BY <2>2 DEF Knows, Saving, Dealing
  <2>6. InTheRows(d) => p \notin online
    BY <1>0, <1>2 DEF Kept, TargetsStay
  <2>7. /\ InTheWorld(task'[t]) => Packed(p)
        /\ InTheRows(task'[t]) => p \notin online
    BY <1>1, <1>5, <2>2, <2>6 DEF InTheWorld, InTheRows, Saving
  <2> QED
    BY <1>0, <1>1, <1>2, <1>3, <2>1, <2>3, <2>4, <2>5, <2>7, StageFair
<1> QED
  BY <1>1, <1>4, <1>5

(* The row is written: from here on the player has the gift. *)
LEMMA GrantFair ==
  ASSUME Firm, Sound', NEW t \in Threads, Grant(t), harm' = {}
  PROVE  Fair
<1> DEFINE d == task[t]
           n == Worth(d.thing) * d.n
<1>w. PICK p \in Players : p = task[t].who
  BY ThreadTask
<1>0. /\ p = d.who /\ d \in Task /\ task \in [Threads -> Task] /\ p \in Players /\ Kept
      /\ d.thing \in Things /\ d.n \in Nat /\ d.goods \in Goods
      /\ rows \in [Players -> Goods] /\ live[p] \in Goods /\ rows[p] \in Goods /\ OneSession
  BY <1>w, ThreadTask
<1>1. /\ d.at = "grant" /\ UNCHANGED <<online, live, balance>> /\ Touches(t, {p})
      /\ rows' = [rows EXCEPT ![p].bags = Gift(t).bags]
      /\ granted' = granted + n
      /\ IF d.kind = "giftlive" THEN Goto(t, "deliver") ELSE Rests(t)
  BY <1>w DEF Grant
<1>2. n \in Int /\ Gift(t) \in Goods /\ Gift(t).bags \in Counts
  BY GiftType, GoodsFields DEF Firm
<1> HIDE DEF n
<1>3. PutsBags(rows, rows', p, Gift(t).bags)
  BY <1>0, <1>1, <1>2, BagsPut, Zenon
<1>4. \/ d.kind = "giftlive" /\ task' = [task EXCEPT ![t].at = "deliver"]
      \/ d.kind # "giftlive" /\ task' = [task EXCEPT ![t] = Doing("idle", p)]
  BY <1>0, <1>1 DEF Goto, Rests, Becomes
<1>5. \A u \in Threads \ {t} : task'[u] = task[u]
  BY <1>0, <1>4
<1>6. /\ d.kind = "giftlive" => /\ task'[t].at = "deliver" /\ task'[t].who = p
                                /\ task'[t].kind = d.kind /\ task'[t].thing = d.thing
                                /\ task'[t].n = d.n /\ task'[t].goods = d.goods
      /\ d.kind # "giftlive" => task'[t].at = "idle"
  BY <1>0, <1>4 DEF Task, Doing
<1>7. Reach(d) = {p} /\ HasBags(d) /\ ~HalfDone(d, p)
  BY <1>0, <1>1, ReachIs, WholeStages DEF Saving, HasBags, LoggingIn
<1>8. HasBags(task'[t]) /\ Reach(task'[t]) = IF d.kind = "giftlive" THEN {p} ELSE {}
  BY <1>6, ReachIs DEF Saving, HasBags, LoggingIn
<1>c. Changes(t, {p}) /\ \A q : Packed(q)' <=> Packed(q)
  <2>1. \A q \in Players \ {p} : ~HalfDone(d, q) /\ ~HalfDone(task'[t], q)
    BY <1>7, <1>8, HalfDoneIsHeld
  <2>2. \A q \in Players \ {p} : live'[q] = live[q] /\ rows'[q] = rows[q]
    BY <1>1, <1>3 DEF PutsBags
  <2> QED BY <1>0, <1>1, <1>5, <1>7, <1>8, <2>1, <2>2, ThreadChanges
<1>9. Changes(t, {p})
  BY <1>c
<1>p. Packed(p)' <=> Packed(p)
  BY <1>c
<1>10. Knows(d, p, live[p], rows[p])
       /\ (InTheWorld(d) => Packed(p)) /\ (InTheRows(d) => p \notin online)
  BY <1>0, <1>7 DEF Kept, CopiesMatch, TargetsStay
<1>11. /\ d.goods.bags = rows[p].bags
       /\ d.kind = "giftlive" => Packed(p) /\ rows[p] = live[p]
       /\ d.kind # "giftlive" => ~Packed(p)
  <2>1. CASE d.kind = "giftlive"
    <3>1. Packed(p)
      BY <1>1, <1>10, <2>1 DEF InTheWorld
    <3>2. rows[p] = live[p]
      BY <1>0, <1>7, <1>9, <3>1, StoredBefore
    <3> QED BY <1>1, <1>10, <2>1, <3>1, <3>2 DEF Knows
  <2>2. CASE d.kind # "giftlive"
    <3>1. p \notin online
      BY <1>1, <1>10, <2>2 DEF InTheRows
    <3> QED BY <1>0, <1>1, <1>10, <2>2, <3>1, PackedOnline DEF Knows
  <2> QED BY <2>1, <2>2
<1>12. /\ rows'[p] \in Goods /\ rows'[p].worn = rows[p].worn
       /\ rows'[p].bags = Received(d.goods, d.thing, d.n).bags
  BY <1>3 DEF PutsBags, Gift
<1>13. Value(rows'[p]) = Value(rows[p]) + n
  BY <1>0, <1>11, <1>12, GivenValue DEF n
<1>14. Restores(t, {p})
  <2>1. CASE d.kind = "giftlive"
    <3>1. Knows(task'[t], p, live'[p], rows'[p])
      BY <1>1, <1>6, <1>11, <1>12, <2>1 DEF Knows, Saving, Dealing, Present
    <3>2. Packed(p)' /\ ~InTheRows(task'[t])
      BY <1>6, <1>p, <1>11, <2>1 DEF InTheRows
    <3>3. HalfDone(task'[t], p)
      BY <1>6, <2>1 DEF HalfDone, Settles
    <3> QED
      BY <1>8, <2>1, <3>1, <3>2, <3>3 DEF Restores
  <2>2. CASE d.kind # "giftlive"
    BY <1>8, <1>p, <1>11, <2>2 DEF Restores
  <2> QED BY <2>1, <2>2
<1>15. Estate(p) = rows[p] /\ Estate(p)' = rows'[p]
  <2>1. Estate(p) = IF Packed(p) /\ ~Settles(d, p) THEN live[p] ELSE rows[p]
    BY <1>0, <1>9, EstateAlone
  <2>2. Estate(p)' = IF Packed(p)' /\ ~Settles(task'[t], p) THEN live'[p] ELSE rows'[p]
    BY <1>0, <1>9, EstateAlone
  <2>3. d.kind = "giftlive" => Settles(task'[t], p)
    BY <1>6 DEF Settles
  <2> QED
    BY <1>1, <1>p, <1>11, <2>1, <2>2, <2>3
<1>16. Value(Estate(p)') + balance'[p] = Value(Estate(p)) + balance[p] + n
  <2>1. Value(rows[p]) \in Int /\ balance[p] \in Nat
    BY <1>0, ValueType, ThreadTask
  <2> QED BY <1>1, <1>2, <1>13, <1>15, <2>1
<1> QED
  BY <1>0, <1>1, <1>2, <1>9, <1>14, <1>16, ValueFair

LEMMA DeliverFair ==
  ASSUME Firm, Sound', NEW t \in Threads, Deliver(t), harm' = {}
  PROVE  Fair
<1> DEFINE d == task[t]
<1>w. PICK p \in Players : p = task[t].who
  BY ThreadTask
<1>0. /\ p = d.who /\ d \in Task /\ task \in [Threads -> Task] /\ p \in Players /\ Kept
      /\ live \in [Players -> Goods] /\ rows[p] \in Goods
  BY <1>w, ThreadTask
<1>1. /\ d.at = "deliver" /\ UNCHANGED <<online, rows, balance, granted>> /\ Touches(t, {p})
      /\ live' = [live EXCEPT ![p].bags = Gift(t).bags]
      /\ task' = [task EXCEPT ![t] = Doing("idle", p)]
  BY <1>w DEF Deliver, Rests, Becomes
<1>2. Gift(t).bags \in Counts
  BY GiftType, GoodsFields DEF Firm
<1>3. PutsBags(live, live', p, Gift(t).bags)
  BY <1>0, <1>1, <1>2, BagsPut, Zenon
<1>4. \A u \in Threads \ {t} : task'[u] = task[u]
  BY <1>0, <1>1
<1>5. task'[t].at = "idle"
  BY <1>0, <1>1 DEF Doing
<1>6. /\ Reach(d) = {p} /\ Reach(task'[t]) = {} /\ HasBags(d) /\ HasBags(task'[t])
      /\ Settles(d, p)
  BY <1>0, <1>1, <1>5, ReachIs DEF Saving, HasBags, LoggingIn, Settles
<1>c. Changes(t, {p}) /\ \A q : Packed(q)' <=> Packed(q)
  <2>1. \A q \in Players \ {p} : ~HalfDone(d, q) /\ ~HalfDone(task'[t], q)
    BY <1>6, HalfDoneIsHeld
  <2>2. \A q \in Players \ {p} : live'[q] = live[q] /\ rows'[q] = rows[q]
    BY <1>1, <1>3 DEF PutsBags
  <2> QED BY <1>0, <1>1, <1>4, <1>6, <2>1, <2>2, ThreadChanges
<1>7. Changes(t, {p})
  BY <1>c
<1>8. Knows(d, p, live[p], rows[p]) /\ (InTheWorld(d) => Packed(p))
  BY <1>0, <1>6 DEF Kept, CopiesMatch, TargetsStay
<1>9. live'[p] = rows'[p]
  <2>1. rows[p].bags = Gift(t).bags /\ rows[p].worn = live[p].worn
    BY <1>1, <1>8 DEF Knows, Present, Gift
  <2>2. live'[p].worn = live[p].worn /\ live'[p].bags = Gift(t).bags /\ live'[p] \in Goods
    BY <1>3 DEF PutsBags
  <2>3. rows'[p] = rows[p]
    BY <1>1
  <2> QED BY <1>0, <2>1, <2>2, <2>3, GoodsAre
<1>10. Restores(t, {p})
  BY <1>6, <1>9 DEF Restores
<1>11. Estate(p)' = Estate(p)
  <2>1. Estate(p) = rows[p] /\ Estate(p)' = rows'[p]
    BY <1>0, <1>6, <1>7, <1>9, EstateAlone
  <2> QED BY <1>1, <2>1
<1> QED
  BY <1>0, <1>1, <1>7, <1>10, <1>11, QuietFair

LEMMA GiveFair ==
  ASSUME Firm, Sound', NEW t \in Threads, Give(t), harm' = {}
  PROVE  Fair
BY LookUpFair, FetchFair, GrantFair, DeliverFair DEF Give

(* The bridge can fail as long as it has written nothing: whom it has granted *)
(* a gift in the world is still there to get it.                              *)
LEMMA GiftFailsFair ==
  ASSUME Firm, Sound', GiftFails
  PROVE  Fair
<1> DEFINE d == task[Operator]
           p == d.who
<1>0. Operator \in Threads /\ Operator \notin Sessions /\ p \in Players /\ Kept /\ OneSession
  BY ThreadTask, BankAssumption DEF Threads
<1>1. /\ MayFail(Operator) /\ UNCHANGED <<online, live, rows, balance, granted>>
      /\ task' = [task EXCEPT ![Operator] = Doing("idle", p)]
      /\ d.at \in {"fetch", "grant", "deliver"}
  BY DEF GiftFails, Rests, Becomes, Firm, BridgeGives
<1>2. d.at # "deliver"
  <2>1. SUFFICES ASSUME d.at = "deliver" PROVE FALSE
    OBVIOUS
  <2>2. p \notin online
    BY <1>1, <2>1 DEF MayFail
  <2>3. p \in Reach(d) /\ InTheWorld(d)
    BY <2>1, ReachIs DEF Saving, InTheWorld
  <2>4. Packed(p)
    BY <1>0, <2>3 DEF Kept, TargetsStay
  <2> QED
    BY <1>0, <2>2, <2>4, PackedOnline
<1>3. \A q \in Players : ~HalfDone(d, q)
  BY <1>1, <1>2, WholeStages DEF Saving
<1> QED
  BY <1>0, <1>1, <1>3, RestFair

----------------------------------------------------------------------------
(* Loot shares and rewards *)

LEMMA OfferFair ==
  ASSUME Firm, Sound', NEW s \in Sessions, NEW p \in Players, NEW kind, NEW x, NEW n,
         Offer(s, p, kind, x, n)
  PROVE  Fair
<1>0. s \in Threads /\ task \in [Threads -> Task]
  BY SessionTask, ThreadTask
<1>1. /\ task[s].at = "idle" /\ UNCHANGED <<online, live, rows, balance, granted>> /\ Packed(p)
      /\ task' = [task EXCEPT ![s] =
            [Doing("hand", p) EXCEPT !.kind = kind, !.thing = x, !.n = n, !.goods = live[p]]]
  BY DEF Offer, Becomes
<1>2. \A u \in Threads \ {s} : task'[u] = task[u]
  BY <1>0, <1>1
<1>3. task'[s].at = "hand" /\ task'[s].who = p /\ task'[s].goods = live[p]
  BY <1>0, <1>1 DEF Doing
<1>4. Reach(task'[s]) = {p} /\ HasBags(task[s]) /\ HasBags(task'[s])
  BY <1>1, <1>3, ReachIs DEF Saving, HasBags, LoggingIn
<1>5. \A q \in Players : ~HalfDone(task[s], q) /\ ~HalfDone(task'[s], q)
  BY <1>1, <1>3, WholeStages DEF Saving
<1>6. Knows(task'[s], p, live[p], rows[p]) /\ ~InTheRows(task'[s])
  BY <1>3 DEF Knows, InTheRows, Saving, Dealing
<1> QED
  BY <1>0, <1>1, <1>2, <1>4, <1>5, <1>6, StageFair

(* The world has the share or the reward: from here on the player has it. *)
LEMMA HandFair ==
  ASSUME Firm, Sound', NEW s \in Sessions, Hand(s), harm' = {}
  PROVE  Fair
<1> DEFINE d == task[s]
           n == Worth(d.thing) * d.n
<1>s. s \in Threads
  BY SessionTask
<1>w. PICK p \in Players : p = task[s].who
  BY <1>s, ThreadTask
<1>0. /\ p = d.who /\ d \in Task /\ task \in [Threads -> Task] /\ Kept
      /\ d.thing \in Things /\ d.n \in Nat /\ d.goods \in Goods
      /\ live \in [Players -> Goods] /\ live[p] \in Goods /\ rows[p] \in Goods
  BY <1>s, <1>w, ThreadTask
<1>1. /\ d.at = "hand" /\ UNCHANGED <<online, rows, balance>> /\ Touches(s, {p})
      /\ live' = [live EXCEPT ![p].bags = Gift(s).bags]
      /\ granted' = granted + n
      /\ IF d.kind = "loot" THEN Goto(s, "storehanded")
         ELSE task' = [task EXCEPT ![s].at = "save", ![s].todo = <<p>>]
  BY <1>w DEF Hand
<1>2. n \in Int /\ Gift(s) \in Goods /\ Gift(s).bags \in Counts
  BY <1>s, GiftType, GoodsFields DEF Firm
<1> HIDE DEF n
<1>3. PutsBags(live, live', p, Gift(s).bags)
  BY <1>0, <1>1, <1>2, BagsPut, Zenon
<1>4. \/ task' = [task EXCEPT ![s].at = "storehanded"]
      \/ task' = [task EXCEPT ![s].at = "save", ![s].todo = <<p>>]
  BY <1>1 DEF Goto
<1>5. \A u \in Threads \ {s} : task'[u] = task[u]
  BY <1>0, <1>4
<1>6. /\ task'[s].who = p /\ task'[s].kind = d.kind /\ task'[s].thing = d.thing
      /\ task'[s].n = d.n /\ task'[s].goods = d.goods
      /\ \/ task'[s].at = "storehanded"
         \/ task'[s].at = "save" /\ task'[s].todo = <<p>>
  BY <1>s, <1>0, <1>4 DEF Task
<1>7. Reach(d) = {p} /\ HasBags(d) /\ \A q : ~HalfDone(d, q)
  BY <1>0, <1>1, ReachIs, WholeStages DEF Saving, HasBags, LoggingIn
<1>8. /\ HasBags(task'[s]) /\ Reach(task'[s]) = {p} /\ Owes(task'[s], p)
      /\ ~Settles(task'[s], p)
  <2>1. CASE task'[s].at = "storehanded"
    BY <1>6, <2>1, ReachIs DEF Saving, HasBags, LoggingIn, Owes, Settles
  <2>2. CASE task'[s].at = "save" /\ task'[s].todo = <<p>>
    <3>1. {task'[s].todo[i] : i \in DOMAIN task'[s].todo} = {p}
      BY <2>2
    <3> QED BY <2>2, <3>1, ReachIs DEF Saving, HasBags, LoggingIn, Owes, Settles
  <2> QED BY <1>6, <2>1, <2>2
<1>c. Changes(s, {p}) /\ \A q : Packed(q)' <=> Packed(q)
  <2>1. \A q \in Players \ {p} : ~HalfDone(d, q) /\ ~HalfDone(task'[s], q)
    BY <1>7, <1>8, HalfDoneIsHeld
  <2>2. \A q \in Players \ {p} : live'[q] = live[q] /\ rows'[q] = rows[q]
    BY <1>1, <1>3 DEF PutsBags
  <2> QED BY <1>s, <1>0, <1>1, <1>5, <1>7, <1>8, <2>1, <2>2, ThreadChanges
<1>9. Changes(s, {p})
  BY <1>c
<1>10. Knows(d, p, live[p], rows[p]) /\ (InTheWorld(d) => Packed(p))
  BY <1>s, <1>0, <1>7 DEF Kept, CopiesMatch, TargetsStay
<1>11. Packed(p) /\ Packed(p)' /\ d.goods = live[p]
  BY <1>1, <1>c, <1>10 DEF InTheWorld, Knows
<1>12. rows[p] = live[p]
  BY <1>s, <1>0, <1>7, <1>9, <1>11, StoredBefore
<1>13. /\ live'[p] \in Goods /\ live'[p].worn = live[p].worn
       /\ live'[p].bags = Received(d.goods, d.thing, d.n).bags
  BY <1>3 DEF PutsBags, Gift
<1>14. Value(live'[p]) = Value(live[p]) + n
  BY <1>0, <1>11, <1>13, GivenValue DEF n
<1>15. Restores(s, {p})
  <2>1. Knows(task'[s], p, live'[p], rows'[p])
    BY <1>1, <1>6, <1>12, <1>13 DEF Knows, Saving, Dealing, Present
  <2>2. ~InTheRows(task'[s])
    BY <1>6 DEF InTheRows
  <2>3. HalfDone(task'[s], p)
    BY <1>8 DEF HalfDone
  <2> QED
    BY <1>8, <1>11, <2>1, <2>2, <2>3 DEF Restores
<1>16. Estate(p) = live[p] /\ Estate(p)' = live'[p]
  <2>1. ~Settles(d, p)
    BY <1>7 DEF HalfDone
  <2> QED BY <1>s, <1>8, <1>9, <1>11, <2>1, EstateAlone
<1>17. Value(Estate(p)') + balance'[p] = Value(Estate(p)) + balance[p] + n
  <2>1. Value(live[p]) \in Int /\ balance[p] \in Nat
    BY <1>s, <1>0, ValueType, ThreadTask
  <2> QED BY <1>1, <1>2, <1>14, <1>16, <2>1
<1> QED
  BY <1>s, <1>1, <1>2, <1>9, <1>15, <1>17, ValueFair

LEMMA StoreHandedFair ==
  ASSUME Firm, Sound', NEW s \in Sessions, StoreHanded(s), harm' = {}
  PROVE  Fair
<1> DEFINE d == task[s]
<1>s. s \in Threads
  BY SessionTask
<1>w. PICK p \in Players : p = task[s].who
  BY <1>s, ThreadTask
<1>0. /\ p = d.who /\ d \in Task /\ task \in [Threads -> Task] /\ Kept
      /\ rows \in [Players -> Goods] /\ live[p] \in Goods
  BY <1>s, <1>w, ThreadTask
<1>1. /\ d.at = "storehanded" /\ UNCHANGED <<online, live, balance, granted>> /\ Touches(s, {p})
      /\ rows' = [rows EXCEPT ![p].bags = Gift(s).bags]
      /\ task' = [task EXCEPT ![s] = Doing("idle", p)]
  BY <1>w DEF StoreHanded, Rests, Becomes
<1>2. Gift(s).bags \in Counts
  BY <1>s, GiftType, GoodsFields DEF Firm
<1>3. PutsBags(rows, rows', p, Gift(s).bags)
  BY <1>0, <1>1, <1>2, BagsPut, Zenon
<1>4. \A u \in Threads \ {s} : task'[u] = task[u]
  BY <1>0, <1>1
<1>5. task'[s].at = "idle"
  BY <1>s, <1>0, <1>1 DEF Doing
<1>6. /\ Reach(d) = {p} /\ Reach(task'[s]) = {} /\ HasBags(d) /\ HasBags(task'[s])
      /\ ~Settles(d, p) /\ ~Settles(task'[s], p)
  BY <1>0, <1>1, <1>5, ReachIs DEF Saving, HasBags, LoggingIn, Settles
<1>c. Changes(s, {p}) /\ \A q : Packed(q)' <=> Packed(q)
  <2>1. \A q \in Players \ {p} : ~HalfDone(d, q) /\ ~HalfDone(task'[s], q)
    BY <1>6, HalfDoneIsHeld
  <2>2. \A q \in Players \ {p} : live'[q] = live[q] /\ rows'[q] = rows[q]
    BY <1>1, <1>3 DEF PutsBags
  <2> QED BY <1>s, <1>0, <1>1, <1>4, <1>6, <2>1, <2>2, ThreadChanges
<1>7. Changes(s, {p})
  BY <1>c
<1>8. Knows(d, p, live[p], rows[p]) /\ (InTheWorld(d) => Packed(p))
  BY <1>s, <1>0, <1>6 DEF Kept, CopiesMatch, TargetsStay
<1>9. Packed(p) /\ Packed(p)'
  BY <1>1, <1>c, <1>8 DEF InTheWorld
<1>10. rows'[p] = live'[p]
  <2>1. live[p].bags = Gift(s).bags /\ rows[p].worn = live[p].worn
    BY <1>1, <1>8 DEF Knows, Present, Gift
  <2>2. rows'[p].worn = rows[p].worn /\ rows'[p].bags = Gift(s).bags /\ rows'[p] \in Goods
    BY <1>3 DEF PutsBags
  <2>3. live'[p] = live[p]
    BY <1>1
  <2> QED BY <1>0, <2>1, <2>2, <2>3, GoodsAre
<1>11. Restores(s, {p})
  BY <1>6, <1>10 DEF Restores
<1>12. Estate(p)' = Estate(p)
  <2>1. Estate(p) = live[p] /\ Estate(p)' = live'[p]
    BY <1>s, <1>6, <1>7, <1>9, EstateAlone
  <2> QED BY <1>1, <2>1
<1> QED
  BY <1>s, <1>1, <1>7, <1>11, <1>12, QuietFair

LEMMA HandingFair ==
  ASSUME Firm, Sound', NEW s \in Sessions, Handing(s), harm' = {}
  PROVE  Fair
BY OfferFair, HandFair, StoreHandedFair DEF Handing

----------------------------------------------------------------------------
(* Trades and own moves *)

(* The number of one thing is put. *)
PutsCarried(f, g, p, x, n) ==
    /\ g \in [Players -> Goods] /\ g[p].worn = f[p].worn /\ g[p].bags[x] = n
    /\ \A y \in Things \ {x} : g[p].bags[y] = f[p].bags[y]
    /\ \A q \in Players \ {p} : g[q] = f[q]
PutsOn(f, g, p, x, n) ==
    /\ g \in [Players -> Goods] /\ g[p].bags = f[p].bags /\ g[p].worn[x] = n
    /\ \A y \in Things \ {x} : g[p].worn[y] = f[p].worn[y]
    /\ \A q \in Players \ {p} : g[q] = f[q]

LEMMA CountPut ==
  ASSUME NEW f \in [Players -> Goods], NEW p \in Players, NEW x \in Things, NEW n \in Nat
  PROVE  /\ PutsCarried(f, [f EXCEPT ![p].bags[x] = n], p, x, n)
         /\ PutsOn(f, [f EXCEPT ![p].worn[x] = n], p, x, n)
<1> DEFINE c == [f[p].bags EXCEPT ![x] = n]
           d == [f[p].worn EXCEPT ![x] = n]
           g == [f EXCEPT ![p].bags = c]
           h == [f EXCEPT ![p].worn = d]
<1>1. /\ c[x] = n /\ d[x] = n /\ c \in Counts /\ d \in Counts
      /\ \A y \in Things \ {x} : c[y] = f[p].bags[y] /\ d[y] = f[p].worn[y]
  BY GoodsFields, CountsChanged DEF Counts
<1>2. /\ [f EXCEPT ![p].bags[x] = n] = g
      /\ [f EXCEPT ![p].worn[x] = n] = h
  OBVIOUS
<1>3. g \in [Players -> Goods] /\ h \in [Players -> Goods]
  BY <1>2, CountStep
<1>4. PutsBags(f, g, p, c) /\ PutsWorn(f, h, p, d)
  <2> HIDE DEF c, d
  <2> QED BY <1>1, BagsPut, WornPut, Zenon
<1> HIDE DEF c, d, g, h
<1>5. PutsCarried(f, g, p, x, n) /\ PutsOn(f, h, p, x, n)
  BY <1>1, <1>3, <1>4 DEF PutsBags, PutsWorn, PutsCarried, PutsOn
<1> QED
  BY <1>2, <1>5, Zenon

(* The thread has only to store the goods of the players todo. *)
Starts(t, kind, todo) ==
    /\ task'[t].at = "save" /\ task'[t].kind = kind /\ task'[t].todo = todo
    /\ HasBags(task'[t]) /\ Reach(task'[t]) = {todo[i] : i \in DOMAIN todo}
    /\ \A q : ~Settles(task'[t], q)
    /\ \A u \in Threads \ {t} : task'[u] = task[u]

LEMMA SavingTask ==
  ASSUME Tasks, NEW t \in Threads, NEW p, NEW kind, NEW todo,
         task' = [task EXCEPT ![t] = [Doing("save", p) EXCEPT !.kind = kind, !.todo = todo]]
  PROVE  Starts(t, kind, todo)
<1>1. /\ task'[t].at = "save" /\ task'[t].kind = kind /\ task'[t].todo = todo
      /\ \A u \in Threads \ {t} : task'[u] = task[u]
  BY DEF Tasks, Doing
<1>2. HasBags(task'[t]) /\ \A q : ~Settles(task'[t], q)
  BY <1>1 DEF HasBags, LoggingIn, Settles
<1>3. Reach(task'[t]) = {todo[i] : i \in DOMAIN todo}
  <2>1. Reach(task'[t]) = {task'[t].todo[i] : i \in DOMAIN task'[t].todo}
    BY <1>1 DEF Reach, Saving
  <2>2. task'[t].todo = todo
    BY <1>1
  <2>3. ASSUME NEW f, f = todo PROVE {f[i] : i \in DOMAIN f} = {todo[i] : i \in DOMAIN todo}
    BY <2>3
  <2> QED BY <2>1, <2>2, <2>3, Zenon
<1> QED
  BY <1>1, <1>2, <1>3 DEF Starts

(* What one side loses the other gains. *)
LEMMA SwapIs ==
  ASSUME Firm, NEW s \in Sessions, NEW from \in Players, NEW to \in Players,
         NEW x \in Things, NEW todo, Swap(s, from, to, x, todo)
  PROVE  /\ from # to /\ \A q \in Players \ {from, to} : live'[q] = live[q]
         /\ live'[from].worn = live[from].worn /\ live'[to].worn = live[to].worn
         /\ live'[from] \in Goods /\ live'[to] \in Goods
         /\ Value(live'[from]) = Value(live[from]) + Worth(x) * (0 - live[from].bags[x])
         /\ Value(live'[to]) = Value(live[to]) + Worth(x) * live[from].bags[x]
<1> DEFINE n == live[from].bags[x]
           k == live[to].bags[x] + n
           m == [live EXCEPT ![from].bags[x] = 0]
           g == [m EXCEPT ![to].bags[x] = k]
<1>1. /\ live \in [Players -> Goods] /\ live[from] \in Goods /\ live[to] \in Goods
      /\ n \in Nat /\ live[to].bags[x] \in Nat
      /\ live[from].worn[x] \in Nat /\ live[to].worn[x] \in Nat
  BY GoodsFields, CountsField DEF Firm, Sound, Ledgers
<1>2. from # to /\ live' = [live EXCEPT ![from].bags[x] = 0, ![to].bags[x] = @ + n]
  BY Zenon DEF Swap
<1>3. /\ m \in [Players -> Goods] /\ m[from].worn = live[from].worn /\ m[from].bags[x] = 0
      /\ \A y \in Things \ {x} : m[from].bags[y] = live[from].bags[y]
      /\ \A q \in Players \ {from} : m[q] = live[q]
  <2>1. 0 \in Nat /\ live \in [Players -> Goods]
    BY <1>1
  <2>2. PutsCarried(live, m, from, x, 0)
    BY <2>1, CountPut, Zenon
  <2> HIDE DEF m, n
  <2> QED BY <2>2 DEF PutsCarried
<1>4. live' = g
  <2>1. m[to] = live[to]
    BY <1>2, <1>3
  <2>2. live' = [m EXCEPT ![to].bags[x] = m[to].bags[x] + n]
    <3> HIDE DEF n
    <3> QED BY <1>1, <1>2, <2>1
  <2>3. m[to].bags[x] + n = k
    BY <2>1
  <2> HIDE DEF m, k, n
  <2> QED BY <2>2, <2>3
<1>5. k \in Nat
  BY <1>1
<1>6. /\ g \in [Players -> Goods] /\ g[to].worn = m[to].worn /\ g[to].bags[x] = k
      /\ \A y \in Things \ {x} : g[to].bags[y] = m[to].bags[y]
      /\ \A q \in Players \ {to} : g[q] = m[q]
  <2>1. PutsCarried(m, g, to, x, k)
    <3> HIDE DEF m, k
    <3> QED BY <1>3, <1>5, CountPut, Zenon
  <2> HIDE DEF m, k, g
  <2> QED BY <2>1 DEF PutsCarried
<1> HIDE DEF m, g
<1>7. /\ live'[from] = m[from] /\ live'[to].worn = live[to].worn /\ live'[to].bags[x] = k
      /\ \A y \in Things \ {x} : live'[to].bags[y] = live[to].bags[y]
      /\ \A q \in Players \ {from, to} : live'[q] = live[q]
      /\ live'[from] \in Goods /\ live'[to] \in Goods
  BY <1>2, <1>3, <1>4, <1>6
<1>8. Value(live'[from]) = Value(live[from]) + Worth(x) * (0 - n)
  <2>1. 0 - n \in Int /\ 0 = n + (0 - n)
    BY <1>1
  <2>2. live'[from].worn[x] + live'[from].bags[x] = live[from].worn[x] + live[from].bags[x] + (0 - n)
    BY <1>1, <1>3, <1>7
  <2>3. \A y \in Things \ {x} : live'[from].worn[y] = live[from].worn[y]
                                 /\ live'[from].bags[y] = live[from].bags[y]
    BY <1>3, <1>7
  <2> HIDE DEF n
  <2> QED BY <1>1, <1>7, <2>1, <2>2, <2>3, ValueMoves
<1>9. Value(live'[to]) = Value(live[to]) + Worth(x) * n
  <2>1. live'[to].worn[x] + live'[to].bags[x] = live[to].worn[x] + live[to].bags[x] + n
    BY <1>1, <1>7
  <2>2. \A y \in Things \ {x} : live'[to].worn[y] = live[to].worn[y]
                                 /\ live'[to].bags[y] = live[to].bags[y]
    BY <1>7
  <2> HIDE DEF n, k
  <2> QED BY <1>1, <1>7, <2>1, <2>2, ValueMoves
<1> QED
  BY <1>2, <1>3, <1>7, <1>8, <1>9

LEMMA SwapFair ==
  ASSUME Firm, Sound', NEW s \in Sessions, NEW from \in Players, NEW to \in Players,
         NEW x \in Things, NEW todo \in {<<from, to>>, <<to, from>>},
         Swap(s, from, to, x, todo), harm' = {}
  PROVE  Fair
<1> DEFINE S == {from, to}
           n == live[from].bags[x]
           w == Worth(x)
<1>0. /\ s \in Threads /\ Kept /\ live \in [Players -> Goods] /\ rows \in [Players -> Goods]
      /\ Tasks /\ balance \in [Players -> Nat] /\ granted \in Int
  BY SessionTask DEF Firm, Sound, Ledgers
<1>1. /\ task[s].at = "idle" /\ Packed(from) /\ Packed(to) /\ Touches(s, S)
      /\ UNCHANGED <<online, rows, balance, granted>>
      /\ task' = [task EXCEPT ![s] =
                      [Doing("save", Owner[s]) EXCEPT !.kind = "swap", !.todo = todo]]
  BY Zenon DEF Swap, Becomes
<1>2. /\ from # to /\ \A q \in Players \ S : live'[q] = live[q]
      /\ live'[from].worn = live[from].worn /\ live'[to].worn = live[to].worn
      /\ live'[from] \in Goods /\ live'[to] \in Goods
      /\ Value(live'[from]) = Value(live[from]) + w * (0 - n)
      /\ Value(live'[to]) = Value(live[to]) + w * n
  BY SwapIs, Zenon
<1>3. /\ task'[s].at = "save" /\ task'[s].kind = "swap" /\ HasBags(task'[s])
      /\ Reach(task'[s]) = {todo[i] : i \in DOMAIN todo}
      /\ \A q : ~Settles(task'[s], q)
      /\ \A u \in Threads \ {s} : task'[u] = task[u]
  <2>1. Starts(s, "swap", todo)
    BY <1>0, <1>1, SavingTask, Zenon
  <2> QED BY <2>1 DEF Starts
<1>4. Reach(task'[s]) = S
  <2>1. {todo[i] : i \in DOMAIN todo} = {from, to}
    BY todo \in {<<from, to>>, <<to, from>>}
  <2> QED BY <1>3, <2>1
<1>5. HasBags(task[s]) /\ \A q : ~HalfDone(task[s], q)
  BY <1>1, WholeStages DEF Saving, HasBags, LoggingIn
<1>c. Changes(s, S) /\ \A q : Packed(q)' <=> Packed(q)
  <2>1. \A q \in Players \ S : ~HalfDone(task'[s], q)
    BY <1>4, HalfDoneIsHeld
  <2>2. \A q \in Players \ S : live'[q] = live[q] /\ rows'[q] = rows[q]
    BY <1>1, <1>2
  <2>3. S \subseteq Players
    OBVIOUS
  <2> HIDE DEF S
  <2> QED BY <1>0, <1>1, <1>3, <1>5, <2>1, <2>2, <2>3, ThreadChanges
<1>6. Changes(s, S)
  BY <1>c
<1>7. Packed(from)' /\ Packed(to)'
  BY <1>1, <1>c
<1>8. rows[from] = live[from] /\ rows[to] = live[to]
  BY <1>0, <1>1, <1>5, <1>6, StoredBefore
<1>9. Restores(s, S)
  <2>1. ASSUME NEW p \in S
        PROVE  /\ Knows(task'[s], p, live'[p], rows'[p]) /\ ~InTheRows(task'[s])
               /\ Packed(p)' /\ HalfDone(task'[s], p)
    <3>1. rows'[p].worn = live'[p].worn
      BY <1>1, <1>2, <1>8, <2>1
    <3>2. Knows(task'[s], p, live'[p], rows'[p]) /\ ~InTheRows(task'[s])
      BY <1>3, <3>1 DEF Knows, InTheRows, Saving, Dealing
    <3>3. HalfDone(task'[s], p)
      BY <1>3, <1>4, <2>1 DEF HalfDone, Owes, Saving
    <3> QED BY <1>7, <2>1, <3>2, <3>3
  <2> HIDE DEF S
  <2> QED BY <1>4, <2>1 DEF Restores
<1>10. /\ Estate(from) = live[from] /\ Estate(from)' = live'[from]
       /\ Estate(to) = live[to] /\ Estate(to)' = live'[to]
  <2>1. \A q : ~Settles(task[s], q)
    BY <1>5 DEF HalfDone
  <2> QED BY <1>0, <1>1, <1>3, <1>6, <1>7, <2>1, EstateAlone
<1>11. Kept' /\ Tasks' /\ Ledgers /\ Ledgers'
  BY <1>0, <1>6, <1>9, KeptStep DEF Firm, Sound
<1>12. \A q \in Players \ S : Estate(q)' = Estate(q) /\ balance'[q] = balance[q]
  BY <1>0, <1>1, <1>6, EstateSame
<1>13. /\ w * (0 - n) \in Int /\ w * n \in Int /\ w * (0 - n) + w * n = 0
       /\ Value(live[from]) \in Int /\ Value(live[to]) \in Int
       /\ balance[from] \in Nat /\ balance[to] \in Nat
  <2>1. w \in Nat /\ n \in Nat
    BY <1>0, WorthType, GoodsFields, CountsField
  <2>2. \A a, b \in Nat : a * (0 - b) \in Int /\ a * b \in Int /\ a * (0 - b) + a * b = 0
    OBVIOUS
  <2> HIDE DEF w, n
  <2> QED BY <1>0, <2>1, <2>2, ValueType
<1> HIDE DEF w, n
<1> DEFINE k == w * (0 - n)
           m == w * n
<1>14. /\ Value(Estate(from)') + balance'[from] = Value(Estate(from)) + balance[from] + k
       /\ Value(Estate(to)') + balance'[to] = Value(Estate(to)) + balance[to] + m
  BY <1>1, <1>2, <1>10, <1>13
<1>15. k \in Int /\ m \in Int /\ k + m = 0
  BY <1>13
<1> HIDE DEF k, m, S
<1>16. Wealth \in Int /\ Wealth' = Wealth + k + m
  BY <1>0, <1>2, <1>11, <1>12, <1>14, <1>15, WealthStep DEF S
<1> QED
  BY <1>0, <1>1, <1>11, <1>15, <1>16 DEF Fair

LEMMA MoveFair ==
  ASSUME Firm, Sound', NEW s \in Sessions, NEW x \in Things, Move(s, x), harm' = {}
  PROVE  Fair
<1> DEFINE p == Owner[s]
           a == live[p].worn[x]
           b == live[p].bags[x]
           m == [live EXCEPT ![p].worn[x] = 0]
           h == [live EXCEPT ![p].bags[x] = 0]
<1>0. /\ s \in Threads /\ p \in Players /\ Kept /\ Tasks /\ live \in [Players -> Goods]
      /\ live[p] \in Goods /\ balance \in [Players -> Nat] /\ granted \in Int
      /\ a \in Nat /\ b \in Nat /\ Firm
  BY SessionTask, GoodsFields, CountsField DEF Firm, Sound, Ledgers
<1>1. /\ task[s].at = "idle" /\ Touches(s, {p})
      /\ UNCHANGED <<online, rows, balance, granted>>
      /\ task' = [task EXCEPT ![s] =
                      [Doing("save", p) EXCEPT !.kind = "move", !.todo = <<p>>]]
      /\ \/ live' = [live EXCEPT ![p].worn[x] = 0, ![p].bags[x] = @ + a]
         \/ live' = [live EXCEPT ![p].bags[x] = 0, ![p].worn[x] = @ + b]
  BY Zenon DEF Move, Becomes
<1>2. /\ PutsOn(live, m, p, x, 0) /\ PutsCarried(live, h, p, x, 0)
  <2>1. 0 \in Nat
    OBVIOUS
  <2> QED BY <1>0, <2>1, CountPut, Zenon
<1>3. m[p].bags[x] = b /\ h[p].worn[x] = a /\ m \in [Players -> Goods] /\ h \in [Players -> Goods]
  <2> HIDE DEF m, h
  <2> QED BY <1>2 DEF PutsOn, PutsCarried
<1>4. \/ live' = [m EXCEPT ![p].bags[x] = a + b]
      \/ live' = [h EXCEPT ![p].worn[x] = a + b]
  <2>1. \/ live' = [m EXCEPT ![p].bags[x] = m[p].bags[x] + a]
        \/ live' = [h EXCEPT ![p].worn[x] = h[p].worn[x] + b]
    <3> HIDE DEF a, b
    <3> QED BY <1>0, <1>1
  <2>2. m[p].bags[x] + a = a + b /\ h[p].worn[x] + b = a + b
    <3> HIDE DEF m, h, a, b
    <3> QED BY <1>0, <1>3
  <2> HIDE DEF m, h, a, b
  <2> QED BY <2>1, <2>2
<1>5. PutsCarried(m, live', p, x, a + b) \/ PutsOn(h, live', p, x, a + b)
  <2> HIDE DEF m, h, a, b
  <2>1. a + b \in Nat
    BY <1>0
  <2>2. /\ PutsCarried(m, [m EXCEPT ![p].bags[x] = a + b], p, x, a + b)
        /\ PutsOn(h, [h EXCEPT ![p].worn[x] = a + b], p, x, a + b)
    BY <1>0, <1>3, <2>1, CountPut, Zenon
  <2> QED BY <1>4, <2>2
<1> HIDE DEF m, h
<1>6. /\ live'[p] \in Goods /\ \A q \in Players \ {p} : live'[q] = live[q]
      /\ \A y \in Things \ {x} : live'[p].worn[y] = live[p].worn[y]
                                  /\ live'[p].bags[y] = live[p].bags[y]
      /\ live'[p].worn[x] + live'[p].bags[x] = a + b
  <2>1. CASE PutsCarried(m, live', p, x, a + b)
    BY <1>0, <1>2, <2>1 DEF PutsOn, PutsCarried
  <2>2. CASE PutsOn(h, live', p, x, a + b)
    BY <1>0, <1>2, <2>2 DEF PutsOn, PutsCarried
  <2> QED BY <1>5, <2>1, <2>2
<1>7. Value(live'[p]) = Value(live[p])
  <2>1. live'[p].worn[x] + live'[p].bags[x] = live[p].worn[x] + live[p].bags[x] + 0
    BY <1>0, <1>6
  <2>2. Value(live'[p]) = Value(live[p]) + Worth(x) * 0
    <3> HIDE DEF a, b, p
    <3>1. 0 \in Int
      OBVIOUS
    <3> QED BY <1>0, <1>6, <2>1, <3>1, ValueMoves
  <2>3. Worth(x) * 0 = 0 /\ Value(live[p]) \in Int
    BY <1>0, WorthType, ValueType
  <2> QED BY <2>2, <2>3
<1>8. /\ task'[s].at = "save" /\ task'[s].kind = "move" /\ HasBags(task'[s])
      /\ Reach(task'[s]) = {<<p>>[i] : i \in DOMAIN <<p>>}
      /\ \A q : ~Settles(task'[s], q)
      /\ \A u \in Threads \ {s} : task'[u] = task[u]
  <2>1. Starts(s, "move", <<p>>)
    BY <1>0, <1>1, SavingTask, Zenon
  <2> QED BY <2>1 DEF Starts
<1>9. Reach(task'[s]) = {p}
  <2>1. {<<p>>[i] : i \in DOMAIN <<p>>} = {p}
    OBVIOUS
  <2> QED BY <1>8, <2>1
<1>10. HasBags(task[s]) /\ \A q : ~HalfDone(task[s], q)
  BY <1>1, WholeStages DEF Saving, HasBags, LoggingIn
<1>c. Changes(s, {p}) /\ \A q : Packed(q)' <=> Packed(q)
  <2>1. \A q \in Players \ {p} : ~HalfDone(task'[s], q)
    BY <1>9, HalfDoneIsHeld
  <2>2. \A q \in Players \ {p} : live'[q] = live[q] /\ rows'[q] = rows[q]
    BY <1>1, <1>6
  <2> QED BY <1>0, <1>1, <1>8, <1>10, <2>1, <2>2, ThreadChanges
<1>11. Changes(s, {p})
  BY <1>c
<1>12. Packed(p) /\ Packed(p)'
  <2>1. InWorld(task[s])
    BY <1>1 DEF InWorld
  <2> QED BY <1>8, <1>10, <2>1, OwnPacked
<1>13. Restores(s, {p})
  <2>1. Knows(task'[s], p, live'[p], rows'[p]) /\ ~InTheRows(task'[s])
    BY <1>8 DEF Knows, InTheRows, Saving, Dealing
  <2>2. HalfDone(task'[s], p)
    BY <1>8, <1>9 DEF HalfDone, Owes, Saving
  <2> QED BY <1>9, <1>12, <2>1, <2>2 DEF Restores
<1>14. Estate(p) = live[p] /\ Estate(p)' = live'[p]
  <2>1. \A q : ~Settles(task[s], q)
    BY <1>10 DEF HalfDone
  <2> QED BY <1>0, <1>8, <1>11, <1>12, <2>1, EstateAlone
<1>15. Value(Estate(p)') + balance'[p] = Value(Estate(p)) + balance[p] + 0
  <2>1. Value(live[p]) \in Int /\ balance[p] \in Nat
    BY <1>0, ValueType
  <2> QED BY <1>1, <1>7, <1>14, <2>1
<1>16. granted' = granted + 0 /\ \A q \in Players \ {p} : balance'[q] = balance[q]
  BY <1>0, <1>1
<1> QED
  BY <1>0, <1>11, <1>13, <1>15, <1>16, ValueFair

LEMMA SavingReach ==
  ASSUME Firm, NEW s \in Threads, task[s].at \in Saving
  PROVE  /\ Saved(s) \in Players /\ Saved(s) \in Reach(task[s])
         /\ Reach(task[s]) \subseteq Players
         /\ HasBags(task[s]) /\ \A q : ~Settles(task[s], q)
<1>1. task[s].todo \in Seq(Players) /\ task[s].todo # <<>> /\ Saved(s) \in Players
  BY SavedType DEF Firm, Sound, Tasks, TaskOK
<1>2. ASSUME NEW q \in Seq(Players), q # <<>> PROVE Head(q) \in {q[i] : i \in DOMAIN q}
  BY <1>2, HeadTailProperties, EmptySeq
<1>3. Saved(s) \in {task[s].todo[i] : i \in DOMAIN task[s].todo}
  BY <1>1, <1>2 DEF Saved
<1>4. HasBags(task[s]) /\ \A q : ~Settles(task[s], q)
  BY DEF Saving, HasBags, LoggingIn, Settles
<1> QED
  BY <1>1, <1>3, <1>4, ReachIs, ReachType, ThreadTask

LEMMA SaveReadFair ==
  ASSUME Firm, Sound', NEW s \in Sessions, SaveRead(s)
  PROVE  Fair
<1> DEFINE d == task[s]
<1>s. s \in Threads /\ d.at = "save" /\ d.at \in Saving
  BY SessionTask DEF SaveRead, Saving
<1>w. PICK p \in Players : p = Head(task[s].todo)
  BY <1>s, SavingReach DEF Saved
<1>0. d \in Task /\ task \in [Threads -> Task] /\ Kept
  BY <1>s, ThreadTask
<1>1. /\ UNCHANGED <<online, live, rows, balance, granted>>
      /\ task' = [task EXCEPT ![s].at = "write", ![s].goods = live[p]]
  BY <1>w DEF SaveRead, Saved
<1>2. \A u \in Threads \ {s} : task'[u] = task[u]
  BY <1>0, <1>1
<1>3. /\ task'[s].at = "write" /\ task'[s].kind = d.kind /\ task'[s].goods = live[p]
      /\ task'[s].todo = d.todo
  BY <1>s, <1>0, <1>1 DEF Task
<1>4. HasBags(d) /\ HasBags(task'[s]) /\ \A q : ~Settles(d, q) /\ ~Settles(task'[s], q)
  BY <1>s, <1>3 DEF HasBags, LoggingIn, Settles
<1>5. Reach(task'[s]) = Reach(d)
  BY <1>s, <1>3 DEF Reach, Saving
<1>6. \A q : HalfDone(task'[s], q) <=> HalfDone(d, q)
  BY <1>s, <1>3, <1>4, <1>5 DEF HalfDone, Owes, Saving
<1>7. \A q : Packed(q)' <=> Packed(q)
  BY <1>s, <1>2, <1>4, PackedSame
<1>8. Changes(s, {})
  BY <1>1, <1>2, <1>4, <1>6, <1>7 DEF Changes
<1>9. Restores(s, {})
  <2>1. ASSUME NEW q \in Reach(task'[s])
        PROVE  /\ Knows(task'[s], q, live'[q], rows'[q])
               /\ Packed(q)' /\ ~InTheRows(task'[s])
    <3>1. Knows(d, q, live[q], rows[q]) /\ (InTheWorld(d) => Packed(q))
      BY <1>s, <1>0, <1>5, <2>1 DEF Kept, CopiesMatch, TargetsStay
    <3>2. Packed(q)
      BY <1>s, <3>1 DEF InTheWorld
    <3>3. q = Head(task'[s].todo) => q = p
      BY <1>w, <1>3
    <3>4. Knows(task'[s], q, live[q], rows[q])
      BY <1>s, <1>3, <3>1, <3>3 DEF Knows, Saving, Dealing
    <3> QED BY <1>1, <1>3, <1>7, <3>2, <3>4 DEF InTheRows
  <2> QED BY <2>1 DEF Restores
<1> QED
  BY <1>s, <1>1, <1>8, <1>9, QuietFair

(* Who is left to be stored after the first. *)
Left(q) == {q[i] : i \in DOMAIN q}

LEMMA RestOfSeq ==
  ASSUME NEW q \in Seq(Players), q # <<>>
  PROVE  /\ Left(q) = {Head(q)} \cup Left(Tail(q))
         /\ Len(q) = 1 => Left(q) = {Head(q)}
<1>1. /\ Len(q) \in Nat /\ Len(q) # 0 /\ DOMAIN q = 1..Len(q) /\ Head(q) = q[1]
      /\ Tail(q) \in Seq(Players) /\ Len(Tail(q)) = Len(q) - 1
      /\ DOMAIN Tail(q) = 1..(Len(q) - 1)
      /\ \A i \in 1..(Len(q) - 1) : Tail(q)[i] = q[i + 1]
  BY HeadTailProperties, EmptySeq, LenProperties
<1>2. ASSUME NEW i \in DOMAIN q
      PROVE  q[i] \in {Head(q)} \cup {Tail(q)[j] : j \in DOMAIN Tail(q)}
  <2>1. CASE i = 1
    BY <1>1, <2>1
  <2>2. CASE i # 1
    <3>1. i - 1 \in DOMAIN Tail(q) /\ Tail(q)[i - 1] = q[i]
      BY <1>1, <1>2, <2>2
    <3> QED BY <3>1
  <2> QED BY <2>1, <2>2
<1>3. ASSUME NEW i \in DOMAIN Tail(q) PROVE Tail(q)[i] \in {q[j] : j \in DOMAIN q}
  <2>1. i + 1 \in DOMAIN q /\ Tail(q)[i] = q[i + 1]
    BY <1>1, <1>3
  <2> QED BY <2>1
<1>4. Head(q) \in {q[j] : j \in DOMAIN q}
  BY <1>1
<1>5. Len(q) = 1 => \A i \in DOMAIN q : q[i] = Head(q)
  BY <1>1
<1> QED
  BY <1>2, <1>3, <1>4, <1>5 DEF Left

LEMMA NextSaveIs ==
  ASSUME Firm, NEW s \in Threads, task[s].at \in Saving, NextSave(s),
         NEW p, p = Saved(s)
  PROVE  /\ \A u \in Threads \ {s} : task'[u] = task[u]
         /\ HasBags(task'[s]) /\ task'[s].at \in {"idle", "save"}
         /\ task'[s].at = "save" => task'[s].kind = task[s].kind
         /\ Reach(task'[s]) \subseteq Reach(task[s])
         /\ \A q : q # p /\ q \in Reach(task[s]) => q \in Reach(task'[s])
         /\ \A q : ~Settles(task'[s], q) /\ (HalfDone(task'[s], q) <=> q \in Reach(task'[s]))
         /\ \A q : HalfDone(task[s], q) <=> q \in Reach(task[s])
<1> DEFINE d == task[s]
<1>0. /\ d \in Task /\ task \in [Threads -> Task] /\ d.todo \in Seq(Players) /\ d.todo # <<>>
      /\ p = Head(d.todo) /\ Reach(d) = Left(d.todo)
  BY ThreadTask, SavedType, ReachIs DEF Firm, Sound, Tasks, TaskOK, Saved, Left
<1>1. /\ Reach(d) = {p} \cup Left(Tail(d.todo))
      /\ Len(d.todo) = 1 => Reach(d) = {p}
  <2>1. /\ Left(d.todo) = {Head(d.todo)} \cup Left(Tail(d.todo))
        /\ Len(d.todo) = 1 => Left(d.todo) = {Head(d.todo)}
    BY <1>0, RestOfSeq, Zenon
  <2> QED BY <1>0, <2>1
<1>2. \A q : HalfDone(d, q) <=> q \in Reach(d)
  BY DEF HalfDone, Owes, Settles, Saving
<1>3. CASE Len(d.todo) = 1 /\ Rests(s)
  <2>1. task'[s].at = "idle" /\ \A u \in Threads \ {s} : task'[u] = task[u]
    BY <1>0, <1>3 DEF Rests, Becomes, Doing
  <2>2. Reach(task'[s]) = {} /\ HasBags(task'[s])
    BY <2>1, ReachIs DEF HasBags, LoggingIn
  <2>3. \A q : ~Settles(task'[s], q) /\ ~HalfDone(task'[s], q)
    BY <2>1, WholeStages DEF Saving, HalfDone
  <2> QED BY <1>1, <1>2, <1>3, <2>1, <2>2, <2>3
<1>4. CASE task' = [task EXCEPT ![s].at = "save", ![s].todo = Tail(@)]
  <2> DEFINE rest == Tail(d.todo)
  <2>1. /\ task'[s].at = "save" /\ task'[s].kind = d.kind /\ task'[s].todo = rest
        /\ \A u \in Threads \ {s} : task'[u] = task[u]
    <3>1. task' = [task EXCEPT ![s].at = "save", ![s].todo = rest]
      BY <1>0, <1>4
    <3> HIDE DEF rest
    <3> QED BY <1>0, <3>1 DEF Task
  <2>2. Reach(task'[s]) = Left(rest)
    <3> HIDE DEF rest
    <3>1. Reach(task'[s]) = Left(task'[s].todo)
      BY <2>1 DEF Reach, Saving, Left
    <3> QED BY <2>1, <3>1
  <2>3. HasBags(task'[s]) /\ \A q : ~Settles(task'[s], q)
    BY <2>1 DEF HasBags, LoggingIn, Settles
  <2>4. \A q : HalfDone(task'[s], q) <=> q \in Reach(task'[s])
    BY <2>1, <2>3 DEF HalfDone, Owes, Saving
  <2>5. Reach(d) = {p} \cup Reach(task'[s])
    BY <1>1, <2>2
  <2> HIDE DEF rest
  <2> QED BY <1>2, <2>1, <2>3, <2>4, <2>5
<1> QED
  BY <1>3, <1>4, Zenon DEF NextSave

LEMMA SaveWriteFair ==
  ASSUME Firm, Sound', NEW s \in Sessions, SaveWrite(s), harm' = {}
  PROVE  Fair
<1> DEFINE d == task[s]
<1>s. s \in Threads /\ d.at = "write" /\ d.at \in Saving
  BY SessionTask DEF SaveWrite, Saving
<1>w. PICK p \in Players : p = Saved(s)
  BY <1>s, SavingReach
<1>0. /\ Kept /\ p = Head(d.todo) /\ rows \in [Players -> Goods] /\ live[p] \in Goods
      /\ rows[p] \in Goods
  BY <1>s, <1>w, ThreadTask DEF Saved
<1>1. /\ UNCHANGED <<online, live, balance, granted>> /\ Touches(s, {p}) /\ NextSave(s)
      /\ rows' = [rows EXCEPT ![p] = IF d.kind = "move" THEN d.goods
                                     ELSE [@ EXCEPT !.bags = d.goods.bags]]
  BY <1>w DEF SaveWrite
<1>2. p \in Reach(d) /\ Reach(d) \subseteq Players /\ HasBags(d) /\ \A q : ~Settles(d, q)
  BY <1>s, <1>w, SavingReach
<1>3. /\ \A u \in Threads \ {s} : task'[u] = task[u]
      /\ HasBags(task'[s]) /\ task'[s].at \in {"idle", "save"}
      /\ task'[s].at = "save" => task'[s].kind = d.kind
      /\ Reach(task'[s]) \subseteq Reach(d)
      /\ \A q : q # p /\ q \in Reach(d) => q \in Reach(task'[s])
      /\ \A q : ~Settles(task'[s], q) /\ (HalfDone(task'[s], q) <=> q \in Reach(task'[s]))
      /\ \A q : HalfDone(d, q) <=> q \in Reach(d)
  BY <1>s, <1>w, <1>1, NextSaveIs
<1>4. ASSUME NEW q \in Reach(d)
      PROVE  Knows(d, q, live[q], rows[q]) /\ Packed(q)
  BY <1>s, <1>0, <1>4 DEF Kept, CopiesMatch, TargetsStay, InTheWorld
<1>5. rows'[p] = live[p] /\ \A q \in Players \ {p} : rows'[q] = rows[q]
  <2>1. d.goods = live[p] /\ (d.kind # "move" => rows[p].worn = live[p].worn)
    BY <1>s, <1>0, <1>2, <1>4 DEF Knows
  <2>2. [rows[p] EXCEPT !.bags = live[p].bags] = [live[p] EXCEPT !.worn = rows[p].worn]
    BY <1>0 DEF Goods
  <2>3. [live[p] EXCEPT !.worn = live[p].worn] = live[p]
    BY <1>0 DEF Goods
  <2> QED BY <1>0, <1>1, <2>1, <2>2, <2>3
<1>6. \A q : Packed(q)' <=> Packed(q)
  BY <1>s, <1>2, <1>3, PackedSame
<1>7. Changes(s, {p})
  <2>1. \A u \in Threads \ {s} : Reach(task[u]) \cap {p} = {}
    BY <1>s, <1>1, TouchesAlone
  <2>2. \A q \in Players \ {p} : HalfDone(task'[s], q) <=> HalfDone(d, q)
    BY <1>3
  <2> QED BY <1>1, <1>2, <1>3, <1>5, <1>6, <2>1, <2>2 DEF Changes
<1>8. Restores(s, {p})
  <2>1. ASSUME NEW q \in Reach(task'[s])
        PROVE  /\ Knows(task'[s], q, live'[q], rows'[q])
               /\ Packed(q)' /\ ~InTheRows(task'[s])
    <3>1. Knows(d, q, live[q], rows[q]) /\ Packed(q) /\ q \in Players
      BY <1>2, <1>3, <1>4, <2>1
    <3>2. d.kind # "move" => rows'[q].worn = live[q].worn
      BY <1>s, <1>5, <3>1 DEF Knows
    <3>3. Knows(task'[s], q, live[q], rows'[q]) /\ ~InTheRows(task'[s])
      BY <1>3, <3>2 DEF Knows, InTheRows, Saving, Dealing
    <3> QED BY <1>1, <1>6, <3>1, <3>3
  <2>2. rows'[p] = live'[p]
    BY <1>1, <1>5
  <2> QED BY <2>1, <2>2 DEF Restores
<1>9. Estate(p)' = Estate(p)
  <2>1. Packed(p) /\ Packed(p)' /\ ~Settles(d, p) /\ ~Settles(task'[s], p)
    BY <1>2, <1>3, <1>4, <1>6
  <2>2. Estate(p) = live[p] /\ Estate(p)' = live'[p]
    BY <1>s, <1>7, <2>1, EstateAlone
  <2> QED BY <1>1, <2>2
<1> QED
  BY <1>s, <1>1, <1>7, <1>8, <1>9, QuietFair

LEMMA MovingFair ==
  ASSUME Firm, Sound', NEW s \in Sessions, Moving(s), harm' = {}
  PROVE  Fair
<1>1. CASE SaveLost(s)
  BY <1>1 DEF SaveLost
<1> QED
  BY <1>1, SwapFair, MoveFair, SaveReadFair, SaveWriteFair DEF Moving

----------------------------------------------------------------------------
(* All steps *)

(* What has gone wrong is not forgotten. *)
LEMMA HarmGrows ==
  ASSUME [Next]_vars
  PROVE  harm \subseteq harm'
<1>1. ASSUME NEW t, NEW S, Touches(t, S) PROVE harm \subseteq harm'
  BY <1>1 DEF Touches
<1>2. ASSUME NEW s \in Sessions, Login(s) PROVE harm \subseteq harm'
  BY <1>1, <1>2 DEF Login, ReadWorn, ReadBags, Register, Refused, Wear, Pack
<1>3. ASSUME NEW s \in Sessions, End(s) PROVE harm \subseteq harm'
  BY <1>3 DEF End
<1>4. ASSUME NEW s \in Sessions, Deal(s) PROVE harm \subseteq harm'
  BY <1>1, <1>4 DEF Deal, Begin, CopyBags, Settle, StoreDeal, StoreWorn, StoreBags, PutWorn, PutBags
<1>5. ASSUME NEW s \in Sessions, Handing(s) PROVE harm \subseteq harm'
  BY <1>1, <1>5 DEF Handing, Offer, Hand, StoreHanded
<1>6. ASSUME NEW s \in Sessions, Moving(s) PROVE harm \subseteq harm'
  <2>1. ASSUME NEW from, NEW to, NEW x, NEW todo, Swap(s, from, to, x, todo)
        PROVE  harm \subseteq harm'
    <3>1. Touches(s, {from, to})
      BY <2>1, Zenon DEF Swap
    <3> QED BY <1>1, <3>1
  <2>2. ASSUME NEW x, Move(s, x) PROVE harm \subseteq harm'
    <3>1. Touches(s, {Owner[s]})
      BY <2>2, Zenon DEF Move
    <3> QED BY <1>1, <3>1
  <2>3. CASE SaveRead(s) \/ SaveWrite(s) \/ SaveLost(s)
    BY <1>1, <2>3 DEF SaveRead, SaveWrite, SaveLost
  <2> QED BY <1>6, <2>1, <2>2, <2>3 DEF Moving
<1>7. ASSUME NEW t \in Threads, Give(t) PROVE harm \subseteq harm'
  BY <1>1, <1>7 DEF Give, LookUp, Fetch, Grant, Deliver
<1> QED
  BY <1>2, <1>3, <1>4, <1>5, <1>6, <1>7 DEF Next, GiftFails, vars

(* The bridge of the operators does nothing but give. *)
LEMMA BridgeStep ==
  ASSUME Sound, BridgeGives, [Next]_vars
  PROVE  BridgeGives'
<1>0. task \in [Threads -> Task] /\ Operator \in Threads /\ Operator \notin Sessions
  BY BankAssumption DEF Sound, Tasks, Threads
<1>1. ASSUME task'[Operator] = task[Operator] PROVE BridgeGives'
  BY <1>1 DEF BridgeGives
<1>2. ASSUME NEW t, t # Operator,
             \/ \E e : Becomes(t, e)
             \/ Rests(t)
             \/ \E at : Goto(t, at)
      PROVE  task'[Operator] = task[Operator]
  BY <1>0, <1>2 DEF Becomes, Goto, Rests
<1>s. \A s \in Sessions : s # Operator
  BY <1>0
<1>3. ASSUME NEW s \in Sessions, Login(s) PROVE task'[Operator] = task[Operator]
  <2>1. CASE ReadBags(s)
    BY <1>0, <1>s, <2>1 DEF ReadBags
  <2>2. CASE ReadWorn(s) \/ Refused(s)
    BY <1>2, <1>s, <2>2 DEF ReadWorn, Refused
  <2>3. CASE Register(s) \/ Wear(s) \/ Pack(s)
    BY <1>2, <1>s, <2>3 DEF Register, Wear, Pack
  <2> QED BY <1>3, <2>1, <2>2, <2>3 DEF Login
<1>4. ASSUME NEW s \in Sessions, End(s) PROVE task'[Operator] = task[Operator]
  BY <1>2, <1>s, <1>4 DEF End
<1>5. ASSUME NEW s \in Sessions, Deal(s) PROVE task'[Operator] = task[Operator]
  <2>1. ASSUME NEW kind, NEW x, NEW n, Begin(s, kind, x, n)
        PROVE  task'[Operator] = task[Operator]
    BY <1>2, <1>s, <2>1, Zenon DEF Begin
  <2>2. CASE CopyBags(s)
    BY <1>0, <1>s, <2>2 DEF CopyBags
  <2>3. CASE Settle(s)
    <3>1. CASE Rests(s)
      BY <1>2, <1>s, <3>1
    <3>2. CASE task' = [task EXCEPT
                   ![s].at = IF task[s].kind = "remove" THEN "storeworn" ELSE "store",
                   ![s].sum = balance[Owner[s]] + Credit(task[s])]
      BY <1>0, <1>s, <3>2
    <3> QED BY <2>3, <3>1, <3>2, Zenon DEF Settle
  <2>4. CASE StoreDeal(s) \/ StoreWorn(s) \/ StoreBags(s)
    BY <1>2, <1>s, <2>4 DEF StoreDeal, StoreWorn, StoreBags
  <2>5. CASE PutWorn(s) \/ PutBags(s)
    BY <1>2, <1>s, <2>5 DEF PutWorn, PutBags
  <2> QED BY <1>5, <2>1, <2>2, <2>3, <2>4, <2>5 DEF Deal
<1>6. ASSUME NEW s \in Sessions, Handing(s) PROVE task'[Operator] = task[Operator]
  <2>1. ASSUME NEW p, NEW kind, NEW x, NEW n, Offer(s, p, kind, x, n)
        PROVE  task'[Operator] = task[Operator]
    BY <1>2, <1>s, <2>1, Zenon DEF Offer
  <2>2. CASE Hand(s)
    <3>1. \/ Goto(s, "storehanded")
          \/ task' = [task EXCEPT ![s].at = "save", ![s].todo = <<task[s].who>>]
      BY <2>2, Zenon DEF Hand
    <3>2. CASE Goto(s, "storehanded")
      BY <1>2, <1>s, <3>2
    <3>3. CASE task' = [task EXCEPT ![s].at = "save", ![s].todo = <<task[s].who>>]
      BY <1>0, <1>s, <3>3
    <3> QED BY <3>1, <3>2, <3>3
  <2>3. CASE StoreHanded(s)
    BY <1>2, <1>s, <2>3 DEF StoreHanded
  <2> QED BY <1>6, <2>1, <2>2, <2>3 DEF Handing
<1>7. ASSUME NEW s \in Sessions, Moving(s) PROVE task'[Operator] = task[Operator]
  <2>1. ASSUME NEW from, NEW to, NEW x, NEW todo, Swap(s, from, to, x, todo)
        PROVE  task'[Operator] = task[Operator]
    <3>1. \E e : Becomes(s, e)
      BY <2>1, Zenon DEF Swap
    <3> QED BY <1>2, <1>s, <3>1
  <2>2. ASSUME NEW x, Move(s, x) PROVE task'[Operator] = task[Operator]
    <3>1. \E e : Becomes(s, e)
      BY <2>2, Zenon DEF Move
    <3> QED BY <1>2, <1>s, <3>1
  <2>3. CASE SaveRead(s)
    BY <1>0, <1>s, <2>3 DEF SaveRead
  <2>4. CASE SaveWrite(s) \/ SaveLost(s)
    <3>1. NextSave(s)
      BY <2>4, Zenon DEF SaveWrite, SaveLost
    <3>2. CASE Rests(s)
      BY <1>2, <1>s, <3>2
    <3>3. CASE task' = [task EXCEPT ![s].at = "save", ![s].todo = Tail(@)]
      BY <1>0, <1>s, <3>3
    <3> QED BY <3>1, <3>2, <3>3, Zenon DEF NextSave
  <2> QED BY <1>7, <2>1, <2>2, <2>3, <2>4 DEF Moving
<1>8. ASSUME NEW t \in Threads, Give(t) PROVE BridgeGives'
  <2>1. ASSUME NEW p, NEW x, NEW n, LookUp(t, p, x, n) PROVE BridgeGives'
    BY <1>0, <2>1 DEF LookUp, Becomes, Doing, BridgeGives
  <2>2. CASE Fetch(t)
    <3>1. \/ Rests(t)
          \/ \E bags : task' = [task EXCEPT ![t].at = "grant", ![t].goods.bags = bags]
      BY <2>2 DEF Fetch
    <3>2. CASE Rests(t)
      BY <1>0, <3>2 DEF Rests, Becomes, Doing, BridgeGives
    <3>3. ASSUME NEW bags, task' = [task EXCEPT ![t].at = "grant", ![t].goods.bags = bags]
          PROVE  BridgeGives'
      BY <1>0, <3>3 DEF BridgeGives, Task
    <3> QED BY <3>1, <3>2, <3>3
  <2>3. CASE Grant(t) \/ Deliver(t)
    <3>1. Goto(t, "deliver") \/ Rests(t)
      BY <2>3, Zenon DEF Grant, Deliver
    <3> QED BY <1>0, <3>1 DEF Goto, Rests, Becomes, Doing, BridgeGives, Task
  <2> QED BY <1>8, <2>1, <2>2, <2>3 DEF Give
<1>9. CASE GiftFails
  BY <1>0, <1>9 DEF GiftFails, Rests, Becomes, Doing, BridgeGives
<1>10. CASE UNCHANGED vars
  BY <1>10 DEF vars, BridgeGives
<1> QED
  BY <1>1, <1>3, <1>4, <1>5, <1>6, <1>7, <1>8, <1>9, <1>10 DEF Next

LEMMA StepFair ==
  ASSUME Firm, Sound', Next, harm' = {}
  PROVE  Fair
BY LoginFair, EndFair, DealFair, HandingFair, MovingFair, GiveFair, GiftFailsFair DEF Next

----------------------------------------------------------------------------
(* The first state *)

Firsts == [p \in Players |-> Value(Stock[p]) + Savings[p]]

LEMMA FirstWealthIsSum ==
  Firsts \in [Players -> Int] /\ FirstWealth = SumOver(Firsts, Players)
<1> DEFINE P(it) == it = [s \in SUBSET Players |->
                             IF s = {} THEN 0
                             ELSE LET p == CHOOSE p \in s : TRUE
                                  IN  Value(Stock[p]) + Savings[p] + it[s \ {p}]]
<1>1. Firsts \in [Players -> Int]
  BY ValueType, BankAssumption DEF Firsts
<1>2. \A it : Sums(Firsts, Players, it) <=> P(it)
  <2> SUFFICES ASSUME NEW it PROVE Sums(Firsts, Players, it) <=> P(it)
    OBVIOUS
  <2>1. ASSUME NEW s \in SUBSET Players
        PROVE  (IF s = {} THEN 0 ELSE Firsts[Pick(s)] + it[s \ {Pick(s)}])
                  = IF s = {} THEN 0
                    ELSE LET p == CHOOSE p \in s : TRUE
                         IN  Value(Stock[p]) + Savings[p] + it[s \ {p}]
    <3>1. s # {} => Pick(s) \in Players
      BY PickType
    <3>2. s # {} => Firsts[Pick(s)] = Value(Stock[Pick(s)]) + Savings[Pick(s)]
      BY <3>1 DEF Firsts
    <3> QED BY <3>2 DEF Pick
  <2> QED BY <2>1 DEF Sums
<1>3. FirstWealth = (CHOOSE it : P(it))[Players]
  BY DEF FirstWealth, MapThenSumSet, MapThenFoldSet
<1> HIDE DEF P
<1>4. PICK it : Sums(Firsts, Players, it)
  BY <1>1, SumsExist, BankAssumption
<1>5. P(CHOOSE jt : P(jt))
  BY <1>2, <1>4, Zenon
<1>6. Sums(Firsts, Players, CHOOSE jt : P(jt))
  BY <1>2, <1>5
<1>7. SumOver(Firsts, Players) = (CHOOSE jt : P(jt))[Players]
  BY <1>1, <1>6, SumOverIs, BankAssumption
<1> QED
  BY <1>1, <1>3, <1>7

LEMMA InitFair ==
  ASSUME Init
  PROVE  BridgeGives /\ Kept /\ Wealth = FirstWealth + granted
<1>0. Sound /\ Tasks /\ Ledgers
  BY InitSound DEF Sound
<1>1. /\ \A s \in Sessions : task[s].at = "off"
      /\ task[Operator].at = "idle"
  BY BankAssumption DEF Init, Threads, Doing
<1>2. ASSUME NEW t \in Threads
      PROVE  Reach(task[t]) = {} /\ \A q : ~HalfDone(task[t], q) /\ ~Settles(task[t], q)
  <2>1. task[t].at \in {"off", "idle"}
    BY <1>1, <1>2 DEF Threads
  <2>2. Reach(task[t]) = {}
    BY <2>1, ReachIs
  <2> QED BY <2>2, HalfDoneIsHeld DEF HalfDone
<1>3. \A p : ~Packed(p)
  BY <1>1 DEF Packed
<1>4. Kept
  BY <1>2, <1>3 DEF Kept, CopiesMatch, TargetsStay, OneAtATime, OthersStored
<1>5. BridgeGives
  BY <1>1 DEF BridgeGives
<1>6. ASSUME NEW p \in Players
      PROVE  Belongings(p) = Stock[p] /\ Belongings(p) \in Goods /\ balance[p] = Savings[p]
  <2>1. Belongings(p) = Estate(p) /\ Estate(p) \in Goods
    BY <1>0, <1>4, BelongingsAreEstate
  <2>2. Estate(p) = rows[p]
    BY <1>3 DEF Estate
  <2> QED BY <2>1, <2>2 DEF Init
<1>7. Estates \in [Players -> Int] /\ Wealth = SumOver(Estates, Players)
  <2>1. Countable
    BY <1>0, <1>6 DEF Countable, Ledgers
  <2> QED BY <2>1, WealthIsSum DEF Counted
<1>8. Estates = Firsts
  BY <1>6 DEF Estates, Firsts
<1>9. FirstWealth \in Int /\ Wealth = FirstWealth /\ granted = 0
  BY <1>7, <1>8, FirstWealthIsSum, SumOverType, BankAssumption DEF Init
<1> QED
  BY <1>4, <1>5, <1>9

LEMMA StutterFair ==
  ASSUME Firm, Sound', UNCHANGED vars
  PROVE  Fair
<1>0. Operator \in Threads /\ Operator \notin Sessions /\ Kept
  BY BankAssumption DEF Threads, Firm
<1>1. UNCHANGED <<online, live, rows, balance, task, granted>>
  BY DEF vars
<1>2. \A q : Packed(q)' <=> Packed(q)
  BY <1>0, <1>1, PackedSame
<1>3. Changes(Operator, {})
  BY <1>1, <1>2 DEF Changes
<1>4. Restores(Operator, {})
  BY <1>0, <1>1, <1>2 DEF Restores, Kept, CopiesMatch, TargetsStay
<1> QED
  BY <1>0, <1>1, <1>3, <1>4, QuietFair

WealthIsNumber == Wealth \in Int

LEMMA WealthType == Kept /\ Tasks /\ Ledgers => WealthIsNumber
<1> SUFFICES ASSUME Kept, Tasks, Ledgers PROVE Wealth \in Int
  BY DEF WealthIsNumber
<1>1. Countable
  BY BelongingsAreEstate DEF Countable, Ledgers
<1> QED
  BY <1>1, WealthIsSum, SumOverType, BankAssumption DEF Counted

LEMMA WealthTypeNext == Kept' /\ Tasks' /\ Ledgers' => WealthIsNumber'
BY WealthType, PTL

(* As long as no harm was done every copy matches and everything adds up. *)
AddsUp == Kept /\ Wealth = FirstWealth + granted
WealthInv == Sound /\ Balanced /\ BridgeGives /\ (harm = {} => AddsUp)

LEMMA InitWealth == Init => WealthInv
BY InitSound, InitBalanced, InitFair DEF WealthInv, AddsUp

LEMMA StepWealth == WealthInv /\ [Next]_vars => WealthInv'
<1> SUFFICES ASSUME WealthInv, [Next]_vars PROVE WealthInv'
  OBVIOUS
<1>1. Sound' /\ Balanced' /\ BridgeGives'
  BY StepSound, StepBalanced, BridgeStep DEF WealthInv
<1>2. ASSUME harm' = {} PROVE AddsUp'
  <2>1. Firm /\ Wealth = FirstWealth + granted
    BY <1>2, HarmGrows DEF WealthInv, AddsUp, Firm
  <2>2. Fair
    BY <1>1, <1>2, <2>1, StepFair, StutterFair
  <2>3. Wealth \in Int /\ Wealth' \in Int /\ granted \in Int /\ granted' \in Int
        /\ FirstWealth \in Int
    BY <1>1, <2>1, <2>2, WealthTypeNext, FirstWealthIsSum, SumOverType, BankAssumption
       DEF Fair, Firm, Sound, Ledgers, WealthIsNumber
  <2>4. Wealth' = FirstWealth + granted'
    <3>1. Wealth' - granted' = Wealth - granted
      BY <2>2 DEF Fair
    <3>2. Wealth - granted = FirstWealth
      BY <2>1, <2>3
    <3>3. Wealth' = (Wealth' - granted') + granted'
      <4>1. \A a, b \in Int : a = (a - b) + b
        OBVIOUS
      <4>2. Wealth' \in Int /\ granted' \in Int
        BY <2>3
      <4> QED BY <4>1, <4>2, Zenon
    <3> QED BY <3>1, <3>2, <3>3
  <2> QED
    BY <2>2, <2>4 DEF Fair, AddsUp
<1> QED
  BY <1>1, <1>2 DEF WealthInv

(* Gold and goods are neither made nor lost, whatever deals, gifts, rewards,   *)
(* trades, moves, logins and logouts are under way and wherever they stop, as  *)
(* long as nobody worked on goods another thread had a copy of and no save     *)
(* failed.  What a session has copied before it locks again is then what the   *)
(* player still has (CopiesMatch), at most one thread has written one side of  *)
(* a player's goods and not the other (OneAtATime), and whoever is handed      *)
(* something in the world stays until it is stored (TargetsStay).              *)
THEOREM WealthStaysKept == Spec => []WealthIsKept
<1>1. WealthInv => WealthIsKept
  BY DEF WealthInv, AddsUp, WealthIsKept
<1> QED
  BY <1>1, InitWealth, StepWealth, PTL DEF Spec

(* Under the same premise the server may stop at any moment: the rows of a     *)
(* player nobody is at work on are what the world has, since every path that   *)
(* changes one side has the other still ahead of it (OthersStored).            *)
THEOREM RowsAlwaysKeepUp == Spec => []RowsKeepUp
<1>1. WealthInv => RowsKeepUp
  <2> SUFFICES ASSUME WealthInv, harm = {}, NEW p \in Players,
                      Packed(p), \A t \in Threads : p \notin Holds(t)
               PROVE  rows[p] = live[p]
    BY DEF RowsKeepUp
  <2>1. \A t \in Threads : ~HalfDone(task[t], p)
    BY HoldsIsReach, HalfDoneIsHeld
  <2> QED
    BY <2>1 DEF WealthInv, AddsUp, Kept, OthersStored
<1> QED
  BY <1>1, InitWealth, StepWealth, PTL DEF Spec

=============================================================================
