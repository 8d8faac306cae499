---------------------------- MODULE Trade_proofs ----------------------------
(***************************************************************************)
(* Proofs about Trade for every set of players, items and containers.      *)
(*                                                                         *)
(* First the acceptances: TradeInv says that the trades are well typed and *)
(* that the request a thread is in the middle of carries a reference and a *)
(* player.  Then the goods: remove_offered, deliver and the restores are   *)
(* folds over sequences, so each is brought to the states it goes through, *)
(* and what it has done after k steps is proved for the least k that would *)
(* break it.  Tally counts the goods on their way, Count the copies of an  *)
(* item in the containers; a swap keeps their sum.  TypeInv adds that what *)
(* threads carry fits into the containers they will put it in.             *)
(***************************************************************************)
EXTENDS Trade, FiniteSetTheorems, SequenceTheorems, TLAPS

Asking == [at : {"probe", "open", "stage"}, with : Players, ref : Reference]

TasksWellFormed ==
    /\ task = [p \in Players |-> task[p]]
    /\ \A p \in Players :
          /\ task[p].at \in {"probe", "open", "stage"} => task[p] \in Asking
          /\ At(p, "login") => task[p] = [at |-> "login", read |-> task[p].read]

TradesWellTyped ==
    /\ Initiators \subseteq Players
    /\ \A i \in Initiators : trades[i] \in TradeSession

TradeInv == TasksWellFormed /\ TradesWellTyped /\ AcceptanceOfCurrentOffer

----------------------------------------------------------------------------
(* The trade a player takes part in is found, and it is the player's own or *)
(* one whose counterparty the player is.                                    *)
LEMMA KeyOfTrade ==
    ASSUME TradesWellTyped, NEW p \in Players, InTrade(p)
    PROVE  /\ KeyOf(p) \in Initiators
           /\ p \notin Initiators => /\ KeyOf(p) # p
                                     /\ trades[KeyOf(p)].counterparty = p
           /\ p \in Initiators => KeyOf(p) = p
<1>1. CASE p \in Initiators
  BY <1>1 DEF KeyOf
<1>2. CASE p \notin Initiators
  <2> DEFINE R == OpToRel(<, Nat)
             S == TradesWith(p)
  <2>1. S \subseteq Nat /\ S # {}
    BY <1>2, TradeAssumption DEF TradesWellTyped, TradesWith, InTrade
  <2>2. IsWellFoundedOn(R, Nat)
    BY NatLessThanWellFounded
  <2>3. \A x, y \in Nat : <<x, y>> \in R <=> x < y
    BY DEF OpToRel
  <2> HIDE DEF R, S
  <2>4. PICK least \in S : \A q \in S : <<q, least>> \notin R
    BY <2>1, <2>2, WFMin
  <2>5. ASSUME NEW q \in S
        PROVE  least <= q
    <3>1. q \in Nat /\ least \in Nat
      BY <2>1
    <3>2. ~ (q < least)
      BY <2>3, <2>4, <3>1
    <3>3. QED
      BY <3>1, <3>2
  <2>6. KeyOf(p) = CHOOSE i \in S : \A j \in S : i <= j
    BY <1>2 DEF KeyOf, S
  <2>7. KeyOf(p) \in S
    BY <2>4, <2>5, <2>6
  <2>8. QED
    BY <1>2, <2>7 DEF S, TradesWith
<1>3. QED
  BY <1>1, <1>2

(* Closing trades leaves the others as they are. *)
LEMMA ClosingTrades ==
    ASSUME TradesWellTyped, AcceptanceOfCurrentOffer, NEW S,
           trades' = Without(trades, S)
    PROVE  TradesWellTyped' /\ AcceptanceOfCurrentOffer'
<1>1. Initiators' = Initiators \ S
  BY DEF Initiators, Without
<1>2. \A i \in Initiators' : i \in Initiators /\ trades'[i] = trades[i]
  BY <1>1 DEF Initiators, Without
<1>3. QED
  BY <1>1, <1>2 DEF TradesWellTyped, AcceptanceOfCurrentOffer

(* One trade is replaced: what has to be shown of the new one alone. *)
LEMMA OneTradeChanges ==
    ASSUME TradesWellTyped, AcceptanceOfCurrentOffer,
           NEW k \in Initiators, NEW t \in TradeSession,
           trades' = [trades EXCEPT ![k] = t],
           t.initiatorAccepted => t.initiatorSaw = t.counterpartyItems,
           t.counterpartyAccepted => t.counterpartySaw = t.initiatorItems
    PROVE  TradesWellTyped' /\ AcceptanceOfCurrentOffer'
<1>1. Initiators' = Initiators
  BY DEF Initiators
<1>2. \A i \in Initiators : trades'[i] = IF i = k THEN t ELSE trades[i]
  BY DEF Initiators
<1>3. QED
  BY <1>1, <1>2 DEF TradesWellTyped, AcceptanceOfCurrentOffer

(* The thread of one player moves on to a task that is no request and no *)
(* login.                                                                *)
LEMMA ThreadContinues ==
    ASSUME TasksWellFormed, NEW p \in Players, NEW next,
           Continue(p, next),
           next.at \notin {"probe", "open", "stage", "login"}
    PROVE  TasksWellFormed'
  BY DEF TasksWellFormed, Continue, At

(* The thread of one player moves on with its request. *)
LEMMA ThreadAsks ==
    ASSUME TasksWellFormed, NEW p \in Players, NEW next \in Asking,
           Continue(p, next)
    PROVE  TasksWellFormed'
  BY DEF TasksWellFormed, Continue, At, Asking

(* Trades that do not change stay well typed and keep their acceptances. *)
LEMMA TradesUnchanged ==
    ASSUME TradesWellTyped, AcceptanceOfCurrentOffer, trades' = trades
    PROVE  TradesWellTyped' /\ AcceptanceOfCurrentOffer'
  BY DEF TradesWellTyped, AcceptanceOfCurrentOffer, Initiators

----------------------------------------------------------------------------
(* Nobody trades at first. *)
LEMMA InitTradeInv == Init => TradeInv
  BY DEF Init, TradeInv, TasksWellFormed, TradesWellTyped, Initiators,
         AcceptanceOfCurrentOffer, Idle, At

(* What RequestResolve picks is a reference. *)
LEMMA ReferencesAreReferences ==
    ASSUME NEW p, NEW r \in References(p)
    PROVE  r \in Reference
<1>1. \A c \in ContainerIds : Capacity[c] \in Nat \ {0}
  BY TradeAssumption
<1>2. Indices \subseteq Nat \ {0}
  BY <1>1 DEF Indices
<1>3. QED
  BY <1>2 DEF References, Reference

(* A request that is resolved and probed only moves its thread. *)
LEMMA ResolveAndProbeInv ==
    ASSUME TradeInv, NEW p \in Players,
           \/ \E q \in Players, r \in References(p) : RequestResolve(p, q, r)
           \/ RequestProbe(p)
    PROVE  TradeInv'
<1>1. trades' = trades
  BY DEF RequestResolve, RequestProbe
<1>2. TradesWellTyped' /\ AcceptanceOfCurrentOffer'
  BY <1>1, TradesUnchanged DEF TradeInv
<1>3. TasksWellFormed'
  <2>1. CASE \E q \in Players, r \in References(p) : RequestResolve(p, q, r)
    <3>1. PICK q \in Players, r \in References(p) : RequestResolve(p, q, r)
      BY <2>1
    <3> DEFINE next == [at |-> "probe", with |-> q, ref |-> r]
    <3>2. next \in Asking
      BY ReferencesAreReferences DEF Asking
    <3>3. Continue(p, next)
      BY <3>1 DEF RequestResolve
    <3>4. QED
      BY <3>2, <3>3, ThreadAsks DEF TradeInv
  <2>2. CASE RequestProbe(p)
    <3>1. task[p] \in Asking
      BY <2>2 DEF RequestProbe, At, TradeInv, TasksWellFormed
    <3>2. PICK next \in {[task[p] EXCEPT !.at = "open"],
                         [task[p] EXCEPT !.at = "stage"], Idle} :
             Continue(p, next)
      BY <2>2 DEF RequestProbe
    <3>3. CASE next = Idle
      BY <3>2, <3>3, ThreadContinues DEF TradeInv, Idle
    <3>4. CASE next # Idle
      <4>1. next \in Asking
        BY <3>1, <3>4 DEF Asking
      <4>2. QED
        BY <3>2, <4>1, ThreadAsks DEF TradeInv
    <3>5. QED
      BY <3>3, <3>4
  <2>3. QED
    BY <2>1, <2>2
<1>4. QED
  BY <1>2, <1>3 DEF TradeInv

(* A trade is opened with nothing offered and nothing accepted. *)
LEMMA OpenInv ==
    ASSUME TradeInv, NEW p \in Players, RequestOpen(p)
    PROVE  TradeInv'
<1> DEFINE q == task[p].with
           t == NewTrade(q)
<1>1. task[p] \in Asking
  BY DEF RequestOpen, At, TradeInv, TasksWellFormed
<1>2. q \in Players
  BY <1>1 DEF Asking
<1>3. t \in TradeSession /\ ~t.initiatorAccepted /\ ~t.counterpartyAccepted
  BY <1>2 DEF NewTrade, TradeSession
<1>4. /\ Initiators' = Initiators \cup {p}
      /\ trades'[p] = t
      /\ \A i \in Initiators : trades'[i] = trades[i]
  <2>1. trades' = With(trades, p, t) /\ p \notin Initiators
    BY DEF RequestOpen
  <2>2. QED
    BY <2>1 DEF Initiators, With
<1> HIDE DEF q, t
<1>5. TradesWellTyped' /\ AcceptanceOfCurrentOffer'
  BY <1>3, <1>4 DEF TradeInv, TradesWellTyped, AcceptanceOfCurrentOffer
<1>6. TasksWellFormed'
  <2> DEFINE next == [task[p] EXCEPT !.at = "stage"]
  <2>1. next \in Asking
    BY <1>1 DEF Asking
  <2>2. Continue(p, next)
    BY DEF RequestOpen
  <2>3. QED
    BY <2>1, <2>2, ThreadAsks DEF TradeInv
<1>7. QED
  BY <1>5, <1>6 DEF TradeInv

(* A new item in an offer takes back every acceptance of that offer: the   *)
(* other side's in either case, and the initiator's own also when it is    *)
(* the counterparty that stages.                                           *)
LEMMA StageInv ==
    ASSUME TradeInv, NEW p \in Players, RequestStage(p)
    PROVE  TradeInv'
<1> DEFINE r == task[p].ref
           k == KeyOf(p)
           mine == Append(trades[k].initiatorItems, r)
           theirs == Append(trades[k].counterpartyItems, r)
           t == IF p \in Initiators
                THEN [trades[k] EXCEPT !.initiatorItems = mine,
                                       !.initiatorAccepted = FALSE,
                                       !.counterpartyAccepted = FALSE]
                ELSE [trades[k] EXCEPT !.counterpartyItems = theirs,
                                       !.initiatorAccepted = FALSE]
<1>1. r \in Reference
  BY DEF RequestStage, At, TradeInv, TasksWellFormed, Asking
<1>2. k \in Initiators /\ (p \in Initiators => k = p)
  BY KeyOfTrade DEF RequestStage, TradeInv
<1>3. trades[k] \in TradeSession
  BY <1>2 DEF TradeInv, TradesWellTyped
<1>4. mine \in Seq(Reference) /\ theirs \in Seq(Reference)
  BY <1>1, <1>3, AppendProperties DEF TradeSession
<1>5. trades' = [trades EXCEPT ![k] = t]
  BY <1>2 DEF RequestStage, Staged
<1> HIDE DEF r, mine, theirs
<1>6. t \in TradeSession
  BY <1>3, <1>4 DEF TradeSession
<1>7. /\ t.initiatorAccepted => t.initiatorSaw = t.counterpartyItems
      /\ t.counterpartyAccepted => t.counterpartySaw = t.initiatorItems
  BY <1>2, <1>3 DEF TradeInv, AcceptanceOfCurrentOffer, TradeSession
<1> HIDE DEF k, t
<1>8. TradesWellTyped' /\ AcceptanceOfCurrentOffer'
  BY <1>2, <1>5, <1>6, <1>7, OneTradeChanges DEF TradeInv
<1>9. TasksWellFormed'
  <2>1. Continue(p, Windows(FALSE))
    BY DEF RequestStage
  <2>2. QED
    BY <2>1, ThreadContinues DEF TradeInv, Windows
<1>10. QED
  BY <1>8, <1>9 DEF TradeInv

(* Who accepts sees the other offer as it stands at that moment. *)
LEMMA AcceptInv ==
    ASSUME TradeInv, NEW p \in Players, Accept(p)
    PROVE  TradeInv'
<1> DEFINE k == KeyOf(p)
           t == trades[k]
           u == IF k = p
                THEN [t EXCEPT !.initiatorAccepted = TRUE,
                               !.initiatorSaw = t.counterpartyItems]
                ELSE [t EXCEPT !.counterpartyAccepted = TRUE,
                               !.counterpartySaw = t.initiatorItems]
           next == Windows(u.initiatorAccepted /\ u.counterpartyAccepted)
<1>1. k \in Initiators
  BY KeyOfTrade DEF Accept, TradeInv
<1>2. t \in TradeSession
  BY <1>1 DEF TradeInv, TradesWellTyped
<1>3. trades' = [trades EXCEPT ![k] = u] /\ Continue(p, next)
  BY DEF Accept
<1>4. TasksWellFormed'
  BY <1>3, ThreadContinues DEF TradeInv, Windows
<1>5. u \in TradeSession
  BY <1>2 DEF TradeSession
<1>6. /\ u.initiatorAccepted => u.initiatorSaw = u.counterpartyItems
      /\ u.counterpartyAccepted => u.counterpartySaw = u.initiatorItems
  BY <1>1, <1>2 DEF TradeInv, AcceptanceOfCurrentOffer, TradeSession
<1> HIDE DEF u
<1>7. TradesWellTyped' /\ AcceptanceOfCurrentOffer'
  BY <1>1, <1>3, <1>5, <1>6, OneTradeChanges DEF TradeInv
<1>8. QED
  BY <1>4, <1>7 DEF TradeInv

(* An execution or a rejection closes trades and leaves the others alone. *)
LEMMA CloseInv ==
    ASSUME TradeInv, NEW p \in Players, Execute(p) \/ Reject(p)
    PROVE  TradeInv'
<1>1. PICK S : trades' = Without(trades, S)
  BY DEF Execute, Reject
<1>2. TradesWellTyped' /\ AcceptanceOfCurrentOffer'
  BY <1>1, ClosingTrades DEF TradeInv
<1>3. CASE Execute(p)
  <2>1. PICK next : Continue(p, next) /\ next.at = "save"
    BY <1>3 DEF Execute
  <2>2. QED
    BY <1>2, <2>1, ThreadContinues DEF TradeInv
<1>4. CASE Reject(p)
  BY <1>2, <1>4 DEF Reject, TradeInv, TasksWellFormed, At
<1>5. QED
  BY <1>3, <1>4

(* Windows, own moves, saves and a failed swap touch no trade and ask for *)
(* none.                                                                  *)
LEMMA WindowsMovesAndSavesInv ==
    ASSUME TradeInv, NEW p \in Players,
           \/ ShowWindows(p) \/ ExecuteFails(p) \/ CloseWindow(p)
           \/ \E r \in References(p), c \in ContainerIds : MoveOwn(p, r, c)
           \/ SaveRead(p) \/ SaveWrite(p) \/ SaveDone(p)
    PROVE  TradeInv'
<1>1. trades' = trades
  BY DEF ShowWindows, ExecuteFails, CloseWindow, MoveOwn, SaveRead, SaveWrite,
         SaveDone
<1>2. TradesWellTyped' /\ AcceptanceOfCurrentOffer'
  BY <1>1, TradesUnchanged DEF TradeInv
<1>3. TasksWellFormed'
  <2>1. CASE CloseWindow(p)
    BY <2>1 DEF CloseWindow, TradeInv, TasksWellFormed, At
  <2>2. CASE ShowWindows(p)
    <3>1. PICK next \in {[at |-> "execute"], Idle} : Continue(p, next)
      BY <2>2 DEF ShowWindows
    <3>2. next.at \in {"execute", "idle"}
      BY <3>1 DEF Idle
    <3>3. QED
      BY <3>1, <3>2, ThreadContinues DEF TradeInv
  <2>3. CASE ExecuteFails(p)
    <3>1. Continue(p, [at |-> "failed"])
      BY <2>3 DEF ExecuteFails
    <3>2. QED
      BY <3>1, ThreadContinues DEF TradeInv
  <2>4. CASE \E r \in References(p), c \in ContainerIds : MoveOwn(p, r, c)
    <3>1. Continue(p, [at |-> "save", queue |-> <<p>>, signal |-> {}])
      BY <2>4 DEF MoveOwn
    <3>2. QED
      BY <3>1, ThreadContinues DEF TradeInv
  <2>5. CASE SaveRead(p) \/ SaveWrite(p)
    <3>1. PICK next : Continue(p, next) /\ next.at \in {"save", "write"}
      BY <2>5 DEF SaveRead, SaveWrite
    <3>2. QED
      BY <3>1, ThreadContinues DEF TradeInv
  <2>6. CASE SaveDone(p)
    BY <2>6, ThreadContinues DEF SaveDone, Idle, TradeInv
  <2>7. QED
    BY <2>1, <2>2, <2>3, <2>4, <2>5, <2>6
<1>4. QED
  BY <1>2, <1>3 DEF TradeInv

(* Sessions come and go; the trades of a player that left stay as they were. *)
LEMMA SessionInv ==
    ASSUME TradeInv, NEW p \in Players, SessionStep(p)
    PROVE  TradeInv'
<1>1. trades' = trades
  BY DEF SessionStep, SessionEnds, LoginRead, LoginRegister, LoginHydrate
<1>2. TradesWellTyped' /\ AcceptanceOfCurrentOffer'
  BY <1>1, TradesUnchanged DEF TradeInv
<1>3. TasksWellFormed'
  <2>1. CASE SessionEnds(p) \/ LoginHydrate(p)
    BY <2>1, ThreadContinues DEF SessionEnds, LoginHydrate, Idle, TradeInv
  <2>2. CASE LoginRead(p)
    BY <2>2 DEF LoginRead, Continue, TradeInv, TasksWellFormed, At
  <2>3. CASE LoginRegister(p)
    <3> DEFINE next == [task[p] EXCEPT !.at = "hydrate"]
    <3>1. Continue(p, next) /\ task[p] = [at |-> "login", read |-> task[p].read]
      BY <2>3 DEF LoginRegister, TradeInv, TasksWellFormed
    <3>2. next.at = "hydrate"
      BY <3>1
    <3> HIDE DEF next
    <3>3. QED
      BY <3>1, <3>2, ThreadContinues DEF TradeInv
  <2>4. QED
    BY <2>1, <2>2, <2>3 DEF SessionStep
<1>4. QED
  BY <1>2, <1>3 DEF TradeInv

(* Every step of a session thread keeps the invariant. *)
LEMMA NextTradeInv == TradeInv /\ [Next]_vars => TradeInv'
<1> SUFFICES ASSUME TradeInv, [Next]_vars
             PROVE  TradeInv'
  OBVIOUS
<1>1. CASE Next
  <2>1. PICK p \in Players :
           RequestStep(p) \/ AcceptStep(p) \/ OwnStep(p) \/ SessionStep(p)
    BY <1>1 DEF Next
  <2>2. CASE RequestStep(p)
    BY <2>2, ResolveAndProbeInv, OpenInv, StageInv DEF RequestStep
  <2>3. CASE AcceptStep(p)
    BY <2>3, AcceptInv, CloseInv, WindowsMovesAndSavesInv DEF AcceptStep
  <2>4. CASE OwnStep(p)
    BY <2>4, CloseInv, WindowsMovesAndSavesInv DEF OwnStep
  <2>5. CASE SessionStep(p)
    BY <2>5, SessionInv
  <2>6. QED
    BY <2>1, <2>2, <2>3, <2>4, <2>5
<1>2. CASE UNCHANGED vars
  <2>1. trades' = trades /\ task' = task
    BY <1>2 DEF vars
  <2>2. QED
    BY <2>1, TradesUnchanged DEF TradeInv, TasksWellFormed, At
<1>3. QED
  BY <1>1, <1>2

(* The inductive invariant holds in every reachable state. *)
THEOREM TradeInvariant == Spec => []TradeInv
  BY InitTradeInv, NextTradeInv, PTL DEF Spec

(* However stage_trade_item, accept_player_trade, cancellations and new     *)
(* trades of any number of players interleave, an acceptance that counts in *)
(* execute_player_trade was given to the other side's offer as it stands.   *)
THEOREM AcceptancesStayCurrent == Spec => []AcceptanceOfCurrentOffer
<1>1. TradeInv => AcceptanceOfCurrentOffer
  BY DEF TradeInv
<1>2. QED
  BY <1>1, TradeInvariant, PTL

----------------------------------------------------------------------------
(* Folds: the states FoldLeft and FoldRight go through *)

LEMMA SmallestSet ==
  ASSUME NEW S, IsFiniteSet(S), NEW Bad, Bad \subseteq SUBSET S, Bad # {}
  PROVE  \E s \in Bad : \A t \in Bad : t \subseteq s => t = s
<1> DEFINE R == StrictSubsetOrdering(S)
<1>1. IsWellFoundedOn(R, SUBSET S)
  BY FS_StrictSubsetOrderingWellFounded, FS_FiniteSubsetsOfFinite
<1>2. \A s, t \in SUBSET S : <<t, s>> \in R <=> t \subseteq s /\ t # s
  BY DEF StrictSubsetOrdering
<1> HIDE DEF R
<1>3. \E s \in Bad : \A t \in Bad : ~ (<<t, s>> \in R)
  BY <1>1, WFMin
<1> QED
  BY <1>2, <1>3

LEMMA LeastNumber ==
  ASSUME NEW S \in SUBSET Nat, S # {}
  PROVE  \E least \in S : \A j \in S : least <= j
<1> DEFINE R == OpToRel(<, Nat)
<1>1. IsWellFoundedOn(R, Nat)
  BY NatLessThanWellFounded
<1>2. \A x, y \in Nat : <<x, y>> \in R <=> x < y
  BY DEF OpToRel
<1> HIDE DEF R
<1>3. PICK least \in S : \A j \in S : <<j, least>> \notin R
  BY <1>1, WFMin
<1>4. ASSUME NEW j \in S PROVE least <= j
  <2>1. ~ (j < least) /\ j \in Nat /\ least \in Nat
    BY <1>2, <1>3, <1>4
  <2> QED BY <2>1
<1> QED
  BY <1>4

Picks(pick, S) == \A s \in SUBSET S : s # {} => pick[s] \in s

(* it is the fold of step over every subset of S. *)
Chain(step, base, pick, S, it) ==
    it = [s \in SUBSET S |-> IF s = {} THEN base
                             ELSE step[pick[s]][it[s \ {pick[s]}]]]

LEMMA ChainOf ==
  ASSUME NEW step, NEW base, NEW pick, NEW S, NEW it, Chain(step, base, pick, S, it)
  PROVE  /\ it[{}] = base
         /\ \A s \in SUBSET S : s # {} => it[s] = step[pick[s]][it[s \ {pick[s]}]]
BY DEF Chain

(* Two functions are the same on all sets when each value only depends on *)
(* that for the rest of the set.                                          *)
Along(S, pick, c, d) ==
    /\ c[{}] = d[{}]
    /\ \A s \in SUBSET S : /\ s # {}
                          /\ d[s \ {pick[s]}] = c[s \ {pick[s]}]
                          => d[s] = c[s]

LEMMA SameAlong ==
  ASSUME NEW S, IsFiniteSet(S), NEW pick, Picks(pick, S), NEW c, NEW d, Along(S, pick, c, d)
  PROVE  \A s \in SUBSET S : d[s] = c[s]
<1> DEFINE Bad == {s \in SUBSET S : d[s] # c[s]}
<1>1. SUFFICES ASSUME Bad # {} PROVE FALSE
  OBVIOUS
<1>2. PICK s \in Bad : \A t \in Bad : t \subseteq s => t = s
  <2>1. Bad \subseteq SUBSET S
    OBVIOUS
  <2> HIDE DEF Bad
  <2> QED BY <1>1, <2>1, SmallestSet
<1>3. s \in SUBSET S /\ d[s] # c[s] /\ s # {}
  BY DEF Along
<1>4. pick[s] \in s
  BY <1>3 DEF Picks
<1>5. s \ {pick[s]} \notin Bad
  BY <1>2, <1>4
<1>6. d[s \ {pick[s]}] = c[s \ {pick[s]}]
  BY <1>3, <1>5
<1> QED
  BY <1>3, <1>6 DEF Along

LEMMA ChainsAgree ==
  ASSUME NEW S, IsFiniteSet(S), NEW pick, Picks(pick, S), NEW step, NEW base,
         NEW T \in SUBSET S, NEW U \in SUBSET S, NEW it, NEW jt,
         Chain(step, base, pick, T, it), Chain(step, base, pick, U, jt),
         NEW r, r \subseteq T, r \subseteq U
  PROVE  jt[r] = it[r]
<1>1. IsFiniteSet(r) /\ Picks(pick, r)
  BY FS_Subset DEF Picks
<1>2. it[{}] = jt[{}]
  BY DEF Chain
<1>3. \A s \in SUBSET r : s # {} => /\ it[s] = step[pick[s]][it[s \ {pick[s]}]]
                                    /\ jt[s] = step[pick[s]][jt[s \ {pick[s]}]]
  BY DEF Chain
<1>4. Along(r, pick, it, jt)
  BY <1>2, <1>3 DEF Along
<1>5. \A s \in SUBSET r : jt[s] = it[s]
  BY <1>1, <1>4, SameAlong
<1> QED
  BY <1>5

LEMMA ChainExists ==
  ASSUME NEW S, IsFiniteSet(S), NEW pick, Picks(pick, S), NEW step, NEW base
  PROVE  \E it : Chain(step, base, pick, S, it)
<1> DEFINE Bad == {s \in SUBSET S : ~\E it : Chain(step, base, pick, s, it)}
<1>1. SUFFICES ASSUME Bad # {} PROVE FALSE
  OBVIOUS
<1>2. PICK T \in Bad : \A t \in Bad : t \subseteq T => t = T
  <2>1. Bad \subseteq SUBSET S
    OBVIOUS
  <2> HIDE DEF Bad
  <2> QED BY <1>1, <2>1, SmallestSet
<1> DEFINE H(s) == CHOOSE it : Chain(step, base, pick, s, it)
           jt == [s \in SUBSET T |-> IF s = T /\ T # {}
                                     THEN step[pick[T]][H(T \ {pick[T]})[T \ {pick[T]}]]
                                     ELSE IF s = {} THEN base ELSE H(s)[s]]
<1>3. T \in SUBSET S /\ ~\E it : Chain(step, base, pick, T, it)
  OBVIOUS
<1>4. ASSUME NEW s \in SUBSET T, s # T PROVE Chain(step, base, pick, s, H(s))
  <2>1. \E it : Chain(step, base, pick, s, it)
    BY <1>2, <1>3, <1>4
  <2> QED
    BY <2>1, Zenon
<1>5. ASSUME NEW s \in SUBSET T
      PROVE  jt[s] = IF s = {} THEN base ELSE step[pick[s]][jt[s \ {pick[s]}]]
  <2> HIDE DEF H, Bad
  <2> DEFINE x == pick[s]
             t == s \ {x}
  <2>1. CASE s = {}
    BY <2>1
  <2>2. CASE s # {}
    <3>1. x \in s /\ t \in SUBSET T /\ t # T /\ t # s
      BY <1>3, <2>2 DEF Picks
    <3>2. Chain(step, base, pick, t, H(t))
      BY <1>4, <3>1
    <3>3. jt[t] = H(t)[t]
      <4> HIDE DEF x
      <4>1. CASE t = {}
        <5>1. H(t)[{}] = base
          BY <3>2 DEF Chain
        <5> QED
          BY <3>1, <4>1, <5>1
      <4>2. CASE t # {}
        BY <3>1, <4>2
      <4> QED BY <4>1, <4>2
    <3>4. CASE s = T
      BY <2>2, <3>3, <3>4
    <3>5. CASE s # T
      <4>1. Chain(step, base, pick, s, H(s))
        BY <1>4, <3>5
      <4>2. H(s)[s] = step[x][H(s)[t]]
        <5>1. \A r \in SUBSET s : r # {} => H(s)[r] = step[pick[r]][H(s)[r \ {pick[r]}]]
          BY <4>1 DEF Chain
        <5> QED BY <2>2, <5>1, Zenon
      <4>3. H(s)[t] = H(t)[t]
        <5>1. s \in SUBSET S /\ t \in SUBSET S /\ t \subseteq s
          BY <1>3, <3>1
        <5> HIDE DEF t
        <5> QED BY <3>2, <4>1, <5>1, ChainsAgree
      <4>4. jt[s] = H(s)[s]
        BY <2>2, <3>5
      <4> QED
        BY <2>2, <3>3, <4>2, <4>3, <4>4
    <3> QED BY <3>4, <3>5
  <2> QED BY <2>1, <2>2
<1>6. Chain(step, base, pick, T, jt)
  <2>1. jt = [s \in SUBSET T |-> jt[s]]
    OBVIOUS
  <2> HIDE DEF jt
  <2> QED BY <1>5, <2>1 DEF Chain
<1> QED
  BY <1>3, <1>6


LEMMA ChainTyped ==
  ASSUME NEW S, IsFiniteSet(S), NEW pick, Picks(pick, S), NEW X, NEW base \in X,
         NEW step \in [S -> [X -> X]], NEW it, Chain(step, base, pick, S, it)
  PROVE  \A s \in SUBSET S : it[s] \in X
<1> DEFINE Bad == {s \in SUBSET S : it[s] \notin X}
<1>1. SUFFICES ASSUME Bad # {} PROVE FALSE
  OBVIOUS
<1>2. PICK s \in Bad : \A t \in Bad : t \subseteq s => t = s
  <2>1. Bad \subseteq SUBSET S
    OBVIOUS
  <2> HIDE DEF Bad
  <2> QED BY <1>1, <2>1, SmallestSet
<1>3. s \in SUBSET S /\ it[s] \notin X /\ s # {}
  BY DEF Chain
<1>4. pick[s] \in s
  BY <1>3 DEF Picks
<1>5. it[s \ {pick[s]}] \in X
  BY <1>2, <1>3, <1>4
<1>6. it[s] = step[pick[s]][it[s \ {pick[s]}]]
  BY <1>3 DEF Chain
<1>7. step[pick[s]] \in [X -> X]
  BY <1>3, <1>4
<1> QED
  BY <1>3, <1>5, <1>6, <1>7

MaxPick(n) == [s \in SUBSET (1..n) |-> Max(s)]
MinPick(n) == [s \in SUBSET (1..n) |-> Min(s)]

LEMMA MaxOf ==
  ASSUME NEW n \in Nat, NEW s \in SUBSET (1..n), s # {}
  PROVE  Max(s) \in s /\ \A y \in s : y <= Max(s)
<1> DEFINE D == {n - y : y \in s}
<1>1. D \in SUBSET Nat /\ D # {}
  <2>1. \A y \in s : n - y \in Nat
    OBVIOUS
  <2> QED BY <2>1
<1>2. PICK d \in D : \A e \in D : d <= e
  <2> HIDE DEF D
  <2> QED BY <1>1, LeastNumber
<1>3. PICK x \in s : d = n - x
  OBVIOUS
<1>4. \A y \in s : x >= y
  <2>1. \A y \in s : n - x <= n - y
    BY <1>2, <1>3
  <2> QED BY <2>1
<1>5. Max(s) \in s /\ \A y \in s : Max(s) >= y
  BY <1>4, Zenon DEF Max
<1> QED
  BY <1>5

LEMMA MinOf ==
  ASSUME NEW n \in Nat, NEW s \in SUBSET (1..n), s # {}
  PROVE  Min(s) \in s /\ \A y \in s : Min(s) <= y
<1>1. s \in SUBSET Nat
  OBVIOUS
<1>2. PICK x \in s : \A y \in s : x =< y
  BY <1>1, LeastNumber
<1> QED
  BY <1>2, Zenon DEF Min

LEMMA LastPicked ==
  ASSUME NEW n \in Nat
  PROVE  /\ IsFiniteSet(1..n)
         /\ Picks(MaxPick(n), 1..n)
         /\ \A k \in 1..n : MaxPick(n)[1..k] = k /\ (1..k) \ {k} = 1..(k - 1)
<1>1. Picks(MaxPick(n), 1..n)
  BY MaxOf DEF Picks, MaxPick
<1>2. ASSUME NEW k \in 1..n
      PROVE  MaxPick(n)[1..k] = k /\ (1..k) \ {k} = 1..(k - 1)
  <2>1. 1..k \in SUBSET (1..n) /\ 1..k # {} /\ k \in 1..k
    OBVIOUS
  <2>2. Max(1..k) \in 1..k /\ k <= Max(1..k)
    BY <2>1, MaxOf
  <2>3. Max(1..k) = k
    BY <2>2
  <2> QED BY <2>1, <2>3 DEF MaxPick
<1>3. IsFiniteSet(1..n)
  BY FS_Interval
<1> QED
  BY <1>1, <1>2, <1>3

LEMMA FirstPicked ==
  ASSUME NEW n \in Nat
  PROVE  /\ IsFiniteSet(1..n)
         /\ Picks(MinPick(n), 1..n)
         /\ \A k \in 1..n : MinPick(n)[k..n] = k /\ (k..n) \ {k} = (k + 1)..n
<1>1. Picks(MinPick(n), 1..n)
  BY MinOf DEF Picks, MinPick
<1>2. ASSUME NEW k \in 1..n
      PROVE  MinPick(n)[k..n] = k /\ (k..n) \ {k} = (k + 1)..n
  <2>1. k..n \in SUBSET (1..n) /\ k..n # {} /\ k \in k..n
    OBVIOUS
  <2>2. Min(k..n) \in k..n /\ Min(k..n) <= k
    BY <2>1, MinOf
  <2>3. Min(k..n) = k
    BY <2>2
  <2> QED BY <2>1, <2>3 DEF MinPick
<1>3. IsFiniteSet(1..n)
  BY FS_Interval
<1> QED
  BY <1>1, <1>2, <1>3

(* The states of a fold from the left, and of one from the right. *)
LeftPath(n, X, base, step, h, last) ==
    /\ h \in [0..n -> X]
    /\ h[0] = base /\ h[n] = last
    /\ \A k \in 1..n : h[k] = step[k][h[k - 1]]

RightPath(n, X, base, step, h, last) ==
    /\ h \in [1..(n + 1) -> X]
    /\ h[n + 1] = base /\ h[1] = last
    /\ \A k \in 1..n : h[k] = step[k][h[k + 1]]

LEMMA LeftRun ==
  ASSUME NEW n \in Nat, NEW X, NEW base \in X, NEW step \in [1..n -> [X -> X]],
         NEW it, Chain(step, base, MaxPick(n), 1..n, it)
  PROVE  \E h : LeftPath(n, X, base, step, h, it[1..n])
<1> DEFINE h == [k \in 0..n |-> it[1..k]]
<1>1. \A k \in 0..n : 1..k \in SUBSET (1..n)
  OBVIOUS
<1>2. h \in [0..n -> X]
  <2>1. \A s \in SUBSET (1..n) : it[s] \in X
    BY LastPicked, ChainTyped
  <2> QED BY <1>1, <2>1
<1>3. h[0] = base /\ h[n] = it[1..n]
  <2>1. 1..0 = {} /\ it[{}] = base
    BY DEF Chain
  <2>2. h[0] = it[1..0] /\ h[n] = it[1..n]
    OBVIOUS
  <2> QED BY <2>1, <2>2
<1>4. ASSUME NEW k \in 1..n PROVE h[k] = step[k][h[k - 1]]
  <2>1. 1..k \in SUBSET (1..n) /\ 1..k # {}
    <3>1. k \in 1..k /\ \A j \in 1..k : j \in 1..n
      OBVIOUS
    <3> QED BY <3>1
  <2>2. it[1..k] = step[MaxPick(n)[1..k]][it[(1..k) \ {MaxPick(n)[1..k]}]]
    BY <2>1 DEF Chain
  <2>3. it[1..k] = step[k][it[1..(k - 1)]]
    BY <2>2, LastPicked
  <2>4. h[k] = it[1..k] /\ h[k - 1] = it[1..(k - 1)]
    OBVIOUS
  <2> QED BY <2>3, <2>4
<1> QED
  <2> HIDE DEF h
  <2>1. LeftPath(n, X, base, step, h, it[1..n])
    BY <1>2, <1>3, <1>4 DEF LeftPath
  <2> QED BY <2>1

LEMMA RightRun ==
  ASSUME NEW n \in Nat, NEW X, NEW base \in X, NEW step \in [1..n -> [X -> X]],
         NEW it, Chain(step, base, MinPick(n), 1..n, it)
  PROVE  \E h : RightPath(n, X, base, step, h, it[1..n])
<1> DEFINE h == [k \in 1..(n + 1) |-> it[k..n]]
<1>1. \A k \in 1..(n + 1) : k..n \in SUBSET (1..n)
  OBVIOUS
<1>2. h \in [1..(n + 1) -> X]
  <2>1. \A s \in SUBSET (1..n) : it[s] \in X
    BY FirstPicked, ChainTyped
  <2> QED BY <1>1, <2>1
<1>3. h[n + 1] = base /\ h[1] = it[1..n]
  <2>1. (n + 1)..n = {} /\ it[{}] = base
    BY DEF Chain
  <2>2. h[n + 1] = it[(n + 1)..n] /\ h[1] = it[1..n]
    OBVIOUS
  <2> QED BY <2>1, <2>2
<1>4. ASSUME NEW k \in 1..n PROVE h[k] = step[k][h[k + 1]]
  <2>1. k..n \in SUBSET (1..n) /\ k..n # {}
    <3>1. k \in k..n /\ \A j \in k..n : j \in 1..n
      OBVIOUS
    <3> QED BY <3>1
  <2>2. it[k..n] = step[MinPick(n)[k..n]][it[(k..n) \ {MinPick(n)[k..n]}]]
    BY <2>1 DEF Chain
  <2>3. it[k..n] = step[k][it[(k + 1)..n]]
    BY <2>2, FirstPicked
  <2>4. h[k] = it[k..n] /\ h[k + 1] = it[(k + 1)..n]
    OBVIOUS
  <2> QED BY <2>3, <2>4
<1> QED
  <2> HIDE DEF h
  <2>1. RightPath(n, X, base, step, h, it[1..n])
    BY <1>2, <1>3, <1>4 DEF RightPath
  <2> QED BY <2>1


----------------------------------------------------------------------------
(* Inventories: one container is replaced *)

Invs == [Players -> Inventory \cup {NoContainers}]
Taken == [from : ContainerIds, item : Items]
Taking == [ok : BOOLEAN, inv : Invs, goods : Seq(Taken)]
Delivering == [ok : BOOLEAN, inv : Invs]

LEMMA InvFields ==
  ASSUME NEW inv \in Invs, NEW p \in Players
  PROVE  /\ inv[p] \in Inventory \cup {NoContainers}
         /\ DOMAIN inv = Players
         /\ \A c \in DOMAIN inv[p] : /\ c \in ContainerIds /\ inv[p] \in Inventory
                                     /\ inv[p][c] \in Seq(Items)
                                     /\ Len(inv[p][c]) \in Nat
                                     /\ DOMAIN inv[p][c] = 1..Len(inv[p][c])
<1>1. inv[p] \in Inventory \cup {NoContainers} /\ DOMAIN inv = Players
  BY DEF Invs
<1>2. ASSUME NEW c \in DOMAIN inv[p]
      PROVE  c \in ContainerIds /\ inv[p] \in Inventory /\ inv[p][c] \in Seq(Items)
  <2>1. CASE inv[p] \in Inventory
    BY <1>2, <2>1 DEF Inventory
  <2>2. CASE inv[p] = NoContainers
    BY <1>2, <2>2 DEF NoContainers
  <2> QED BY <1>1, <2>1, <2>2
<1> QED
  BY <1>1, <1>2, LenProperties

(* jnv is inv with seq in the container c of p. *)
Replaces(inv, jnv, p, c, seq) ==
    /\ jnv \in Invs
    /\ \A q \in Players : DOMAIN jnv[q] = DOMAIN inv[q]
    /\ \A q \in Players \ {p} : jnv[q] = inv[q]
    /\ \A d \in DOMAIN inv[p] \ {c} : jnv[p][d] = inv[p][d]
    /\ jnv[p][c] = seq

LEMMA ReplaceOne ==
  ASSUME NEW inv \in Invs, NEW p \in Players, NEW c \in DOMAIN inv[p], NEW seq \in Seq(Items)
  PROVE  Replaces(inv, [inv EXCEPT ![p] = [inv[p] EXCEPT ![c] = seq]], p, c, seq)
<1> DEFINE row == [inv[p] EXCEPT ![c] = seq]
           jnv == [inv EXCEPT ![p] = row]
<1>1. c \in ContainerIds /\ inv[p] \in Inventory
  BY InvFields
<1>2. /\ row \in Inventory /\ row[c] = seq /\ DOMAIN row = DOMAIN inv[p]
      /\ \A d \in DOMAIN inv[p] \ {c} : row[d] = inv[p][d]
  BY <1>1 DEF Inventory
<1> HIDE DEF row
<1>3. jnv \in Invs /\ jnv[p] = row /\ \A q \in Players \ {p} : jnv[q] = inv[q]
  BY <1>2 DEF Invs
<1> HIDE DEF jnv
<1>4. Replaces(inv, jnv, p, c, seq)
  BY <1>2, <1>3 DEF Replaces
<1> QED
  BY <1>4 DEF jnv, row

LEMMA PutReplaces ==
  ASSUME NEW inv \in Invs, NEW p \in Players, NEW c \in DOMAIN inv[p], NEW x \in Items
  PROVE  Replaces(inv, Put(inv, p, c, x), p, c, Append(inv[p][c], x))
<1>1. Append(inv[p][c], x) \in Seq(Items)
  BY InvFields, AppendProperties
<1>2. Put(inv, p, c, x) = [inv EXCEPT ![p] = [inv[p] EXCEPT ![c] = Append(inv[p][c], x)]]
  BY DEF Put
<1>3. Replaces(inv, [inv EXCEPT ![p] = [inv[p] EXCEPT ![c] = Append(inv[p][c], x)]],
               p, c, Append(inv[p][c], x))
  BY <1>1, ReplaceOne, Zenon
<1> QED
  BY <1>2, <1>3, Zenon

(* Put where there is no container changes nothing. *)
LEMMA PutType ==
  ASSUME NEW inv \in Invs, NEW p \in Players, NEW c, NEW x \in Items
  PROVE  /\ Put(inv, p, c, x) \in Invs
         /\ c \notin DOMAIN inv[p] => Put(inv, p, c, x) = inv
<1>1. CASE c \in DOMAIN inv[p]
  BY <1>1, PutReplaces DEF Replaces
<1>2. CASE c \notin DOMAIN inv[p]
  <2>1. [inv[p] EXCEPT ![c] = Append(inv[p][c], x)] = inv[p]
    <3>1. inv[p] = [d \in DOMAIN inv[p] |-> inv[p][d]]
      <4>1. CASE inv[p] \in Inventory
        BY <4>1 DEF Inventory
      <4>2. CASE inv[p] = NoContainers
        BY <4>2 DEF NoContainers
      <4> QED BY <4>1, <4>2, InvFields
    <3> QED BY <1>2, <3>1
  <2>2. Put(inv, p, c, x) = [inv EXCEPT ![p] = [inv[p] EXCEPT ![c] = Append(inv[p][c], x)]]
    BY DEF Put
  <2>3. [inv EXCEPT ![p] = inv[p]] = inv
    BY DEF Invs
  <2>4. Put(inv, p, c, x) = inv
    BY <2>1, <2>2, <2>3, Zenon
  <2> QED BY <2>4
<1> QED
  BY <1>1, <1>2

LEMMA RemoveAtIs ==
  ASSUME NEW V, NEW s \in Seq(V), NEW i \in 1..Len(s)
  PROVE  /\ RemoveAt(s, i) \in Seq(V)
         /\ Len(RemoveAt(s, i)) = Len(s) - 1
         /\ \A j \in 1..(Len(s) - 1) : RemoveAt(s, i)[j] = IF j < i THEN s[j] ELSE s[j + 1]
<1> DEFINE a == SubSeq(s, 1, i - 1)
           b == SubSeq(s, i + 1, Len(s))
<1>0. Len(s) \in Nat /\ i \in Nat /\ \A j \in 1..Len(s) : s[j] \in V
  BY LenProperties, ElementOfSeq
<1>1. /\ a \in Seq(V) /\ Len(a) = i - 1
      /\ \A j \in 1..(i - 1) : a[j] = s[j]
  <2>1. \A j \in 1..(i - 1) : s[j] \in V
    BY <1>0
  <2>2. /\ a \in Seq(V) /\ Len(a) = IF 1 <= i - 1 THEN (i - 1) - 1 + 1 ELSE 0
        /\ \A j \in 1..((i - 1) - 1 + 1) : a[j] = s[1 + j - 1]
    BY <1>0, <2>1, SubSeqProperties
  <2> HIDE DEF a
  <2> QED BY <1>0, <2>2
<1>2. /\ b \in Seq(V) /\ Len(b) = Len(s) - i
      /\ \A j \in 1..(Len(s) - i) : b[j] = s[i + j]
  <2>1. \A j \in (i + 1)..Len(s) : s[j] \in V
    BY <1>0
  <2>2. /\ b \in Seq(V) /\ Len(b) = IF i + 1 <= Len(s) THEN Len(s) - (i + 1) + 1 ELSE 0
        /\ \A j \in 1..(Len(s) - (i + 1) + 1) : b[j] = s[(i + 1) + j - 1]
    BY <1>0, <2>1, SubSeqProperties
  <2> HIDE DEF b
  <2> QED BY <1>0, <2>2
<1>3. RemoveAt(s, i) = a \o b
  BY DEF RemoveAt
<1> HIDE DEF a, b
<1>4. /\ a \o b \in Seq(V) /\ Len(a \o b) = Len(a) + Len(b)
      /\ \A j \in 1..(Len(a) + Len(b)) : (a \o b)[j] = IF j <= Len(a) THEN a[j] ELSE b[j - Len(a)]
  BY <1>1, <1>2, ConcatProperties
<1>5. ASSUME NEW j \in 1..(Len(s) - 1)
      PROVE  (a \o b)[j] = IF j < i THEN s[j] ELSE s[j + 1]
  <2>1. j \in 1..(Len(a) + Len(b))
    BY <1>0, <1>1, <1>2
  <2>2. CASE j < i
    BY <1>0, <1>1, <1>2, <1>4, <2>1, <2>2
  <2>3. CASE ~(j < i)
    <3>1. (a \o b)[j] = b[j - (i - 1)]
      BY <1>0, <1>1, <1>2, <1>4, <2>1, <2>3
    <3>2. j - (i - 1) \in 1..(Len(s) - i) /\ i + (j - (i - 1)) = j + 1
      BY <1>0, <2>3
    <3> QED BY <1>2, <2>3, <3>1, <3>2
  <2> QED BY <2>2, <2>3
<1> QED
  BY <1>0, <1>1, <1>2, <1>3, <1>4, <1>5


LEMMA TakeOneIs ==
  ASSUME NEW p \in Players, NEW x \in Taking, NEW r \in Reference
  PROVE  /\ TakeOne(p, x, r) \in Taking
         /\ x.ok /\ Has(x.inv, p, r) =>
               /\ TakeOne(p, x, r).ok
               /\ Replaces(x.inv, TakeOne(p, x, r).inv, p, r.container,
                           RemoveAt(x.inv[p][r.container], r.index))
               /\ [from |-> r.container, item |-> ItemAt(x.inv, p, r)] \in Taken
               /\ TakeOne(p, x, r).goods =
                     Append(x.goods, [from |-> r.container, item |-> ItemAt(x.inv, p, r)])
         /\ ~(x.ok /\ Has(x.inv, p, r)) =>
               /\ ~TakeOne(p, x, r).ok
               /\ TakeOne(p, x, r).inv = x.inv
               /\ TakeOne(p, x, r).goods = x.goods
<1> DEFINE y == TakeOne(p, x, r)
<1>0. /\ x.inv \in Invs /\ x.goods \in Seq(Taken) /\ x.ok \in BOOLEAN
      /\ r.container \in ContainerIds /\ r.index \in Nat \ {0}
  BY DEF Taking, Reference
<1>1. CASE x.ok /\ Has(x.inv, p, r)
  <2> DEFINE seq == RemoveAt(x.inv[p][r.container], r.index)
             jnv == [x.inv EXCEPT ![p] = [x.inv[p] EXCEPT ![r.container] = seq]]
             got == [from |-> r.container, item |-> ItemAt(x.inv, p, r)]
  <2>1. /\ r.container \in DOMAIN x.inv[p] /\ x.inv[p][r.container] \in Seq(Items)
        /\ r.index \in 1..Len(x.inv[p][r.container])
    BY <1>0, <1>1, InvFields DEF Has
  <2>2. seq \in Seq(Items)
    BY <2>1, RemoveAtIs
  <2>3. Replaces(x.inv, jnv, p, r.container, seq)
    <3> HIDE DEF seq
    <3> QED BY <1>0, <2>1, <2>2, ReplaceOne
  <2>4. got \in Taken
    BY <1>0, <2>1, ElementOfSeq DEF Taken, ItemAt
  <2>5. y = [ok |-> TRUE, inv |-> jnv, goods |-> Append(x.goods, got)]
    BY <1>1 DEF TakeOne
  <2>6. Append(x.goods, got) \in Seq(Taken)
    BY <1>0, <2>4, AppendProperties
  <2>7. jnv \in Invs
    BY <2>3 DEF Replaces
  <2> HIDE DEF seq, jnv, got
  <2>8. y.ok /\ y.inv = jnv /\ y.goods = Append(x.goods, got) /\ y \in Taking
    BY <2>5, <2>6, <2>7 DEF Taking
  <2> QED
    BY <1>1, <2>3, <2>4, <2>8 DEF seq, got
<1>2. CASE ~(x.ok /\ Has(x.inv, p, r))
  <2>1. y = [x EXCEPT !.ok = FALSE]
    BY <1>2, Zenon DEF TakeOne
  <2>2. ~y.ok /\ y.inv = x.inv /\ y.goods = x.goods /\ y \in Taking
    BY <2>1 DEF Taking
  <2> QED
    BY <1>2, <2>2
<1> QED
  BY <1>1, <1>2

LEMMA DeliverOneIs ==
  ASSUME NEW p \in Players, NEW x \in Delivering, NEW g \in Taken
  PROVE  /\ DeliverOne(p, x, g) \in Delivering
         /\ \/ /\ DeliverOne(p, x, g).ok /\ x.ok
               /\ \E c \in ContainerIds : /\ HasRoom(x.inv, p, c)
                                          /\ DeliverOne(p, x, g).inv = Put(x.inv, p, c, g.item)
            \/ /\ ~DeliverOne(p, x, g).ok
               /\ DeliverOne(p, x, g).inv = x.inv
<1> DEFINE y == DeliverOne(p, x, g)
           room == {c \in ContainerIds : HasRoom(x.inv, p, c)}
           first == CHOOSE c \in room : \A d \in room : c <= d
<1>0. x.inv \in Invs /\ x.ok \in BOOLEAN /\ g.item \in Items
  BY DEF Delivering, Taken
<1>1. CASE x.ok /\ room # {}
  <2>1. room \in SUBSET Nat
    BY TradeAssumption
  <2>2. first \in room
    <3>1. \E c \in room : \A d \in room : c <= d
      <4> HIDE DEF room
      <4> QED BY <1>1, <2>1, LeastNumber
    <3> HIDE DEF room
    <3> QED BY <3>1, Zenon
  <2>3. y = [x EXCEPT !.inv = Put(x.inv, p, first, g.item)]
    BY <1>1 DEF DeliverOne
  <2>4. first \in ContainerIds /\ HasRoom(x.inv, p, first)
    BY <2>2
  <2>5. Put(x.inv, p, first, g.item) \in Invs
    BY <1>0, PutType
  <2> HIDE DEF first, room
  <2>6. y.ok /\ y.inv = Put(x.inv, p, first, g.item) /\ y \in Delivering
    BY <1>0, <1>1, <2>3, <2>5 DEF Delivering
  <2> QED BY <1>1, <2>4, <2>6
<1>2. CASE ~(x.ok /\ room # {})
  <2>1. y = [x EXCEPT !.ok = FALSE]
    BY <1>2, Zenon DEF DeliverOne
  <2>2. ~y.ok /\ y.inv = x.inv /\ y \in Delivering
    BY <2>1 DEF Delivering
  <2> QED BY <2>2
<1> QED
  BY <1>1, <1>2

(* The states TakeAll goes through. *)
TakeStart(inv) == [ok |-> TRUE, inv |-> inv, goods |-> <<>>]

TakeRun(h, inv, p, refs) ==
    /\ h \in [0..Len(refs) -> Taking]
    /\ h[0] = TakeStart(inv)
    /\ \A k \in 1..Len(refs) : h[k] = TakeOne(p, h[k - 1], refs[k])
    /\ TakeAll(inv, p, refs) = h[Len(refs)]

LEMMA TakeRunExists ==
  ASSUME NEW inv \in Invs, NEW p \in Players, NEW refs \in Seq(Reference)
  PROVE  \E h : TakeRun(h, inv, p, refs)
<1> DEFINE n == Len(refs)
           S == 1..n
           base == TakeStart(inv)
           step == [i \in S |-> [x \in Taking |-> TakeOne(p, x, refs[i])]]
           P(it) == it = [s \in SUBSET DOMAIN refs |->
                             IF s = {} THEN base
                             ELSE LET x == Max(s) IN TakeOne(p, it[s \ {x}], refs[x])]
<1>0. n \in Nat /\ DOMAIN refs = S /\ \A i \in S : refs[i] \in Reference
  BY LenProperties, ElementOfSeq
<1>1. base \in Taking
  BY EmptySeq DEF Taking, TakeStart
<1>2. step \in [S -> [Taking -> Taking]]
  BY <1>0, TakeOneIs
<1>3. /\ \A i \in S, x \in Taking : step[i][x] = TakeOne(p, x, refs[i])
  OBVIOUS
<1>4. TakeAll(inv, p, refs) = (CHOOSE it : P(it))[DOMAIN refs]
  BY DEF TakeAll, TakeStart, FoldLeft, MapThenFoldSet
<1>5. IsFiniteSet(S) /\ Picks(MaxPick(n), S)
  BY <1>0, LastPicked
<1> HIDE DEF step, base
<1>6. PICK c : Chain(step, base, MaxPick(n), S, c)
  BY <1>5, ChainExists
<1>7. \A s \in SUBSET S : c[s] \in Taking
  BY <1>1, <1>2, <1>5, <1>6, ChainTyped
<1>8. ASSUME NEW s \in SUBSET S, s # {}
      PROVE  MaxPick(n)[s] = Max(s) /\ Max(s) \in S
  BY <1>0, <1>8, MaxOf DEF MaxPick
<1>9. P(c)
  <2>1. ASSUME NEW s \in SUBSET S
        PROVE  c[s] = IF s = {} THEN base ELSE LET x == Max(s) IN TakeOne(p, c[s \ {x}], refs[x])
    <3>1. CASE s = {}
      BY <1>6, <3>1 DEF Chain
    <3>2. CASE s # {}
      <4>1. c[s] = step[Max(s)][c[s \ {Max(s)}]]
        BY <1>6, <1>8, <3>2 DEF Chain
      <4>2. c[s \ {Max(s)}] \in Taking
        BY <1>7
      <4> QED BY <1>3, <1>8, <3>2, <4>1, <4>2
    <3> QED BY <3>1, <3>2
  <2>2. c = [s \in SUBSET S |-> c[s]]
    BY <1>6 DEF Chain
  <2> QED BY <1>0, <2>1, <2>2
<1> DEFINE d == CHOOSE it : P(it)
<1>10. P(d)
  <2> HIDE DEF P
  <2> QED BY <1>9, Zenon
<1> HIDE DEF d
<1>11. d[S] = c[S]
  <2>1. d[{}] = c[{}]
    BY <1>6, <1>10 DEF Chain
  <2>2. ASSUME NEW s \in SUBSET S, s # {}, d[s \ {MaxPick(n)[s]}] = c[s \ {MaxPick(n)[s]}]
        PROVE  d[s] = c[s]
    <3>1. d[s] = TakeOne(p, d[s \ {Max(s)}], refs[Max(s)])
      BY <1>0, <1>10, <2>2
    <3>2. c[s] = TakeOne(p, c[s \ {Max(s)}], refs[Max(s)])
      BY <1>0, <1>9, <2>2
    <3>3. d[s \ {Max(s)}] = c[s \ {Max(s)}]
      BY <1>8, <2>2
    <3> QED BY <3>1, <3>2, <3>3
  <2>3. Along(S, MaxPick(n), c, d)
    BY <2>1, <2>2 DEF Along
  <2>4. \A s \in SUBSET S : d[s] = c[s]
    <3> HIDE DEF P, S
    <3> QED BY <1>5, <2>3, SameAlong
  <2> QED BY <2>4
<1>12. PICK h \in [0..n -> Taking] : /\ h[0] = base /\ h[n] = c[S]
                                     /\ \A k \in 1..n : h[k] = step[k][h[k - 1]]
  <2>1. step \in [1..n -> [Taking -> Taking]] /\ Chain(step, base, MaxPick(n), 1..n, c) /\ n \in Nat
    BY <1>0, <1>2, <1>6
  <2> HIDE DEF P, S, n
  <2>2. \E h : LeftPath(n, Taking, base, step, h, c[1..n])
    BY <1>1, <2>1, LeftRun
  <2> QED BY <2>2 DEF S, LeftPath
<1>13. \A k \in 1..n : h[k] = TakeOne(p, h[k - 1], refs[k])
  <2>1. \A k \in 1..n : h[k - 1] \in Taking
    BY <1>0
  <2> QED BY <1>3, <1>12, <2>1
<1>14. TakeAll(inv, p, refs) = h[n]
  BY <1>0, <1>4, <1>11, <1>12 DEF d
<1> QED
  BY <1>12, <1>13, <1>14 DEF TakeRun, base

(* The states Deliver goes through. *)
Ready(inv) == [ok |-> TRUE, inv |-> inv]

DeliverRun(h, inv, p, goods) ==
    /\ h \in [0..Len(goods) -> Delivering]
    /\ h[0] = Ready(inv)
    /\ \A k \in 1..Len(goods) : h[k] = DeliverOne(p, h[k - 1], goods[k])
    /\ Deliver(inv, p, goods) = h[Len(goods)]

LEMMA DeliverRunExists ==
  ASSUME NEW inv \in Invs, NEW p \in Players, NEW goods \in Seq(Taken)
  PROVE  \E h : DeliverRun(h, inv, p, goods)
<1> DEFINE n == Len(goods)
           S == 1..n
           base == Ready(inv)
           step == [i \in S |-> [x \in Delivering |-> DeliverOne(p, x, goods[i])]]
           P(it) == it = [s \in SUBSET DOMAIN goods |->
                             IF s = {} THEN base
                             ELSE LET x == Max(s) IN DeliverOne(p, it[s \ {x}], goods[x])]
<1>0. n \in Nat /\ DOMAIN goods = S /\ \A i \in S : goods[i] \in Taken
  BY LenProperties, ElementOfSeq
<1>1. base \in Delivering
  BY DEF Delivering, Ready
<1>2. step \in [S -> [Delivering -> Delivering]]
  BY <1>0, DeliverOneIs
<1>3. /\ \A i \in S, x \in Delivering : step[i][x] = DeliverOne(p, x, goods[i])
  OBVIOUS
<1>4. Deliver(inv, p, goods) = (CHOOSE it : P(it))[DOMAIN goods]
  BY DEF Deliver, Ready, FoldLeft, MapThenFoldSet
<1>5. IsFiniteSet(S) /\ Picks(MaxPick(n), S)
  BY <1>0, LastPicked
<1> HIDE DEF step, base
<1>6. PICK c : Chain(step, base, MaxPick(n), S, c)
  BY <1>5, ChainExists
<1>7. \A s \in SUBSET S : c[s] \in Delivering
  BY <1>1, <1>2, <1>5, <1>6, ChainTyped
<1>8. ASSUME NEW s \in SUBSET S, s # {}
      PROVE  MaxPick(n)[s] = Max(s) /\ Max(s) \in S
  BY <1>0, <1>8, MaxOf DEF MaxPick
<1>9. P(c)
  <2>1. ASSUME NEW s \in SUBSET S
        PROVE  c[s] = IF s = {} THEN base ELSE LET x == Max(s) IN DeliverOne(p, c[s \ {x}], goods[x])
    <3>1. CASE s = {}
      BY <1>6, <3>1 DEF Chain
    <3>2. CASE s # {}
      <4>1. c[s] = step[Max(s)][c[s \ {Max(s)}]]
        BY <1>6, <1>8, <3>2 DEF Chain
      <4>2. c[s \ {Max(s)}] \in Delivering
        BY <1>7
      <4> QED BY <1>3, <1>8, <3>2, <4>1, <4>2
    <3> QED BY <3>1, <3>2
  <2>2. c = [s \in SUBSET S |-> c[s]]
    BY <1>6 DEF Chain
  <2> QED BY <1>0, <2>1, <2>2
<1> DEFINE d == CHOOSE it : P(it)
<1>10. P(d)
  <2> HIDE DEF P
  <2> QED BY <1>9, Zenon
<1> HIDE DEF d
<1>11. d[S] = c[S]
  <2>1. d[{}] = c[{}]
    BY <1>6, <1>10 DEF Chain
  <2>2. ASSUME NEW s \in SUBSET S, s # {}, d[s \ {MaxPick(n)[s]}] = c[s \ {MaxPick(n)[s]}]
        PROVE  d[s] = c[s]
    <3>1. d[s] = DeliverOne(p, d[s \ {Max(s)}], goods[Max(s)])
      BY <1>0, <1>10, <2>2
    <3>2. c[s] = DeliverOne(p, c[s \ {Max(s)}], goods[Max(s)])
      BY <1>0, <1>9, <2>2
    <3>3. d[s \ {Max(s)}] = c[s \ {Max(s)}]
      BY <1>8, <2>2
    <3> QED BY <3>1, <3>2, <3>3
  <2>3. Along(S, MaxPick(n), c, d)
    BY <2>1, <2>2 DEF Along
  <2>4. \A s \in SUBSET S : d[s] = c[s]
    <3> HIDE DEF P, S
    <3> QED BY <1>5, <2>3, SameAlong
  <2> QED BY <2>4
<1>12. PICK h \in [0..n -> Delivering] : /\ h[0] = base /\ h[n] = c[S]
                                     /\ \A k \in 1..n : h[k] = step[k][h[k - 1]]
  <2>1. step \in [1..n -> [Delivering -> Delivering]] /\ Chain(step, base, MaxPick(n), 1..n, c) /\ n \in Nat
    BY <1>0, <1>2, <1>6
  <2> HIDE DEF P, S, n
  <2>2. \E h : LeftPath(n, Delivering, base, step, h, c[1..n])
    BY <1>1, <2>1, LeftRun
  <2> QED BY <2>2 DEF S, LeftPath
<1>13. \A k \in 1..n : h[k] = DeliverOne(p, h[k - 1], goods[k])
  <2>1. \A k \in 1..n : h[k - 1] \in Delivering
    BY <1>0
  <2> QED BY <1>3, <1>12, <2>1
<1>14. Deliver(inv, p, goods) = h[n]
  BY <1>0, <1>4, <1>11, <1>12 DEF d
<1> QED
  BY <1>12, <1>13, <1>14 DEF DeliverRun, base

(* The states Restore goes through, backwards. *)
Back(p, inv, g) == Put(inv, p, g.from, g.item)

RestoreRun(h, inv, p, goods) ==
    /\ h \in [1..(Len(goods) + 1) -> Invs]
    /\ h[Len(goods) + 1] = inv
    /\ \A k \in 1..Len(goods) : h[k] = Back(p, h[k + 1], goods[k])
    /\ Restore(inv, p, goods) = h[1]

LEMMA BackType ==
  ASSUME NEW p \in Players, NEW inv \in Invs, NEW g \in Taken
  PROVE  Back(p, inv, g) \in Invs
BY PutType DEF Back, Taken

LEMMA RestoreRunExists ==
  ASSUME NEW inv \in Invs, NEW p \in Players, NEW goods \in Seq(Taken)
  PROVE  \E h : RestoreRun(h, inv, p, goods)
<1> DEFINE n == Len(goods)
           S == 1..n
           base == inv
           step == [i \in S |-> [x \in Invs |-> Back(p, x, goods[i])]]
           P(it) == it = [s \in SUBSET DOMAIN goods |->
                             IF s = {} THEN base
                             ELSE LET x == Min(s) IN Back(p, it[s \ {x}], goods[x])]
<1>0. n \in Nat /\ DOMAIN goods = S /\ \A i \in S : goods[i] \in Taken
  BY LenProperties, ElementOfSeq
<1>1. base \in Invs
  OBVIOUS
<1>2. step \in [S -> [Invs -> Invs]]
  BY <1>0, BackType
<1>3. /\ \A i \in S, x \in Invs : step[i][x] = Back(p, x, goods[i])
  OBVIOUS
<1>4. Restore(inv, p, goods) = (CHOOSE it : P(it))[DOMAIN goods]
  BY DEF Restore, Back, FoldRight, MapThenFoldSet
<1>5. IsFiniteSet(S) /\ Picks(MinPick(n), S)
  BY <1>0, FirstPicked
<1> HIDE DEF step, base
<1>6. PICK c : Chain(step, base, MinPick(n), S, c)
  BY <1>5, ChainExists
<1>7. \A s \in SUBSET S : c[s] \in Invs
  BY <1>1, <1>2, <1>5, <1>6, ChainTyped
<1>8. ASSUME NEW s \in SUBSET S, s # {}
      PROVE  MinPick(n)[s] = Min(s) /\ Min(s) \in S
  BY <1>0, <1>8, MinOf DEF MinPick
<1>9. P(c)
  <2>1. ASSUME NEW s \in SUBSET S
        PROVE  c[s] = IF s = {} THEN base ELSE LET x == Min(s) IN Back(p, c[s \ {x}], goods[x])
    <3>1. CASE s = {}
      BY <1>6, <3>1 DEF Chain
    <3>2. CASE s # {}
      <4>1. c[s] = step[Min(s)][c[s \ {Min(s)}]]
        BY <1>6, <1>8, <3>2 DEF Chain
      <4>2. c[s \ {Min(s)}] \in Invs
        BY <1>7
      <4> QED BY <1>3, <1>8, <3>2, <4>1, <4>2
    <3> QED BY <3>1, <3>2
  <2>2. c = [s \in SUBSET S |-> c[s]]
    BY <1>6 DEF Chain
  <2> QED BY <1>0, <2>1, <2>2
<1> DEFINE d == CHOOSE it : P(it)
<1>10. P(d)
  <2> HIDE DEF P
  <2> QED BY <1>9, Zenon
<1> HIDE DEF d
<1>11. d[S] = c[S]
  <2>1. d[{}] = c[{}]
    BY <1>6, <1>10 DEF Chain
  <2>2. ASSUME NEW s \in SUBSET S, s # {}, d[s \ {MinPick(n)[s]}] = c[s \ {MinPick(n)[s]}]
        PROVE  d[s] = c[s]
    <3>1. d[s] = Back(p, d[s \ {Min(s)}], goods[Min(s)])
      BY <1>0, <1>10, <2>2
    <3>2. c[s] = Back(p, c[s \ {Min(s)}], goods[Min(s)])
      BY <1>0, <1>9, <2>2
    <3>3. d[s \ {Min(s)}] = c[s \ {Min(s)}]
      BY <1>8, <2>2
    <3> QED BY <3>1, <3>2, <3>3
  <2>3. Along(S, MinPick(n), c, d)
    BY <2>1, <2>2 DEF Along
  <2>4. \A s \in SUBSET S : d[s] = c[s]
    <3> HIDE DEF P, S
    <3> QED BY <1>5, <2>3, SameAlong
  <2> QED BY <2>4
<1>12. PICK h \in [1..(n + 1) -> Invs] : /\ h[n + 1] = base /\ h[1] = c[S]
                                     /\ \A k \in 1..n : h[k] = step[k][h[k + 1]]
  <2>1. step \in [1..n -> [Invs -> Invs]] /\ Chain(step, base, MinPick(n), 1..n, c) /\ n \in Nat
    BY <1>0, <1>2, <1>6
  <2> HIDE DEF P, S, n
  <2>2. \E h : RightPath(n, Invs, base, step, h, c[1..n])
    BY <1>1, <2>1, RightRun
  <2> QED BY <2>2 DEF S, RightPath
<1>13. \A k \in 1..n : h[k] = Back(p, h[k + 1], goods[k])
  <2>1. \A k \in 1..n : h[k + 1] \in Invs
    BY <1>0
  <2> QED BY <1>3, <1>12, <2>1
<1>14. Restore(inv, p, goods) = h[1]
  BY <1>0, <1>4, <1>11, <1>12 DEF d
<1> QED
  BY <1>12, <1>13, <1>14 DEF RestoreRun, base


----------------------------------------------------------------------------
(* Counting goods on their way and copies in the containers *)

Bit(b) == IF b THEN 1 ELSE 0

(* How many of the goods numbered a to b belong to G. *)
Tally(goods, a, b, G) == Cardinality({k \in a..b : goods[k] \in G})

Kind(y) == {g \in Taken : g.item = y}
Origin(c) == {g \in Taken : g.from = c}

LEMMA TallyType ==
  ASSUME NEW goods, NEW a \in Int, NEW b \in Int, NEW G
  PROVE  /\ Tally(goods, a, b, G) \in Nat
         /\ IsFiniteSet({k \in a..b : goods[k] \in G})
         /\ a > b => Tally(goods, a, b, G) = 0
<1> DEFINE K == {k \in a..b : goods[k] \in G}
<1>1. IsFiniteSet(K)
  <2>1. IsFiniteSet(a..b) /\ K \in SUBSET (a..b)
    BY FS_Interval
  <2> HIDE DEF K
  <2> QED BY <2>1, FS_Subset
<1>2. Cardinality(K) \in Nat
  <2> HIDE DEF K
  <2> QED BY <1>1, FS_CardinalityType
<1>3. a > b => K = {}
  OBVIOUS
<1>4. a > b => Cardinality(K) = 0
  <2> HIDE DEF K
  <2> QED BY <1>3, FS_EmptySet
<1> QED
  BY <1>1, <1>2, <1>4 DEF Tally

LEMMA TallyNat ==
  ASSUME NEW goods, NEW n \in Nat, NEW G
  PROVE  Tally(goods, 1, n, G) \in Nat
<1>1. 1 \in Int /\ n \in Int
  OBVIOUS
<1> QED BY <1>1, TallyType, Zenon

LEMMA TallyLast ==
  ASSUME NEW goods, NEW a \in Int, NEW b \in Int, a <= b, NEW G
  PROVE  Tally(goods, a, b, G) = Tally(goods, a, b - 1, G) + Bit(goods[b] \in G)
<1> DEFINE K == {k \in a..(b - 1) : goods[k] \in G}
           L == {k \in a..b : goods[k] \in G}
<1>1. IsFiniteSet(K) /\ Cardinality(K) \in Nat
  <2>1. b - 1 \in Int
    OBVIOUS
  <2> QED BY <2>1, TallyType DEF Tally
<1>2. b \notin K /\ L = IF goods[b] \in G THEN K \cup {b} ELSE K
  OBVIOUS
<1> HIDE DEF K, L
<1>3. Cardinality(K \cup {b}) = Cardinality(K) + 1
  BY <1>1, <1>2, FS_AddElement
<1>4. Cardinality(L) = Cardinality(K) + Bit(goods[b] \in G)
  BY <1>1, <1>2, <1>3 DEF Bit
<1> QED
  BY <1>4 DEF Tally, K, L

LEMMA TallyFirst ==
  ASSUME NEW goods, NEW a \in Int, NEW b \in Int, a <= b, NEW G
  PROVE  Tally(goods, a, b, G) = Tally(goods, a + 1, b, G) + Bit(goods[a] \in G)
<1> DEFINE K == {k \in (a + 1)..b : goods[k] \in G}
           L == {k \in a..b : goods[k] \in G}
<1>1. IsFiniteSet(K) /\ Cardinality(K) \in Nat
  <2>1. a + 1 \in Int
    OBVIOUS
  <2> QED BY <2>1, TallyType DEF Tally
<1>2. a \notin K /\ L = IF goods[a] \in G THEN K \cup {a} ELSE K
  OBVIOUS
<1> HIDE DEF K, L
<1>3. Cardinality(K \cup {a}) = Cardinality(K) + 1
  BY <1>1, <1>2, FS_AddElement
<1>4. Cardinality(L) = Cardinality(K) + Bit(goods[a] \in G)
  BY <1>1, <1>2, <1>3 DEF Bit
<1> QED
  BY <1>4 DEF Tally, K, L

LEMMA TallySuffix ==
  ASSUME NEW goods, NEW a \in Int, NEW b \in Int, NEW k \in Int, a <= k, NEW G
  PROVE  Tally(goods, k, b, G) <= Tally(goods, a, b, G)
<1> DEFINE K == {j \in k..b : goods[j] \in G}
           L == {j \in a..b : goods[j] \in G}
<1>1. IsFiniteSet(L) /\ K \in SUBSET L
  <2>1. IsFiniteSet(L)
    BY TallyType
  <2>2. \A j \in k..b : j \in a..b
    OBVIOUS
  <2> QED BY <2>1, <2>2
<1> HIDE DEF K, L
<1>2. Cardinality(K) <= Cardinality(L)
  BY <1>1, FS_Subset
<1> QED
  BY <1>2 DEF Tally, K, L

LEMMA TallyAppend ==
  ASSUME NEW goods \in Seq(Taken), NEW g \in Taken, NEW G
  PROVE  Tally(Append(goods, g), 1, Len(Append(goods, g)), G)
            = Tally(goods, 1, Len(goods), G) + Bit(g \in G)
<1> DEFINE n == Len(goods)
           more == Append(goods, g)
<1>1. /\ n \in Nat /\ Len(more) = n + 1 /\ more[n + 1] = g
      /\ \A k \in 1..n : more[k] = goods[k]
  BY AppendProperties, LenProperties
<1> HIDE DEF n, more
<1>2. Tally(more, 1, n + 1, G) = Tally(more, 1, n, G) + Bit(g \in G)
  <2>1. Tally(more, 1, n + 1, G) = Tally(more, 1, (n + 1) - 1, G) + Bit(more[n + 1] \in G)
    BY <1>1, TallyLast
  <2>2. (n + 1) - 1 = n
    BY <1>1
  <2> QED BY <1>1, <2>1, <2>2
<1>3. Tally(more, 1, n, G) = Tally(goods, 1, n, G)
  <2>1. {k \in 1..n : more[k] \in G} = {k \in 1..n : goods[k] \in G}
    BY <1>1
  <2> QED BY <2>1 DEF Tally
<1> QED
  BY <1>1, <1>2, <1>3 DEF n, more


Fits(inv) == \A p \in Players : \A c \in DOMAIN inv[p] : Len(inv[p][c]) <= Capacity[c]

Count(inv, y) == Cardinality(Copies(inv, y))

LEMMA PlaceFinite == IsFiniteSet(Place)
<1>1. IsFiniteSet(Indices)
  <2> DEFINE Spans == {1..Capacity[c] : c \in ContainerIds}
             f == [c \in ContainerIds |-> 1..Capacity[c]]
  <2>1. IsFiniteSet(Spans)
    <3>1. f \in Surjection(ContainerIds, Spans)
      BY DEF Surjection
    <3> HIDE DEF f, Spans
    <3> QED BY <3>1, FS_Surjection, TradeAssumption DEF ExistsSurjection
  <2>2. \A T \in Spans : IsFiniteSet(T)
    BY FS_Interval, TradeAssumption
  <2> HIDE DEF Spans
  <2> QED BY <2>1, <2>2, FS_UNION DEF Indices, Spans
<1>2. IsFiniteSet(Players \X (ContainerIds \X Indices))
  BY <1>1, FS_Product, TradeAssumption
<1> DEFINE D == Players \X (ContainerIds \X Indices)
           f == [d \in D |-> [owner |-> d[1], container |-> d[2][1], index |-> d[2][2]]]
<1>3. f \in Surjection(D, Place)
  <2>1. f \in [D -> Place]
    BY DEF Place
  <2>2. ASSUME NEW s \in Place PROVE \E d \in D : f[d] = s
    <3>1. <<s.owner, <<s.container, s.index>>>> \in D
      BY DEF Place
    <3>2. f[<<s.owner, <<s.container, s.index>>>>] = s
      BY <3>1 DEF Place
    <3> QED BY <3>1, <3>2
  <2> QED BY <2>1, <2>2 DEF Surjection
<1> HIDE DEF f, D
<1> QED
  BY <1>2, <1>3, FS_Surjection DEF ExistsSurjection, D

LEMMA CopiesAre ==
  ASSUME NEW inv \in Invs, NEW y
  PROVE  /\ IsFiniteSet(Copies(inv, y)) /\ Count(inv, y) \in Nat
         /\ \A s : s \in Copies(inv, y) <=>
                      /\ s \in Place
                      /\ s.container \in DOMAIN inv[s.owner]
                      /\ s.index \in 1..Len(inv[s.owner][s.container])
                      /\ inv[s.owner][s.container][s.index] = y
<1>1. IsFiniteSet(Copies(inv, y))
  BY PlaceFinite, FS_Subset DEF Copies
<1>2. \A s \in Place : s.owner \in Players /\ s.index \in Nat \ {0}
  BY TradeAssumption DEF Place, Indices
<1>3. \A s \in Place : s.container \in DOMAIN inv[s.owner] =>
                          Len(inv[s.owner][s.container]) \in Nat
  BY <1>2, InvFields
<1> QED
  BY <1>1, <1>2, <1>3, FS_CardinalityType DEF Copies, Has, ItemAt, Count

LEMMA CopiesAppend ==
  ASSUME NEW inv \in Invs, NEW jnv \in Invs, NEW p \in Players, NEW c \in DOMAIN inv[p],
         NEW x \in Items, NEW y, Replaces(inv, jnv, p, c, Append(inv[p][c], x)),
         Len(inv[p][c]) < Capacity[c]
  PROVE  Count(jnv, y) = Count(inv, y) + Bit(x = y)
<1> DEFINE A == Copies(inv, y)
           B == Copies(jnv, y)
           n == Len(inv[p][c])
           new == [owner |-> p, container |-> c, index |-> n + 1]
<1>0. /\ c \in ContainerIds /\ inv[p][c] \in Seq(Items) /\ n \in Nat
      /\ Capacity[c] \in Nat
  BY InvFields, TradeAssumption
<1>1. /\ Len(jnv[p][c]) = n + 1 /\ jnv[p][c][n + 1] = x
      /\ \A k \in 1..n : jnv[p][c][k] = inv[p][c][k]
  <2>1. jnv[p][c] = Append(inv[p][c], x)
    BY DEF Replaces
  <2> QED BY <1>0, <2>1, AppendProperties
<1>2. new \in Place
  <2>1. n + 1 \in 1..Capacity[c]
    BY <1>0
  <2> QED BY <1>0, <2>1 DEF Place, Indices
<1>3. new \notin A
  BY <1>0, CopiesAre
<1>4. new \in B <=> x = y
  BY <1>0, <1>1, <1>2, CopiesAre DEF Replaces
<1>5. ASSUME NEW s \in Place, s # new PROVE s \in A <=> s \in B
  <2>0. s.owner \in Players /\ s.container \in ContainerIds /\ s.index \in Nat
    BY TradeAssumption DEF Place, Indices
  <2>1. CASE s.owner = p /\ s.container = c
    <3>1. s.index # n + 1
      BY <1>0, <1>5, <2>1 DEF Place
    <3>2. s.index \in 1..(n + 1) <=> s.index \in 1..n
      BY <1>0, <2>0, <3>1
    <3>3. s \in A <=> s.index \in 1..n /\ inv[p][c][s.index] = y
      BY <1>5, <2>1, CopiesAre
    <3>4. s \in B <=> s.index \in 1..(n + 1) /\ jnv[p][c][s.index] = y
      <4>1. c \in DOMAIN jnv[p]
        BY DEF Replaces
      <4> QED BY <1>1, <1>5, <2>1, <4>1, CopiesAre
    <3> HIDE DEF A, B, new
    <3> QED BY <1>1, <3>2, <3>3, <3>4
  <2>2. CASE ~(s.owner = p /\ s.container = c)
    <3>1. DOMAIN jnv[s.owner] = DOMAIN inv[s.owner]
      BY <2>0 DEF Replaces
    <3>2. s.container \in DOMAIN inv[s.owner] =>
             jnv[s.owner][s.container] = inv[s.owner][s.container]
      BY <2>0, <2>2 DEF Replaces
    <3> QED BY <3>1, <3>2, CopiesAre
  <2> QED BY <2>1, <2>2
<1>6. B = IF x = y THEN A \cup {new} ELSE A
  <2>1. A \subseteq Place /\ B \subseteq Place
    BY DEF Copies
  <2> HIDE DEF A, B, new
  <2>2. CASE x = y
    <3>1. \A s : s \in B <=> s \in A \/ s = new
      BY <1>3, <1>4, <1>5, <2>1, <2>2
    <3> QED BY <2>2, <3>1
  <2>3. CASE x # y
    <3>1. \A s : s \in B <=> s \in A
      BY <1>3, <1>4, <1>5, <2>1, <2>3
    <3> QED BY <2>3, <3>1
  <2> QED BY <2>2, <2>3
<1>7. IsFiniteSet(A) /\ Cardinality(A) \in Nat
  BY CopiesAre DEF Count
<1> HIDE DEF A, B, new
<1>8. Cardinality(A \cup {new}) = Cardinality(A) + 1
  BY <1>3, <1>7, FS_AddElement
<1>9. Cardinality(B) = Cardinality(A) + Bit(x = y)
  BY <1>6, <1>7, <1>8 DEF Bit
<1> QED
  BY <1>9 DEF Count, A, B


LEMMA CopiesRemove ==
  ASSUME NEW inv \in Invs, NEW jnv \in Invs, NEW p \in Players, NEW c \in DOMAIN inv[p],
         NEW i \in 1..Len(inv[p][c]), NEW y,
         Replaces(inv, jnv, p, c, RemoveAt(inv[p][c], i)), Fits(inv)
  PROVE  Count(inv, y) = Count(jnv, y) + Bit(inv[p][c][i] = y)
<1> DEFINE n == Len(inv[p][c])
           A == Copies(inv, y)
           B == Copies(jnv, y)
           gone == [owner |-> p, container |-> c, index |-> i]
           There(s) == s.owner = p /\ s.container = c
           Up(s) == [owner |-> s.owner, container |-> s.container,
                     index |-> IF There(s) /\ s.index >= i THEN s.index + 1 ELSE s.index]
           Down(s) == [owner |-> s.owner, container |-> s.container,
                       index |-> IF There(s) /\ s.index > i THEN s.index - 1 ELSE s.index]
           f == [s \in B |-> Up(s)]
<1>0. /\ c \in ContainerIds /\ inv[p][c] \in Seq(Items) /\ n \in Nat
      /\ Capacity[c] \in Nat /\ n <= Capacity[c]
  BY InvFields, TradeAssumption DEF Fits
<1>1. /\ Len(jnv[p][c]) = n - 1 /\ c \in DOMAIN jnv[p]
      /\ \A j \in 1..(n - 1) : jnv[p][c][j] = IF j < i THEN inv[p][c][j] ELSE inv[p][c][j + 1]
  BY <1>0, RemoveAtIs DEF Replaces
<1>2. \A s \in Place : /\ s.owner \in Players /\ s.container \in ContainerIds
                       /\ s.index \in Indices /\ s.index \in Nat \ {0}
                       /\ s = [owner |-> s.owner, container |-> s.container, index |-> s.index]
  BY TradeAssumption DEF Place, Indices
<1>3. 1..n \subseteq Indices
  <2>1. 1..n \subseteq 1..Capacity[c]
    BY <1>0
  <2> QED BY <1>0, <2>1 DEF Indices
<1>4. \A s \in Place : ~There(s) => (s \in A <=> s \in B)
  <2> SUFFICES ASSUME NEW s \in Place, ~There(s) PROVE s \in A <=> s \in B
    OBVIOUS
  <2>1. DOMAIN jnv[s.owner] = DOMAIN inv[s.owner]
    BY <1>2 DEF Replaces
  <2>2. s.container \in DOMAIN inv[s.owner] =>
           jnv[s.owner][s.container] = inv[s.owner][s.container]
    BY <1>2 DEF Replaces
  <2> QED BY <2>1, <2>2, CopiesAre
<1>5. \A s \in Place : There(s) =>
          /\ s \in A <=> s.index \in 1..n /\ inv[p][c][s.index] = y
          /\ s \in B <=> s.index \in 1..(n - 1) /\ jnv[p][c][s.index] = y
  <2> SUFFICES ASSUME NEW s \in Place, There(s)
               PROVE  /\ s \in A <=> s.index \in 1..n /\ inv[p][c][s.index] = y
                      /\ s \in B <=> s.index \in 1..(n - 1) /\ jnv[p][c][s.index] = y
    OBVIOUS
  <2>1. s \in A <=> s.index \in 1..n /\ inv[p][c][s.index] = y
    BY CopiesAre
  <2>2. s \in B <=> s.index \in 1..Len(jnv[p][c]) /\ jnv[p][c][s.index] = y
    BY <1>1, CopiesAre
  <2> QED BY <1>1, <2>1, <2>2
<1>6. A \subseteq Place /\ B \subseteq Place /\ gone \in Place /\ There(gone) /\ gone.index = i
  BY <1>0, <1>3 DEF Copies, Place
<1> HIDE DEF A, B
<1>7. ASSUME NEW s \in B PROVE Up(s) \in A \ {gone} /\ Down(Up(s)) = s
  <2>1. s \in Place
    BY <1>6
  <2>2. CASE ~There(s)
    <3>1. Up(s) = s /\ Down(s) = s /\ s # gone
      BY <1>2, <2>1, <2>2
    <3> QED BY <1>4, <2>1, <2>2, <3>1
  <2>3. CASE There(s)
    <3> DEFINE j == s.index
               k == IF j >= i THEN j + 1 ELSE j
               u == [owner |-> p, container |-> c, index |-> k]
    <3>1. j \in 1..(n - 1) /\ jnv[p][c][j] = y
      BY <1>5, <2>1, <2>3
    <3>2. k \in 1..n /\ k # i /\ inv[p][c][k] = y
      <4> HIDE DEF j, A, B
      <4>1. CASE j < i
        BY <1>0, <1>1, <3>1, <4>1
      <4>2. CASE j >= i
        BY <1>0, <1>1, <3>1, <4>2
      <4> QED BY <1>0, <3>1, <4>1, <4>2
    <3>3. Up(s) = u
      BY <2>3
    <3>4. u \in Place /\ There(u) /\ u.index = k
      BY <1>0, <1>3, <3>2 DEF Place
    <3>5. u \in A /\ u # gone
      BY <1>5, <1>6, <3>2, <3>4
    <3>6. Down(u) = s
      <4>1. Down(u).index = j
        BY <1>0, <3>1, <3>4
      <4>2. Down(u) = [owner |-> p, container |-> c, index |-> j]
        BY <4>1
      <4> QED BY <1>2, <2>1, <2>3, <4>2
    <3> QED BY <3>3, <3>5, <3>6
  <2> QED BY <2>2, <2>3
<1>8. ASSUME NEW s \in A \ {gone} PROVE Down(s) \in B /\ Up(Down(s)) = s
  <2>1. s \in Place /\ s \in A /\ s # gone
    BY <1>6
  <2>2. CASE ~There(s)
    <3>1. Up(s) = s /\ Down(s) = s
      BY <1>2, <2>1, <2>2
    <3> QED BY <1>4, <2>1, <2>2, <3>1
  <2>3. CASE There(s)
    <3> DEFINE j == s.index
               k == IF j > i THEN j - 1 ELSE j
               u == [owner |-> p, container |-> c, index |-> k]
    <3>1. j \in 1..n /\ inv[p][c][j] = y
      BY <1>5, <2>1, <2>3
    <3>2. j # i
      BY <1>2, <2>1, <2>3
    <3>3. k \in 1..(n - 1) /\ jnv[p][c][k] = y
      <4> HIDE DEF j
      <4>1. CASE j < i
        <5>1. k = j /\ j \in 1..(n - 1)
          BY <1>0, <3>1, <4>1
        <5> HIDE DEF k
        <5> QED BY <1>1, <3>1, <4>1, <5>1
      <4>2. CASE j > i
        <5>1. k = j - 1 /\ k \in 1..(n - 1) /\ ~(k < i) /\ k + 1 = j
          BY <1>0, <3>1, <4>2
        <5> HIDE DEF k
        <5> QED BY <1>1, <3>1, <5>1
      <4> QED BY <1>0, <3>1, <3>2, <4>1, <4>2
    <3>4. Down(s) = u
      BY <2>3
    <3>5. u \in Place /\ There(u) /\ u.index = k
      <4>1. k \in 1..n
        BY <1>0, <3>3
      <4> QED BY <1>0, <1>3, <4>1 DEF Place
    <3>6. u \in B
      BY <1>5, <3>3, <3>5
    <3>7. Up(u) = s
      <4>1. Up(u).index = j
        BY <1>0, <3>1, <3>2, <3>5
      <4>2. Up(u) = [owner |-> p, container |-> c, index |-> j]
        BY <4>1
      <4> QED BY <1>2, <2>1, <2>3, <4>2
    <3> QED BY <3>4, <3>6, <3>7
  <2> QED BY <2>2, <2>3
<1>9. f \in Bijection(B, A \ {gone})
  <2> HIDE DEF Up, Down, gone
  <2>1. f \in [B -> A \ {gone}]
    BY <1>7
  <2>2. \A s, t \in B : f[s] = f[t] => s = t
    <3>1. \A s \in B : Down(f[s]) = s
      BY <1>7
    <3> QED BY <3>1
  <2>3. \A t \in A \ {gone} : \E s \in B : f[s] = t
    BY <1>8
  <2> QED BY <2>1, <2>2, <2>3 DEF Bijection, Injection, Surjection, IsInjective
<1>10. IsFiniteSet(A) /\ IsFiniteSet(B) /\ Cardinality(A) \in Nat /\ Cardinality(B) \in Nat
  BY CopiesAre DEF A, B, Count
<1> HIDE DEF f, gone
<1>11. Cardinality(A \ {gone}) = Cardinality(B)
  BY <1>9, <1>10, FS_Bijection DEF ExistsBijection
<1>12. gone \in A <=> inv[p][c][i] = y
  BY <1>0, <1>5, <1>6
<1>13. Cardinality(A \ {gone}) = IF gone \in A THEN Cardinality(A) - 1 ELSE Cardinality(A)
  BY <1>10, FS_RemoveElement
<1>14. Cardinality(A) = Cardinality(B) + Bit(inv[p][c][i] = y)
  BY <1>10, <1>11, <1>12, <1>13 DEF Bit
<1> QED
  BY <1>14 DEF Count, A, B


LEMMA HeldIs ==
  ASSUME NEW inv \in Invs, NEW p \in Players
  PROVE  \A y : y \in Held(inv, p) <=>
                   \E c \in DOMAIN inv[p] : \E j \in 1..Len(inv[p][c]) : inv[p][c][j] = y
<1>1. \A c \in DOMAIN inv[p] : Range(inv[p][c]) = {inv[p][c][j] : j \in 1..Len(inv[p][c])}
  BY InvFields DEF Range
<1>2. \A y : y \in Held(inv, p) <=> \E c \in DOMAIN inv[p] : y \in Range(inv[p][c])
  BY Zenon DEF Held
<1>3. \A c \in DOMAIN inv[p] : \A y :
         y \in Range(inv[p][c]) <=> \E j \in 1..Len(inv[p][c]) : inv[p][c][j] = y
  BY <1>1
<1> QED
  BY <1>2, <1>3

LEMMA HeldAppend ==
  ASSUME NEW inv \in Invs, NEW jnv \in Invs, NEW p \in Players, NEW c \in DOMAIN inv[p],
         NEW x \in Items, Replaces(inv, jnv, p, c, Append(inv[p][c], x))
  PROVE  Held(jnv, p) = Held(inv, p) \cup {x}
<1> DEFINE n == Len(inv[p][c])
<1>0. inv[p][c] \in Seq(Items) /\ n \in Nat
  BY InvFields
<1>1. /\ Len(jnv[p][c]) = n + 1 /\ jnv[p][c][n + 1] = x
      /\ \A k \in 1..n : jnv[p][c][k] = inv[p][c][k]
  <2>1. jnv[p][c] = Append(inv[p][c], x)
    BY DEF Replaces
  <2> QED BY <1>0, <2>1, AppendProperties
<1>2. DOMAIN jnv[p] = DOMAIN inv[p] /\ \A d \in DOMAIN inv[p] \ {c} : jnv[p][d] = inv[p][d]
  BY DEF Replaces
<1>3. ASSUME NEW y \in Held(jnv, p) PROVE y \in Held(inv, p) \cup {x}
  <2>0. PICK d \in DOMAIN jnv[p] : \E j \in 1..Len(jnv[p][d]) : jnv[p][d][j] = y
    BY <1>3, HeldIs
  <2>1. PICK j \in 1..Len(jnv[p][d]) : jnv[p][d][j] = y
    BY <2>0
  <2>2. CASE d # c
    BY <1>2, <2>1, <2>2, HeldIs
  <2>3. CASE d = c
    <3>1. CASE j = n + 1
      BY <1>1, <2>1, <2>3, <3>1
    <3>2. CASE j # n + 1
      <4>1. j \in 1..n
        BY <1>0, <1>1, <2>3, <3>2
      <4>2. inv[p][c][j] = y
        BY <1>1, <2>1, <2>3, <4>1
      <4> QED BY <4>1, <4>2, HeldIs
    <3> QED BY <3>1, <3>2
  <2> QED BY <2>2, <2>3
<1>4. ASSUME NEW y \in Held(inv, p) PROVE y \in Held(jnv, p)
  <2>0. PICK d \in DOMAIN inv[p] : \E j \in 1..Len(inv[p][d]) : inv[p][d][j] = y
    BY <1>4, HeldIs
  <2>1. PICK j \in 1..Len(inv[p][d]) : inv[p][d][j] = y
    BY <2>0
  <2>2. CASE d # c
    BY <1>2, <2>1, <2>2, HeldIs
  <2>3. CASE d = c
    <3>1. j \in 1..Len(jnv[p][c]) /\ jnv[p][c][j] = y
      BY <1>0, <1>1, <2>1, <2>3
    <3> QED BY <1>2, <3>1, HeldIs
  <2> QED BY <2>2, <2>3
<1>5. x \in Held(jnv, p)
  <2>1. n + 1 \in 1..Len(jnv[p][c]) /\ c \in DOMAIN jnv[p]
    BY <1>0, <1>1, <1>2
  <2> QED BY <1>1, <2>1, HeldIs
<1> QED
  BY <1>3, <1>4, <1>5

LEMMA HeldRemove ==
  ASSUME NEW inv \in Invs, NEW jnv \in Invs, NEW p \in Players, NEW c \in DOMAIN inv[p],
         NEW i \in 1..Len(inv[p][c]), Replaces(inv, jnv, p, c, RemoveAt(inv[p][c], i))
  PROVE  Held(jnv, p) \cup {inv[p][c][i]} = Held(inv, p)
<1> DEFINE n == Len(inv[p][c])
           x == inv[p][c][i]
<1>0. inv[p][c] \in Seq(Items) /\ n \in Nat
  BY InvFields
<1>1. /\ Len(jnv[p][c]) = n - 1
      /\ \A j \in 1..(n - 1) : jnv[p][c][j] = IF j < i THEN inv[p][c][j] ELSE inv[p][c][j + 1]
  BY <1>0, RemoveAtIs DEF Replaces
<1>2. DOMAIN jnv[p] = DOMAIN inv[p] /\ \A d \in DOMAIN inv[p] \ {c} : jnv[p][d] = inv[p][d]
  BY DEF Replaces
<1>3. ASSUME NEW y \in Held(jnv, p) PROVE y \in Held(inv, p)
  <2>0. PICK d \in DOMAIN jnv[p] : \E j \in 1..Len(jnv[p][d]) : jnv[p][d][j] = y
    BY <1>3, HeldIs
  <2>1. PICK j \in 1..Len(jnv[p][d]) : jnv[p][d][j] = y
    BY <2>0
  <2>2. CASE d # c
    BY <1>2, <2>1, <2>2, HeldIs
  <2>3. CASE d = c
    <3>1. j \in 1..(n - 1)
      BY <1>1, <2>1, <2>3
    <3>2. PICK k \in {j, j + 1} : jnv[p][c][j] = inv[p][c][k]
      BY <1>1, <3>1
    <3>3. k \in 1..n
      BY <1>0, <3>1, <3>2
    <3> QED BY <2>1, <2>3, <3>2, <3>3, HeldIs
  <2> QED BY <2>2, <2>3
<1>4. ASSUME NEW y \in Held(inv, p), y # x PROVE y \in Held(jnv, p)
  <2>0. PICK d \in DOMAIN inv[p] : \E j \in 1..Len(inv[p][d]) : inv[p][d][j] = y
    BY <1>4, HeldIs
  <2>1. PICK j \in 1..Len(inv[p][d]) : inv[p][d][j] = y
    BY <2>0
  <2>2. CASE d # c
    BY <1>2, <2>1, <2>2, HeldIs
  <2>3. CASE d = c
    <3>1. j \in 1..n /\ j # i
      BY <1>4, <2>1, <2>3
    <3>2. \E k \in 1..(n - 1) : jnv[p][c][k] = inv[p][c][j]
      <4>1. CASE j < i
        <5>1. j \in 1..(n - 1)
          BY <1>0, <3>1, <4>1
        <5> QED BY <1>1, <4>1, <5>1
      <4>2. CASE j > i
        <5>1. j - 1 \in 1..(n - 1) /\ ~(j - 1 < i) /\ (j - 1) + 1 = j
          BY <1>0, <3>1, <4>2
        <5>2. jnv[p][c][j - 1] = inv[p][c][(j - 1) + 1]
          BY <1>1, <5>1
        <5> QED BY <5>1, <5>2
      <4> QED BY <1>0, <3>1, <4>1, <4>2
    <3>3. PICK k \in 1..(n - 1) : jnv[p][c][k] = y
      BY <2>1, <2>3, <3>2
    <3> QED BY <1>1, <1>2, <3>3, HeldIs
  <2> QED BY <2>2, <2>3
<1>5. x \in Held(inv, p)
  BY HeldIs
<1> QED
  BY <1>3, <1>4, <1>5


----------------------------------------------------------------------------
(* What removals, deliveries and restores do to the inventories *)

Others(inv, jnv, p) ==
    /\ \A q \in Players : DOMAIN jnv[q] = DOMAIN inv[q]
    /\ \A q \in Players \ {p} : jnv[q] = inv[q]

Things(goods, n) == {goods[k].item : k \in 1..n}

(* t is what remove_offered has made of the inventories inv so far: what is *)
(* missing from p is among the goods.                                        *)
TookFrom(inv, t, p) ==
    /\ Fits(t.inv) /\ Others(inv, t.inv, p)
    /\ Held(t.inv, p) \cup Things(t.goods, Len(t.goods)) = Held(inv, p)
    /\ \A y \in Items :
          Count(inv, y) = Count(t.inv, y) + Tally(t.goods, 1, Len(t.goods), Kind(y))
    /\ \A c \in DOMAIN inv[p] :
          Len(inv[p][c]) = Len(t.inv[p][c]) + Tally(t.goods, 1, Len(t.goods), Origin(c))

LEMMA TookNothing ==
  ASSUME NEW inv \in Invs, NEW p \in Players, Fits(inv)
  PROVE  TookFrom(inv, TakeStart(inv), p)
<1> DEFINE t == TakeStart(inv)
<1>1. t.inv = inv /\ t.goods = <<>> /\ Len(t.goods) = 0
  BY DEF TakeStart
<1>2. \A G : Tally(<<>>, 1, 0, G) = 0
  <2>1. 1 \in Int /\ 0 \in Int /\ 1 > 0
    OBVIOUS
  <2> QED BY <2>1, TallyType, Zenon
<1>3. \A y : Count(inv, y) \in Nat
  BY CopiesAre
<1>4. \A c \in DOMAIN inv[p] : Len(inv[p][c]) \in Nat
  BY InvFields
<1>5. Things(<<>>, 0) = {}
  BY DEF Things
<1>6. TookFrom(inv, t, p)
  <2> HIDE DEF t
  <2> QED BY <1>1, <1>2, <1>3, <1>4, <1>5 DEF TookFrom, Others
<1> QED
  BY <1>6

LEMMA TookOneMore ==
  ASSUME NEW inv \in Invs, NEW p \in Players, NEW t \in Taking, NEW r \in Reference,
         TookFrom(inv, t, p)
  PROVE  TookFrom(inv, TakeOne(p, t, r), p)
<1> DEFINE u == TakeOne(p, t, r)
           c == r.container
           i == r.index
           s == t.inv[p][c]
           g == [from |-> c, item |-> ItemAt(t.inv, p, r)]
<1>0. t.inv \in Invs /\ t.goods \in Seq(Taken) /\ Len(t.goods) \in Nat
  BY LenProperties DEF Taking
<1>1. CASE ~(t.ok /\ Has(t.inv, p, r))
  <2>1. u.inv = t.inv /\ u.goods = t.goods
    BY <1>1, TakeOneIs
  <2>2. TookFrom(inv, u, p)
    <3> HIDE DEF u
    <3> QED BY <2>1 DEF TookFrom
  <2> QED BY <2>2
<1>2. CASE t.ok /\ Has(t.inv, p, r)
  <2>1. /\ u \in Taking /\ u.inv \in Invs
        /\ Replaces(t.inv, u.inv, p, c, RemoveAt(s, i))
        /\ g \in Taken /\ u.goods = Append(t.goods, g)
    BY <1>2, TakeOneIs DEF Replaces
  <2>2. /\ c \in DOMAIN t.inv[p] /\ s \in Seq(Items) /\ i \in 1..Len(s) /\ Len(s) \in Nat
        /\ g.from = c /\ g.item = s[i]
    <3>1. c \in DOMAIN t.inv[p] /\ i <= Len(t.inv[p][c]) /\ i \in Nat \ {0}
      BY <1>2 DEF Has, Reference
    <3>2. s \in Seq(Items) /\ Len(s) \in Nat
      BY <1>0, <3>1, InvFields
    <3> QED BY <3>1, <3>2 DEF ItemAt
  <2>3. Others(t.inv, u.inv, p)
    BY <2>1 DEF Replaces, Others
  <2>4. Others(inv, u.inv, p)
    BY <2>3 DEF Others, TookFrom
  <2>5. Len(u.inv[p][c]) = Len(s) - 1
    <3>1. u.inv[p][c] = RemoveAt(s, i)
      BY <2>1 DEF Replaces
    <3> HIDE DEF u, s, i, c
    <3> QED BY <2>2, <3>1, RemoveAtIs
  <2>6. \A d \in DOMAIN t.inv[p] \ {c} : u.inv[p][d] = t.inv[p][d]
    BY <2>1 DEF Replaces
  <2>7. Fits(u.inv)
    <3> SUFFICES ASSUME NEW q \in Players, NEW d \in DOMAIN u.inv[q]
                 PROVE  Len(u.inv[q][d]) <= Capacity[d]
      BY DEF Fits
    <3>0. d \in DOMAIN t.inv[q] /\ Len(t.inv[q][d]) <= Capacity[d]
      BY <2>3 DEF Others, TookFrom, Fits
    <3>1. CASE q = p /\ d = c
      <4>1. Capacity[c] \in Nat
        BY TradeAssumption, <1>0, <2>2, InvFields
      <4> QED BY <2>2, <2>5, <3>0, <3>1, <4>1
    <3>2. CASE ~(q = p /\ d = c)
      <4>1. u.inv[q][d] = t.inv[q][d]
        BY <2>3, <2>6, <3>0, <3>2 DEF Others
      <4> QED BY <3>0, <4>1
    <3> QED BY <3>1, <3>2
  <2>8. /\ Len(u.goods) = Len(t.goods) + 1
        /\ \A G : Tally(u.goods, 1, Len(u.goods), G)
                     = Tally(t.goods, 1, Len(t.goods), G) + Bit(g \in G)
    BY <1>0, <2>1, AppendProperties, TallyAppend
  <2>9. Things(u.goods, Len(u.goods)) = Things(t.goods, Len(t.goods)) \cup {s[i]}
    <3>1. /\ u.goods[Len(t.goods) + 1] = g
          /\ \A k \in 1..Len(t.goods) : u.goods[k] = t.goods[k]
      BY <1>0, <2>1, AppendProperties
    <3>2. 1..Len(u.goods) = (1..Len(t.goods)) \cup {Len(t.goods) + 1}
      BY <1>0, <2>8
    <3> HIDE DEF u, g, s, i, c
    <3>3. \A x : x \in Things(u.goods, Len(u.goods)) <=>
                    \E k \in (1..Len(t.goods)) \cup {Len(t.goods) + 1} : x = u.goods[k].item
      BY <3>2 DEF Things
    <3>4. \A x : x \in Things(t.goods, Len(t.goods)) <=>
                    \E k \in 1..Len(t.goods) : x = t.goods[k].item
      BY DEF Things
    <3>5. \A x : x \in Things(u.goods, Len(u.goods)) <=>
                    x \in Things(t.goods, Len(t.goods)) \/ x = s[i]
      <4>1. u.goods[Len(t.goods) + 1].item = s[i]
        BY <2>2, <3>1
      <4>2. \A k \in 1..Len(t.goods) : u.goods[k].item = t.goods[k].item
        BY <3>1
      <4>3. ASSUME NEW x PROVE (\E k \in (1..Len(t.goods)) \cup {Len(t.goods) + 1} : x = u.goods[k].item)
                               <=> (\E k \in 1..Len(t.goods) : x = t.goods[k].item) \/ x = s[i]
        <5>1. (\E k \in (1..Len(t.goods)) \cup {Len(t.goods) + 1} : x = u.goods[k].item)
                 <=> (\E k \in 1..Len(t.goods) : x = u.goods[k].item)
                     \/ x = u.goods[Len(t.goods) + 1].item
          BY Zenon
        <5>2. (\E k \in 1..Len(t.goods) : x = u.goods[k].item)
                 <=> (\E k \in 1..Len(t.goods) : x = t.goods[k].item)
          BY <4>2, Zenon
        <5> QED BY <4>1, <5>1, <5>2, Zenon
      <4> QED BY <3>3, <3>4, <4>3, Zenon
    <3> QED BY <3>5
  <2>10. Held(u.inv, p) \cup {s[i]} = Held(t.inv, p)
    BY <1>0, <2>1, <2>2, HeldRemove
  <2>11. ASSUME NEW y \in Items
         PROVE  Count(inv, y) = Count(u.inv, y) + Tally(u.goods, 1, Len(u.goods), Kind(y))
    <3>1. Count(t.inv, y) = Count(u.inv, y) + Bit(s[i] = y)
      BY <1>0, <2>1, <2>2, CopiesRemove DEF TookFrom
    <3>2. g \in Kind(y) <=> s[i] = y
      BY <2>1, <2>2 DEF Kind
    <3>3. Tally(u.goods, 1, Len(u.goods), Kind(y))
             = Tally(t.goods, 1, Len(t.goods), Kind(y)) + Bit(s[i] = y)
      BY <2>8, <3>2 DEF Bit
    <3>4. Count(inv, y) = Count(t.inv, y) + Tally(t.goods, 1, Len(t.goods), Kind(y))
      BY DEF TookFrom
    <3>5. /\ Count(u.inv, y) \in Nat /\ Tally(t.goods, 1, Len(t.goods), Kind(y)) \in Nat
          /\ Bit(s[i] = y) \in Nat
      <4>1. Count(u.inv, y) \in Nat
        BY <2>1, CopiesAre
      <4>2. Tally(t.goods, 1, Len(t.goods), Kind(y)) \in Nat
        BY <1>0, TallyNat, Zenon
      <4> QED BY <4>1, <4>2 DEF Bit
    <3> HIDE DEF u, s
    <3> QED BY <3>1, <3>3, <3>4, <3>5
  <2>12. ASSUME NEW d \in DOMAIN inv[p]
         PROVE  Len(inv[p][d]) = Len(u.inv[p][d]) + Tally(u.goods, 1, Len(u.goods), Origin(d))
    <3>1. d \in DOMAIN t.inv[p]
      BY <2>12 DEF TookFrom, Others
    <3>2. Len(inv[p][d]) = Len(t.inv[p][d]) + Tally(t.goods, 1, Len(t.goods), Origin(d))
      BY DEF TookFrom
    <3>3. Len(t.inv[p][d]) = Len(u.inv[p][d]) + Bit(d = c)
      <4>1. Len(t.inv[p][d]) \in Nat
        BY <1>0, <3>1, InvFields
      <4> HIDE DEF u
      <4>2. CASE d = c
        BY <2>2, <2>5, <4>1, <4>2 DEF Bit
      <4>3. CASE d # c
        BY <2>6, <3>1, <4>1, <4>3 DEF Bit
      <4> QED BY <4>2, <4>3
    <3>4. g \in Origin(d) <=> d = c
      BY <2>1, <2>2 DEF Origin
    <3>5. Tally(u.goods, 1, Len(u.goods), Origin(d))
             = Tally(t.goods, 1, Len(t.goods), Origin(d)) + Bit(d = c)
      BY <2>8, <3>4 DEF Bit
    <3>6. /\ Len(u.inv[p][d]) \in Nat /\ Tally(t.goods, 1, Len(t.goods), Origin(d)) \in Nat
          /\ Bit(d = c) \in Nat
      <4>1. d \in DOMAIN u.inv[p]
        BY <2>3, <3>1 DEF Others
      <4>2. Len(u.inv[p][d]) \in Nat
        BY <2>1, <4>1, InvFields
      <4>3. Tally(t.goods, 1, Len(t.goods), Origin(d)) \in Nat
        BY <1>0, TallyNat, Zenon
      <4> QED BY <4>2, <4>3 DEF Bit
    <3> HIDE DEF u, s, c
    <3> QED BY <3>2, <3>3, <3>5, <3>6
  <2>13. Held(u.inv, p) \cup Things(u.goods, Len(u.goods)) = Held(inv, p)
    <3> HIDE DEF u, s
    <3> QED BY <2>9, <2>10 DEF TookFrom
  <2>14. TookFrom(inv, u, p)
    <3> HIDE DEF u
    <3> QED BY <2>4, <2>7, <2>11, <2>12, <2>13 DEF TookFrom
  <2> QED BY <2>14
<1> QED
  BY <1>1, <1>2

LEMMA TakeAllTakes ==
  ASSUME NEW inv \in Invs, NEW p \in Players, NEW refs \in Seq(Reference), Fits(inv)
  PROVE  TakeAll(inv, p, refs) \in Taking /\ TookFrom(inv, TakeAll(inv, p, refs), p)
<1>0. Len(refs) \in Nat /\ \A k \in 1..Len(refs) : refs[k] \in Reference
  BY LenProperties, ElementOfSeq
<1>1. PICK h : TakeRun(h, inv, p, refs)
  BY TakeRunExists
<1> DEFINE Bad == {k \in 0..Len(refs) : ~TookFrom(inv, h[k], p)}
<1>2. ASSUME Bad # {} PROVE FALSE
  <2>1. PICK k \in Bad : \A j \in Bad : k <= j
    <3>1. Bad \in SUBSET Nat
      OBVIOUS
    <3> HIDE DEF Bad
    <3> QED BY <1>2, <3>1, LeastNumber
  <2>2. k \in 0..Len(refs) /\ ~TookFrom(inv, h[k], p)
    OBVIOUS
  <2>3. k # 0
    BY <1>1, <2>2, TookNothing DEF TakeRun
  <2>4. k - 1 \in 0..Len(refs) /\ k - 1 \notin Bad /\ k \in 1..Len(refs)
    BY <1>0, <2>1, <2>2, <2>3
  <2>5. TookFrom(inv, h[k - 1], p) /\ h[k - 1] \in Taking
    BY <1>1, <2>4 DEF TakeRun
  <2>6. h[k] = TakeOne(p, h[k - 1], refs[k]) /\ refs[k] \in Reference
    BY <1>0, <1>1, <2>4 DEF TakeRun
  <2> QED BY <2>2, <2>5, <2>6, TookOneMore
<1>3. Len(refs) \in 0..Len(refs)
  BY <1>0
<1>4. TookFrom(inv, h[Len(refs)], p)
  BY <1>2, <1>3
<1> QED
  BY <1>1, <1>3, <1>4 DEF TakeRun


(* An item into a container with room for it. *)
LEMMA PutFits ==
  ASSUME NEW inv \in Invs, NEW p \in Players, NEW c \in DOMAIN inv[p], NEW x \in Items,
         Fits(inv), Len(inv[p][c]) < Capacity[c]
  PROVE  /\ Put(inv, p, c, x) \in Invs /\ Fits(Put(inv, p, c, x))
         /\ Others(inv, Put(inv, p, c, x), p)
         /\ \A d \in DOMAIN inv[p] :
               Len(Put(inv, p, c, x)[p][d]) = Len(inv[p][d]) + Bit(d = c)
         /\ Held(Put(inv, p, c, x), p) = Held(inv, p) \cup {x}
         /\ \A y : Count(Put(inv, p, c, x), y) = Count(inv, y) + Bit(x = y)
<1> DEFINE jnv == Put(inv, p, c, x)
<1>1. jnv \in Invs /\ Replaces(inv, jnv, p, c, Append(inv[p][c], x))
  BY PutReplaces DEF Replaces
<1> HIDE DEF jnv
<1>2. Others(inv, jnv, p)
  BY <1>1 DEF Replaces, Others
<1>3. inv[p][c] \in Seq(Items) /\ Len(inv[p][c]) \in Nat /\ c \in ContainerIds
  BY InvFields
<1>4. Len(jnv[p][c]) = Len(inv[p][c]) + 1
  <2>1. jnv[p][c] = Append(inv[p][c], x)
    BY <1>1 DEF Replaces
  <2> QED BY <1>3, <2>1, AppendProperties
<1>5. ASSUME NEW d \in DOMAIN inv[p]
      PROVE  Len(jnv[p][d]) = Len(inv[p][d]) + Bit(d = c)
  <2>1. CASE d = c
    BY <1>4, <2>1 DEF Bit
  <2>2. CASE d # c
    <3>1. jnv[p][d] = inv[p][d] /\ Len(inv[p][d]) \in Nat
      BY <1>1, <1>5, <2>2, InvFields DEF Replaces
    <3> QED BY <2>2, <3>1 DEF Bit
  <2> QED BY <2>1, <2>2
<1>6. Fits(jnv)
  <2> SUFFICES ASSUME NEW q \in Players, NEW d \in DOMAIN jnv[q]
               PROVE  Len(jnv[q][d]) <= Capacity[d]
    BY DEF Fits
  <2>1. d \in DOMAIN inv[q] /\ Len(inv[q][d]) <= Capacity[d]
    BY <1>2 DEF Others, Fits
  <2>2. CASE q = p /\ d = c
    <3>1. Capacity[c] \in Nat
      BY <1>3, TradeAssumption
    <3> QED BY <1>3, <1>4, <2>2, <3>1
  <2>3. CASE ~(q = p /\ d = c)
    <3>1. jnv[q][d] = inv[q][d]
      BY <1>1, <2>1, <2>3 DEF Replaces
    <3> QED BY <2>1, <3>1
  <2> QED BY <2>2, <2>3
<1>7. Held(jnv, p) = Held(inv, p) \cup {x}
  BY <1>1, HeldAppend
<1>8. \A y : Count(jnv, y) = Count(inv, y) + Bit(x = y)
  BY <1>1, CopiesAppend
<1> QED
  BY <1>1, <1>2, <1>5, <1>6, <1>7, <1>8 DEF jnv

(* x is what deliver has made of the inventories inv with the first k goods: *)
(* what p has got is from among them.                                        *)
Delivered(inv, x, p, goods, k) ==
    /\ Fits(x.inv) /\ Others(inv, x.inv, p)
    /\ x.ok => Held(x.inv, p) = Held(inv, p) \cup Things(goods, k)
    /\ \A y \in Items : Count(x.inv, y) <= Count(inv, y) + Tally(goods, 1, k, Kind(y))

LEMMA DeliveredNothing ==
  ASSUME NEW inv \in Invs, NEW p \in Players, NEW goods, Fits(inv)
  PROVE  Delivered(inv, Ready(inv), p, goods, 0)
<1>1. Ready(inv).inv = inv
  BY DEF Ready
<1>2. \A y : Count(inv, y) \in Nat
  BY CopiesAre
<1>3. \A G : Tally(goods, 1, 0, G) = 0
  <2>1. 1 \in Int /\ 0 \in Int /\ 1 > 0
    OBVIOUS
  <2> QED BY <2>1, TallyType, Zenon
<1>4. Things(goods, 0) = {}
  BY DEF Things
<1> QED
  BY <1>1, <1>2, <1>3, <1>4 DEF Delivered, Others

LEMMA DeliveredOneMore ==
  ASSUME NEW inv \in Invs, NEW p \in Players, NEW x \in Delivering, NEW goods \in Seq(Taken),
         NEW k \in 1..Len(goods), Delivered(inv, x, p, goods, k - 1)
  PROVE  Delivered(inv, DeliverOne(p, x, goods[k]), p, goods, k)
<1> DEFINE g == goods[k]
           u == DeliverOne(p, x, g)
<1>0. /\ g \in Taken /\ g.item \in Items /\ k \in Nat /\ k - 1 \in Nat /\ 1 <= k
      /\ x.inv \in Invs /\ x.ok \in BOOLEAN
  <2>1. g \in Taken /\ Len(goods) \in Nat
    BY ElementOfSeq, LenProperties
  <2>2. g.item \in Items
    BY <2>1 DEF Taken
  <2> HIDE DEF g
  <2> QED BY <2>1, <2>2 DEF Delivering
<1>1. ASSUME NEW y \in Items
      PROVE  /\ Tally(goods, 1, k, Kind(y)) = Tally(goods, 1, k - 1, Kind(y)) + Bit(g.item = y)
             /\ Tally(goods, 1, k - 1, Kind(y)) \in Nat
             /\ Count(inv, y) \in Nat /\ Count(x.inv, y) \in Nat
             /\ Count(x.inv, y) <= Count(inv, y) + Tally(goods, 1, k - 1, Kind(y))
  <2>1. Tally(goods, 1, k, Kind(y)) = Tally(goods, 1, k - 1, Kind(y)) + Bit(g \in Kind(y))
    BY <1>0, TallyLast
  <2>2. g \in Kind(y) <=> g.item = y
    BY <1>0 DEF Kind
  <2>3. Bit(g \in Kind(y)) = Bit(g.item = y)
    BY <2>2 DEF Bit
  <2>4. Tally(goods, 1, k - 1, Kind(y)) \in Nat
    BY <1>0, TallyNat
  <2>5. Count(inv, y) \in Nat /\ Count(x.inv, y) \in Nat
    BY <1>0, CopiesAre
  <2> HIDE DEF g
  <2> QED BY <2>1, <2>3, <2>4, <2>5 DEF Delivered
<1>2. CASE ~u.ok /\ u.inv = x.inv
  <2>1. ASSUME NEW y \in Items
        PROVE  Count(u.inv, y) <= Count(inv, y) + Tally(goods, 1, k, Kind(y))
    <3>1. Bit(g.item = y) \in Nat
      BY DEF Bit
    <3> HIDE DEF u, g
    <3> QED BY <1>1, <1>2, <2>1, <3>1
  <2>2. Delivered(inv, u, p, goods, k)
    <3> HIDE DEF u
    <3> QED BY <1>2, <2>1 DEF Delivered
  <2> QED BY <2>2
<1>3. CASE ~(~u.ok /\ u.inv = x.inv)
  <2>1. u \in Delivering /\ x.ok
    BY <1>0, <1>3, DeliverOneIs
  <2>2. PICK c \in ContainerIds : HasRoom(x.inv, p, c) /\ u.inv = Put(x.inv, p, c, g.item)
    BY <1>0, <1>3, DeliverOneIs
  <2>3. c \in DOMAIN x.inv[p] /\ Len(x.inv[p][c]) < Capacity[c] /\ Fits(x.inv)
    BY <2>2 DEF HasRoom, Delivered
  <2>4. /\ Fits(u.inv) /\ Others(x.inv, u.inv, p)
        /\ Held(u.inv, p) = Held(x.inv, p) \cup {g.item}
        /\ \A y : Count(u.inv, y) = Count(x.inv, y) + Bit(g.item = y)
    <3> HIDE DEF u, g
    <3> QED BY <1>0, <2>2, <2>3, PutFits
  <2>5. Things(goods, k) = Things(goods, k - 1) \cup {g.item}
    <3>1. 1..k = (1..(k - 1)) \cup {k}
      BY <1>0
    <3> QED BY <3>1, Zenon DEF Things
  <2>6. Held(u.inv, p) = Held(inv, p) \cup Things(goods, k)
    <3> HIDE DEF u, g
    <3> QED BY <2>1, <2>4, <2>5 DEF Delivered
  <2>7. ASSUME NEW y \in Items
        PROVE  Count(u.inv, y) <= Count(inv, y) + Tally(goods, 1, k, Kind(y))
    <3>1. Bit(g.item = y) \in Nat
      BY DEF Bit
    <3> HIDE DEF u, g
    <3> QED BY <1>1, <2>4, <3>1
  <2>8. Others(inv, u.inv, p)
    BY <2>4 DEF Others, Delivered
  <2>9. Delivered(inv, u, p, goods, k)
    <3> HIDE DEF u
    <3> QED BY <2>4, <2>6, <2>7, <2>8 DEF Delivered
  <2> QED BY <2>9
<1> QED
  BY <1>2, <1>3

LEMMA DeliverDelivers ==
  ASSUME NEW inv \in Invs, NEW p \in Players, NEW goods \in Seq(Taken), Fits(inv)
  PROVE  /\ Deliver(inv, p, goods) \in Delivering
         /\ Delivered(inv, Deliver(inv, p, goods), p, goods, Len(goods))
<1>0. Len(goods) \in Nat
  BY LenProperties
<1>1. PICK h : DeliverRun(h, inv, p, goods)
  BY DeliverRunExists
<1> DEFINE Bad == {k \in 0..Len(goods) : ~Delivered(inv, h[k], p, goods, k)}
<1>2. ASSUME Bad # {} PROVE FALSE
  <2>1. PICK k \in Bad : \A j \in Bad : k <= j
    <3>1. Bad \in SUBSET Nat
      OBVIOUS
    <3> HIDE DEF Bad
    <3> QED BY <1>2, <3>1, LeastNumber
  <2>2. k \in 0..Len(goods) /\ ~Delivered(inv, h[k], p, goods, k)
    OBVIOUS
  <2>3. k # 0
    BY <1>1, <2>2, DeliveredNothing DEF DeliverRun
  <2>4. k - 1 \in 0..Len(goods) /\ k - 1 \notin Bad /\ k \in 1..Len(goods)
    BY <1>0, <2>1, <2>2, <2>3
  <2>5. Delivered(inv, h[k - 1], p, goods, k - 1) /\ h[k - 1] \in Delivering
    BY <1>1, <2>4 DEF DeliverRun
  <2>6. h[k] = DeliverOne(p, h[k - 1], goods[k])
    BY <1>1, <2>4 DEF DeliverRun
  <2> QED BY <2>2, <2>4, <2>5, <2>6, DeliveredOneMore
<1>3. Len(goods) \in 0..Len(goods)
  BY <1>0
<1>4. Delivered(inv, h[Len(goods)], p, goods, Len(goods))
  BY <1>2, <1>3
<1> QED
  BY <1>1, <1>3, <1>4 DEF DeliverRun

(* jnv is what is left of the inventories inv when the goods from number k *)
(* on are back with p, each in the container it was taken from.            *)
Restored(inv, jnv, p, goods, k) ==
    /\ jnv \in Invs /\ Fits(jnv) /\ Others(inv, jnv, p)
    /\ \A c \in DOMAIN inv[p] :
          Len(jnv[p][c]) = Len(inv[p][c]) + Tally(goods, k, Len(goods), Origin(c))
    /\ \A y \in Items :
          Count(jnv, y) <= Count(inv, y) + Tally(goods, k, Len(goods), Kind(y))

RoomFor(inv, p, goods) ==
    \A c \in DOMAIN inv[p] :
        Len(inv[p][c]) + Tally(goods, 1, Len(goods), Origin(c)) <= Capacity[c]

LEMMA RestoredNothing ==
  ASSUME NEW inv \in Invs, NEW p \in Players, NEW goods \in Seq(Taken), Fits(inv)
  PROVE  Restored(inv, inv, p, goods, Len(goods) + 1)
<1>1. \A G : Tally(goods, Len(goods) + 1, Len(goods), G) = 0
  <2>1. Len(goods) + 1 \in Int /\ Len(goods) \in Int /\ Len(goods) + 1 > Len(goods)
    BY LenProperties
  <2> QED BY <2>1, TallyType, Zenon
<1>2. \A y : Count(inv, y) \in Nat
  BY CopiesAre
<1>3. \A c \in DOMAIN inv[p] : Len(inv[p][c]) \in Nat
  BY InvFields
<1> QED
  BY <1>1, <1>2, <1>3 DEF Restored, Others

LEMMA RestoredOneMore ==
  ASSUME NEW inv \in Invs, NEW p \in Players, NEW jnv, NEW goods \in Seq(Taken),
         NEW k \in 1..Len(goods), Restored(inv, jnv, p, goods, k + 1), RoomFor(inv, p, goods)
  PROVE  Restored(inv, Back(p, jnv, goods[k]), p, goods, k)
<1> DEFINE g == goods[k]
           n == Len(goods)
           u == Back(p, jnv, g)
<1>0. /\ g \in Taken /\ g.item \in Items /\ g.from \in ContainerIds
      /\ k \in Int /\ n \in Int /\ k + 1 \in Int /\ 1 <= k /\ k <= n /\ 1 \in Int
      /\ jnv \in Invs
  <2>1. g \in Taken /\ n \in Nat
    BY ElementOfSeq, LenProperties
  <2>2. g.item \in Items /\ g.from \in ContainerIds
    BY <2>1 DEF Taken
  <2> HIDE DEF g, n
  <2> QED BY <2>1, <2>2 DEF Restored, n
<1>1. \A G : /\ Tally(goods, k, n, G) = Tally(goods, k + 1, n, G) + Bit(g \in G)
             /\ Tally(goods, k + 1, n, G) \in Nat
             /\ Tally(goods, k, n, G) <= Tally(goods, 1, n, G)
             /\ Tally(goods, 1, n, G) \in Nat /\ Bit(g \in G) \in Nat
  <2> TAKE G
  <2>1. Tally(goods, k, n, G) = Tally(goods, k + 1, n, G) + Bit(g \in G)
    BY <1>0, TallyFirst
  <2>2. Tally(goods, k, n, G) <= Tally(goods, 1, n, G)
    BY <1>0, TallySuffix
  <2>3. Tally(goods, k + 1, n, G) \in Nat /\ Tally(goods, 1, n, G) \in Nat
    BY <1>0, TallyType, Zenon
  <2> QED BY <2>1, <2>2, <2>3 DEF Bit
<1> HIDE DEF g, n
<1>2. u = Put(jnv, p, g.from, g.item)
  BY DEF Back
<1>3. DOMAIN jnv[p] = DOMAIN inv[p] /\ Fits(jnv)
  BY DEF Restored, Others
<1>4. /\ \A d \in DOMAIN inv[p] : g \in Origin(d) <=> d = g.from
      /\ \A y \in Items : g \in Kind(y) <=> g.item = y
  BY <1>0 DEF Origin, Kind
<1>5. ASSUME NEW d \in DOMAIN inv[p]
      PROVE  /\ Len(inv[p][d]) \in Nat /\ Len(jnv[p][d]) \in Nat
             /\ Len(jnv[p][d]) = Len(inv[p][d]) + Tally(goods, k + 1, n, Origin(d))
  <2>1. d \in DOMAIN jnv[p]
    BY <1>3
  <2>2. Len(inv[p][d]) \in Nat /\ Len(jnv[p][d]) \in Nat
    BY <1>0, <2>1, InvFields
  <2> QED BY <2>2 DEF Restored, n
<1>6. ASSUME NEW y \in Items
      PROVE  /\ Count(inv, y) \in Nat /\ Count(jnv, y) \in Nat
             /\ Count(jnv, y) <= Count(inv, y) + Tally(goods, k + 1, n, Kind(y))
  <2>1. Count(inv, y) \in Nat /\ Count(jnv, y) \in Nat
    BY <1>0, CopiesAre
  <2> QED BY <2>1 DEF Restored, n
<1>7. CASE g.from \in DOMAIN inv[p]
  <2>1. Len(jnv[p][g.from]) < Capacity[g.from]
    <3> DEFINE G == Origin(g.from)
    <3>1. Len(jnv[p][g.from]) = Len(inv[p][g.from]) + Tally(goods, k + 1, n, G)
      BY <1>5, <1>7
    <3>2. Tally(goods, k + 1, n, G) + 1 <= Tally(goods, 1, n, G)
      <4>1. Bit(g \in G) = 1
        BY <1>4, <1>7 DEF Bit
      <4> HIDE DEF G
      <4> QED BY <1>1, <4>1
    <3>3. Len(inv[p][g.from]) + Tally(goods, 1, n, G) <= Capacity[g.from]
      BY <1>7 DEF RoomFor, n
    <3>4. Len(inv[p][g.from]) \in Nat /\ Capacity[g.from] \in Nat
      BY <1>0, <1>5, <1>7, TradeAssumption
    <3>5. Tally(goods, 1, n, G) \in Nat /\ Tally(goods, k + 1, n, G) \in Nat
      BY <1>1
    <3> HIDE DEF G
    <3>6. \A a, b, s, t, m \in Nat : a = b + s /\ s + 1 <= t /\ b + t <= m => a < m
      OBVIOUS
    <3>7. Len(jnv[p][g.from]) \in Nat
      BY <1>5, <1>7
    <3> QED BY <3>1, <3>2, <3>3, <3>4, <3>5, <3>6, <3>7, Zenon
  <2>2. /\ u \in Invs /\ Fits(u) /\ Others(jnv, u, p)
        /\ \A d \in DOMAIN jnv[p] : Len(u[p][d]) = Len(jnv[p][d]) + Bit(d = g.from)
        /\ \A y : Count(u, y) = Count(jnv, y) + Bit(g.item = y)
    BY <1>0, <1>2, <1>3, <1>7, <2>1, PutFits
  <2> HIDE DEF u
  <2>3. Others(inv, u, p)
    BY <2>2 DEF Others, Restored
  <2>4. ASSUME NEW d \in DOMAIN inv[p]
        PROVE  Len(u[p][d]) = Len(inv[p][d]) + Tally(goods, k, n, Origin(d))
    <3>1. Bit(d = g.from) = Bit(g \in Origin(d))
      BY <1>4 DEF Bit
    <3>2. Len(u[p][d]) = Len(jnv[p][d]) + Bit(g \in Origin(d))
      BY <1>3, <2>2, <3>1
    <3> QED BY <1>1, <1>5, <3>2
  <2>5. ASSUME NEW y \in Items
        PROVE  Count(u, y) <= Count(inv, y) + Tally(goods, k, n, Kind(y))
    <3>1. Bit(g.item = y) = Bit(g \in Kind(y))
      BY <1>4 DEF Bit
    <3>2. Count(u, y) = Count(jnv, y) + Bit(g \in Kind(y))
      BY <2>2, <3>1
    <3> QED BY <1>1, <1>6, <3>2
  <2> QED BY <2>2, <2>3, <2>4, <2>5 DEF Restored, n, g, u
<1>8. CASE g.from \notin DOMAIN inv[p]
  <2>1. u = jnv
    BY <1>0, <1>2, <1>3, <1>8, PutType
  <2> HIDE DEF u
  <2>2. ASSUME NEW d \in DOMAIN inv[p]
        PROVE  Len(u[p][d]) = Len(inv[p][d]) + Tally(goods, k, n, Origin(d))
    <3>1. Bit(g \in Origin(d)) = 0
      BY <1>4, <1>8 DEF Bit
    <3> QED BY <1>1, <1>5, <2>1, <3>1
  <2>3. ASSUME NEW y \in Items
        PROVE  Count(u, y) <= Count(inv, y) + Tally(goods, k, n, Kind(y))
    BY <1>1, <1>6, <2>1
  <2> QED BY <1>0, <2>1, <2>2, <2>3 DEF Restored, n, g, u
<1> QED
  BY <1>7, <1>8

(* A swap that failed while goods were taken out puts them all back. *)
LEMMA RestoreRestores ==
  ASSUME NEW inv \in Invs, NEW p \in Players, NEW goods \in Seq(Taken), Fits(inv),
         RoomFor(inv, p, goods)
  PROVE  Restored(inv, Restore(inv, p, goods), p, goods, 1)
<1> DEFINE n == Len(goods)
<1>0. n \in Nat
  BY LenProperties
<1>1. PICK h : RestoreRun(h, inv, p, goods)
  BY RestoreRunExists
<1> DEFINE Bad == {j \in 0..n : ~Restored(inv, h[n + 1 - j], p, goods, n + 1 - j)}
<1>2. ASSUME Bad # {} PROVE FALSE
  <2>1. PICK j \in Bad : \A i \in Bad : j <= i
    <3>1. Bad \in SUBSET Nat
      OBVIOUS
    <3> HIDE DEF Bad
    <3> QED BY <1>2, <3>1, LeastNumber
  <2>2. j \in 0..n /\ ~Restored(inv, h[n + 1 - j], p, goods, n + 1 - j)
    OBVIOUS
  <2>3. j # 0
    <3>1. n + 1 - 0 = n + 1
      BY <1>0
    <3> QED BY <1>1, <2>2, <3>1, RestoredNothing DEF RestoreRun
  <2>4. PICK k \in 1..n : k = n + 1 - j /\ k + 1 = n + 1 - (j - 1)
    <3>1. n + 1 - j \in 1..n /\ (n + 1 - j) + 1 = n + 1 - (j - 1)
      BY <1>0, <2>2, <2>3
    <3> QED BY <3>1
  <2>5. j - 1 \in 0..n /\ j - 1 \notin Bad
    BY <1>0, <2>1, <2>2, <2>3
  <2>6. Restored(inv, h[k + 1], p, goods, k + 1)
    BY <2>4, <2>5
  <2>7. h[k] = Back(p, h[k + 1], goods[k])
    BY <1>1, <2>4 DEF RestoreRun
  <2>8. Restored(inv, h[k], p, goods, k)
    BY <2>4, <2>6, <2>7, RestoredOneMore
  <2> QED BY <2>2, <2>4, <2>8
<1>3. n \in 0..n /\ n + 1 - n = 1
  BY <1>0
<1>4. Restored(inv, h[1], p, goods, 1)
  BY <1>2, <1>3
<1> QED
  BY <1>1, <1>4 DEF RestoreRun

(* s is what execute_player_trade has made of the inventories inv: only the *)
(* two traders change, nothing is doubled, and a swap that worked loses     *)
(* nothing.                                                                 *)
Swapped(inv, s, i, c) ==
    /\ s \in Delivering /\ Fits(s.inv)
    /\ \A q \in Players : DOMAIN s.inv[q] = DOMAIN inv[q]
    /\ \A q \in Players \ {i, c} : s.inv[q] = inv[q]
    /\ \A y \in Items : Count(s.inv, y) <= Count(inv, y)
    /\ s.ok => Held(s.inv, i) \cup Held(s.inv, c) = Held(inv, i) \cup Held(inv, c)

(* What was taken out of p and is put back. *)
LEMMA PutBack ==
  ASSUME NEW inv \in Invs, NEW p \in Players, NEW t \in Taking, TookFrom(inv, t, p),
         NEW now \in Invs, Fits(now), Fits(inv),
         DOMAIN now[p] = DOMAIN t.inv[p],
         \A d \in DOMAIN now[p] : Len(now[p][d]) = Len(t.inv[p][d]),
         \A y \in Items : Count(now, y) <= Count(t.inv, y)
  PROVE  /\ Restore(now, p, t.goods) \in Invs
         /\ Fits(Restore(now, p, t.goods))
         /\ Others(now, Restore(now, p, t.goods), p)
         /\ \A d \in DOMAIN inv[p] : Len(Restore(now, p, t.goods)[p][d]) = Len(inv[p][d])
         /\ \A y \in Items : Count(Restore(now, p, t.goods), y) <= Count(inv, y)
<1> DEFINE R == Restore(now, p, t.goods)
           n == Len(t.goods)
<1>0. t.goods \in Seq(Taken) /\ n \in Nat /\ t.inv \in Invs
  BY LenProperties DEF Taking
<1>1. DOMAIN now[p] = DOMAIN inv[p]
  BY DEF TookFrom, Others
<1>2. ASSUME NEW d \in DOMAIN inv[p]
      PROVE  Len(inv[p][d]) = Len(now[p][d]) + Tally(t.goods, 1, n, Origin(d))
  BY <1>1, <1>2 DEF TookFrom
<1>3. RoomFor(now, p, t.goods)
  <2> HIDE DEF n
  <2> QED BY <1>1, <1>2 DEF RoomFor, Fits, n
<1>4. Restored(now, R, p, t.goods, 1)
  BY <1>0, <1>3, RestoreRestores
<1> HIDE DEF R
<1>5. ASSUME NEW d \in DOMAIN inv[p]
      PROVE  Len(R[p][d]) = Len(inv[p][d])
  BY <1>1, <1>2, <1>4 DEF Restored
<1>6. ASSUME NEW y \in Items
      PROVE  Count(R, y) <= Count(inv, y)
  <2>1. Count(R, y) <= Count(now, y) + Tally(t.goods, 1, n, Kind(y))
    BY <1>4 DEF Restored
  <2>2. Count(inv, y) = Count(t.inv, y) + Tally(t.goods, 1, n, Kind(y))
    BY DEF TookFrom
  <2>3. /\ Count(R, y) \in Nat /\ Count(now, y) \in Nat /\ Count(t.inv, y) \in Nat
        /\ Count(inv, y) \in Nat
    BY <1>0, <1>4, CopiesAre DEF Restored
  <2>4. Tally(t.goods, 1, n, Kind(y)) \in Nat
    BY <1>0, TallyNat, Zenon
  <2>5. Count(now, y) <= Count(t.inv, y)
    OBVIOUS
  <2> HIDE DEF n
  <2> QED BY <2>1, <2>2, <2>3, <2>4, <2>5
<1> QED
  BY <1>4, <1>5, <1>6 DEF Restored, R

LEMMA SwapSwaps ==
  ASSUME NEW inv \in Invs, Fits(inv), NEW i \in Players, NEW t \in TradeSession
  PROVE  Swapped(inv, Swap(inv, i, t), i, t.counterparty)
<1> DEFINE c == t.counterparty
           resolved == /\ \A r \in Range(t.initiatorItems) : Has(inv, i, r)
                       /\ \A r \in Range(t.counterpartyItems) : Has(inv, c, r)
           mine     == TakeAll(inv, i, t.initiatorItems)
           theirs   == TakeAll(mine.inv, c, t.counterpartyItems)
           first    == Deliver(theirs.inv, i, theirs.goods)
           second   == Deliver(first.inv, c, mine.goods)
           put      == Restore(theirs.inv, c, theirs.goods)
           s        == Swap(inv, i, t)
<1>0. /\ c \in Players /\ t.initiatorItems \in Seq(Reference)
      /\ t.counterpartyItems \in Seq(Reference)
  BY DEF TradeSession
<1>1. /\ mine \in Taking /\ mine.inv \in Invs /\ mine.goods \in Seq(Taken)
      /\ mine.ok \in BOOLEAN
      /\ TookFrom(inv, mine, i) /\ Fits(mine.inv) /\ Others(inv, mine.inv, i)
  BY <1>0, TakeAllTakes DEF Taking, TookFrom
<1>2. /\ theirs \in Taking /\ theirs.inv \in Invs /\ theirs.goods \in Seq(Taken)
      /\ theirs.ok \in BOOLEAN
      /\ TookFrom(mine.inv, theirs, c) /\ Fits(theirs.inv) /\ Others(mine.inv, theirs.inv, c)
  <2> HIDE DEF mine, c
  <2>1. theirs \in Taking /\ TookFrom(mine.inv, theirs, c)
    BY <1>0, <1>1, TakeAllTakes
  <2> HIDE DEF theirs
  <2> QED BY <2>1 DEF Taking, TookFrom
<1>3. /\ first \in Delivering /\ first.inv \in Invs /\ first.ok \in BOOLEAN
      /\ Delivered(theirs.inv, first, i, theirs.goods, Len(theirs.goods))
      /\ Fits(first.inv) /\ Others(theirs.inv, first.inv, i)
  <2> HIDE DEF mine, theirs
  <2> QED BY <1>2, DeliverDelivers DEF Delivering, Delivered
<1>4. /\ second \in Delivering /\ second.inv \in Invs /\ second.ok \in BOOLEAN
      /\ Delivered(first.inv, second, c, mine.goods, Len(mine.goods))
      /\ Fits(second.inv) /\ Others(first.inv, second.inv, c)
  <2> HIDE DEF mine, theirs, first
  <2> QED BY <1>0, <1>1, <1>3, DeliverDelivers DEF Delivering, Delivered
<1>5. s = IF ~resolved THEN [ok |-> FALSE, inv |-> inv]
          ELSE IF ~mine.ok THEN [ok |-> FALSE, inv |-> Restore(mine.inv, i, mine.goods)]
          ELSE IF ~theirs.ok
          THEN [ok |-> FALSE, inv |-> Restore(put, i, mine.goods)]
          ELSE IF ~first.ok THEN first ELSE second
  BY DEF Swap
<1> HIDE DEF resolved, mine, theirs, first, second, put, s
<1>6. \A y \in Items : Count(inv, y) \in Nat /\ Count(mine.inv, y) \in Nat
                       /\ Count(theirs.inv, y) \in Nat /\ Count(first.inv, y) \in Nat
                       /\ Count(second.inv, y) \in Nat
  BY <1>1, <1>2, <1>3, <1>4, CopiesAre
<1>7. CASE ~resolved
  <2>1. s = [ok |-> FALSE, inv |-> inv]
    BY <1>5, <1>7
  <2>2. s \in Delivering /\ s.inv = inv /\ ~s.ok
    BY <2>1 DEF Delivering
  <2> QED BY <1>6, <2>2 DEF Swapped, s
<1>8. CASE resolved /\ ~mine.ok
  <2> DEFINE R == Restore(mine.inv, i, mine.goods)
  <2>1. s = [ok |-> FALSE, inv |-> R]
    BY <1>5, <1>8
  <2>2. /\ R \in Invs /\ Fits(R) /\ Others(mine.inv, R, i)
        /\ \A y \in Items : Count(R, y) <= Count(inv, y)
    BY <1>1, <1>6, PutBack
  <2> HIDE DEF R
  <2>3. s \in Delivering /\ s.inv = R /\ ~s.ok
    BY <2>1, <2>2 DEF Delivering
  <2> QED BY <1>1, <2>2, <2>3 DEF Swapped, Others, s
<1>9. CASE resolved /\ mine.ok /\ ~theirs.ok
  <2> DEFINE R == Restore(put, i, mine.goods)
  <2>1. s = [ok |-> FALSE, inv |-> R]
    BY <1>5, <1>9
  <2>2. /\ put \in Invs /\ Fits(put) /\ Others(theirs.inv, put, c)
        /\ \A d \in DOMAIN mine.inv[c] : Len(put[c][d]) = Len(mine.inv[c][d])
        /\ \A y \in Items : Count(put, y) <= Count(mine.inv, y)
    <3>1. \A y \in Items : Count(theirs.inv, y) <= Count(theirs.inv, y)
      BY <1>6
    <3> HIDE DEF c
    <3> QED BY <1>0, <1>1, <1>2, <3>1, PutBack DEF put
  <2>3. DOMAIN put[i] = DOMAIN mine.inv[i]
    BY <1>2, <2>2 DEF Others
  <2>4. ASSUME NEW d \in DOMAIN put[i]
        PROVE  Len(put[i][d]) = Len(mine.inv[i][d])
    <3>1. CASE i = c
      BY <2>2, <2>3, <2>4, <3>1
    <3>2. CASE i # c
      BY <1>2, <2>2, <3>2 DEF Others
    <3> QED BY <3>1, <3>2
  <2>5. /\ R \in Invs /\ Fits(R) /\ Others(put, R, i)
        /\ \A y \in Items : Count(R, y) <= Count(inv, y)
    BY <1>1, <2>2, <2>3, <2>4, PutBack
  <2> HIDE DEF R
  <2>6. s \in Delivering /\ s.inv = R /\ ~s.ok
    BY <2>1, <2>5 DEF Delivering
  <2> QED BY <1>1, <1>2, <2>2, <2>5, <2>6 DEF Swapped, Others, s
<1>10. ASSUME NEW y \in Items
       PROVE  Count(first.inv, y) <= Count(mine.inv, y) /\ Count(second.inv, y) <= Count(inv, y)
  <2> DEFINE m == Tally(mine.goods, 1, Len(mine.goods), Kind(y))
             k == Tally(theirs.goods, 1, Len(theirs.goods), Kind(y))
  <2>1. Count(inv, y) = Count(mine.inv, y) + m /\ Count(mine.inv, y) = Count(theirs.inv, y) + k
    BY <1>1, <1>2 DEF TookFrom
  <2>2. Count(first.inv, y) <= Count(theirs.inv, y) + k /\ Count(second.inv, y) <= Count(first.inv, y) + m
    BY <1>3, <1>4 DEF Delivered
  <2>3. m \in Nat /\ k \in Nat
    <3>1. Len(mine.goods) \in Nat /\ Len(theirs.goods) \in Nat
      BY <1>1, <1>2, LenProperties
    <3> QED BY <3>1, TallyNat, Zenon
  <2> HIDE DEF m, k
  <2> QED BY <1>6, <2>1, <2>2, <2>3
<1>11. \A y \in Items : Count(mine.inv, y) <= Count(inv, y)
  <2> TAKE y \in Items
  <2>1. Count(inv, y) = Count(mine.inv, y) + Tally(mine.goods, 1, Len(mine.goods), Kind(y))
    BY <1>1 DEF TookFrom
  <2>2. Tally(mine.goods, 1, Len(mine.goods), Kind(y)) \in Nat
    <3>1. Len(mine.goods) \in Nat
      BY <1>1, LenProperties
    <3> QED BY <3>1, TallyNat, Zenon
  <2> QED BY <1>6, <2>1, <2>2
<1>12. CASE resolved /\ mine.ok /\ theirs.ok /\ ~first.ok
  <2>1. s = first
    BY <1>5, <1>12
  <2>2. ASSUME NEW y \in Items
        PROVE  Count(s.inv, y) <= Count(inv, y)
    BY <1>6, <1>10, <1>11, <2>1
  <2> QED BY <1>1, <1>2, <1>3, <1>12, <2>1, <2>2 DEF Swapped, Others, s
<1>13. CASE resolved /\ mine.ok /\ theirs.ok /\ first.ok
  <2>1. s = second
    BY <1>5, <1>13
  <2>2. ASSUME second.ok
        PROVE  Held(second.inv, i) \cup Held(second.inv, c) = Held(inv, i) \cup Held(inv, c)
    <3> DEFINE M == Things(mine.goods, Len(mine.goods))
               T == Things(theirs.goods, Len(theirs.goods))
    <3>1. Held(mine.inv, i) \cup M = Held(inv, i) /\ Held(theirs.inv, c) \cup T = Held(mine.inv, c)
      BY <1>1, <1>2 DEF TookFrom
    <3>2. /\ Held(first.inv, i) = Held(theirs.inv, i) \cup T
          /\ Held(second.inv, c) = Held(first.inv, c) \cup M
      BY <1>3, <1>4, <1>13, <2>2 DEF Delivered
    <3> HIDE DEF M, T
    <3>3. CASE i = c
      BY <3>1, <3>2, <3>3
    <3>4. CASE i # c
      <4>1. /\ mine.inv[c] = inv[c] /\ theirs.inv[i] = mine.inv[i]
            /\ first.inv[c] = theirs.inv[c] /\ second.inv[i] = first.inv[i]
        BY <1>0, <1>1, <1>2, <1>3, <1>4, <3>4 DEF Others
      <4>2. /\ Held(mine.inv, c) = Held(inv, c) /\ Held(theirs.inv, i) = Held(mine.inv, i)
            /\ Held(first.inv, c) = Held(theirs.inv, c)
            /\ Held(second.inv, i) = Held(first.inv, i)
        BY <4>1, Zenon DEF Held
      <4> QED BY <3>1, <3>2, <4>2
    <3> QED BY <3>3, <3>4
  <2> QED BY <1>1, <1>2, <1>3, <1>4, <1>10, <2>1, <2>2 DEF Swapped, Others, s
<1> QED
  BY <1>7, <1>8, <1>9, <1>12, <1>13

----------------------------------------------------------------------------
(* What the steps do to the containers of the live world *)

RowFits(row) ==
    /\ row \in Inventory \cup {NoContainers}
    /\ \A c \in DOMAIN row : Len(row[c]) <= Capacity[c]

LEMMA RowOf ==
  ASSUME NEW inv \in Invs, Fits(inv), NEW p \in Players
  PROVE  RowFits(inv[p])
BY DEF Invs, Fits, RowFits

(* The containers of one player are replaced as a whole. *)
LEMMA NewRow ==
  ASSUME NEW inv \in Invs, Fits(inv), NEW p \in Players, NEW row, RowFits(row)
  PROVE  /\ [inv EXCEPT ![p] = row] \in Invs
         /\ Fits([inv EXCEPT ![p] = row])
         /\ \A q \in Players \ {p} : [inv EXCEPT ![p] = row][q] = inv[q]
         /\ [inv EXCEPT ![p] = row][p] = row
<1> DEFINE jnv == [inv EXCEPT ![p] = row]
<1>1. jnv \in Invs /\ jnv[p] = row /\ \A q \in Players \ {p} : jnv[q] = inv[q]
  BY DEF Invs, RowFits
<1> HIDE DEF jnv
<1>2. Fits(jnv)
  BY <1>1 DEF Fits, RowFits
<1> QED
  BY <1>1, <1>2 DEF jnv

(* Who leaves the world takes goods out of it, and brings none in. *)
LEMMA LeavingDoublesNothing ==
  ASSUME NEW inv \in Invs, NEW p \in Players, NEW jnv \in Invs,
         jnv[p] = NoContainers, \A q \in Players \ {p} : jnv[q] = inv[q], NEW y
  PROVE  Count(jnv, y) <= Count(inv, y)
<1>1. ASSUME NEW s \in Copies(jnv, y)
      PROVE  s \in Copies(inv, y)
  <2>1. /\ s \in Place /\ s.container \in DOMAIN jnv[s.owner]
        /\ s.index \in 1..Len(jnv[s.owner][s.container])
        /\ jnv[s.owner][s.container][s.index] = y
    BY CopiesAre
  <2>2. s.owner \in Players /\ s.owner # p
    BY <2>1 DEF Place, NoContainers
  <2>3. jnv[s.owner] = inv[s.owner]
    BY <2>2
  <2> QED BY <2>1, <2>3, CopiesAre
<1>2. IsFiniteSet(Copies(inv, y)) /\ Copies(jnv, y) \in SUBSET Copies(inv, y)
  BY <1>1, CopiesAre
<1> QED
  BY <1>2, FS_Subset DEF Count

(* One stack goes from one container of its owner to another. *)
Moved(inv, p, r, c) ==
    [inv EXCEPT ![p][r.container] = RemoveAt(@, r.index),
                ![p][c] = Append(@, ItemAt(inv, p, r))]

LEMMA MovingMoves ==
  ASSUME NEW inv \in Invs, Fits(inv), NEW p \in Players, NEW r \in Reference,
         NEW c \in ContainerIds, Has(inv, p, r), c # r.container, HasRoom(inv, p, c)
  PROVE  /\ Moved(inv, p, r, c) \in Invs /\ Fits(Moved(inv, p, r, c))
         /\ \A q \in Players \ {p} : Moved(inv, p, r, c)[q] = inv[q]
         /\ \A y \in Items : Count(Moved(inv, p, r, c), y) = Count(inv, y)
         /\ Held(Moved(inv, p, r, c), p) = Held(inv, p)
<1> DEFINE t == TakeOne(p, TakeStart(inv), r)
           x == ItemAt(inv, p, r)
           jnv == Put(t.inv, p, c, x)
<1>1. TakeStart(inv) \in Taking /\ TakeStart(inv).ok /\ TakeStart(inv).inv = inv
      /\ TakeStart(inv).goods = <<>>
  BY EmptySeq DEF TakeStart, Taking
<1>2. /\ t \in Taking /\ TookFrom(inv, t, p)
      /\ Replaces(inv, t.inv, p, r.container, RemoveAt(inv[p][r.container], r.index))
      /\ [from |-> r.container, item |-> x] \in Taken
      /\ t.goods = <<[from |-> r.container, item |-> x]>>
  <2>1. TookFrom(inv, t, p)
    BY <1>1, TookNothing, TookOneMore
  <2>2. /\ t \in Taking
        /\ Replaces(inv, t.inv, p, r.container, RemoveAt(inv[p][r.container], r.index))
        /\ [from |-> r.container, item |-> x] \in Taken
        /\ t.goods = Append(<<>>, [from |-> r.container, item |-> x])
    BY <1>1, TakeOneIs
  <2> HIDE DEF t
  <2> QED BY <2>1, <2>2
<1>3. x \in Items /\ t.inv \in Invs /\ Fits(t.inv) /\ Others(inv, t.inv, p)
  <2>1. \A g \in Taken : g.item \in Items
    BY DEF Taken
  <2>2. x \in Items
    BY <1>2, <2>1
  <2> HIDE DEF t, x
  <2> QED BY <1>2, <2>2 DEF Taking, TookFrom
<1>4. t.inv[p][c] = inv[p][c] /\ c \in DOMAIN t.inv[p] /\ Len(t.inv[p][c]) < Capacity[c]
  <2> HIDE DEF t
  <2>1. c \in DOMAIN inv[p] /\ Len(inv[p][c]) < Capacity[c]
    BY DEF HasRoom
  <2> QED BY <1>2, <2>1 DEF Replaces
<1>5. /\ jnv \in Invs /\ Fits(jnv) /\ Others(t.inv, jnv, p)
      /\ Held(jnv, p) = Held(t.inv, p) \cup {x}
      /\ \A y : Count(jnv, y) = Count(t.inv, y) + Bit(x = y)
  <2> HIDE DEF t, x
  <2> QED BY <1>3, <1>4, PutFits
<1>6. t.inv = [inv EXCEPT ![p][r.container] = RemoveAt(@, r.index)]
  BY <1>1 DEF TakeOne, TakeStart
<1>7. Moved(inv, p, r, c) = jnv
  <2> DEFINE seq == Append(inv[p][c], x)
             back == RemoveAt(inv[p][r.container], r.index)
  <2>1. Moved(inv, p, r, c)
           = [[inv EXCEPT ![p][r.container] = back] EXCEPT ![p][c] = seq]
    BY Zenon DEF Moved
  <2>2. jnv = [t.inv EXCEPT ![p][c] = Append(t.inv[p][c], x)]
    BY DEF Put
  <2>3. Append(t.inv[p][c], x) = seq
    BY <1>4
  <2>4. t.inv = [inv EXCEPT ![p][r.container] = back]
    BY <1>6
  <2> HIDE DEF seq, back, t, jnv
  <2> QED BY <2>1, <2>2, <2>3, <2>4
<1>8. /\ Len(t.goods) = 1 /\ t.goods[1].item = x
      /\ t.goods[1] \in Taken
  <2> HIDE DEF t, x
  <2> QED BY <1>2
<1> HIDE DEF t, x, jnv
<1>9. Held(jnv, p) = Held(inv, p)
  <2>1. Things(t.goods, 1) = {x}
    BY <1>8 DEF Things
  <2> QED BY <1>2, <1>5, <1>8, <2>1 DEF TookFrom
<1>10. ASSUME NEW y \in Items
       PROVE  Count(jnv, y) = Count(inv, y)
  <2>1. Count(inv, y) = Count(t.inv, y) + Tally(t.goods, 1, 1, Kind(y))
    BY <1>2, <1>8 DEF TookFrom
  <2>2. Tally(t.goods, 1, 1, Kind(y)) = Tally(t.goods, 1, 0, Kind(y)) + Bit(t.goods[1] \in Kind(y))
    <3>1. 1 \in Int /\ 1 <= 1 /\ 1 - 1 = 0
      OBVIOUS
    <3> QED BY <3>1, TallyLast, Zenon
  <2>3. Tally(t.goods, 1, 0, Kind(y)) = 0
    <3>1. 1 \in Int /\ 0 \in Int /\ 1 > 0
      OBVIOUS
    <3> QED BY <3>1, TallyType, Zenon
  <2>4. Bit(t.goods[1] \in Kind(y)) = Bit(x = y)
    BY <1>8 DEF Kind, Bit
  <2>5. Bit(x = y) \in Nat
    BY DEF Bit
  <2> QED BY <1>5, <2>1, <2>2, <2>3, <2>4, <2>5
<1>11. \A q \in Players \ {p} : jnv[q] = inv[q]
  BY <1>3, <1>5 DEF Others
<1> QED
  BY <1>5, <1>7, <1>9, <1>10, <1>11

----------------------------------------------------------------------------
(* Types *)

(* What a thread carries fits into the containers, and a thread that writes *)
(* has somebody to write for.                                               *)
GoodTask(v) ==
    /\ v \in Task
    /\ v.at \in {"login", "hydrate", "write"} => RowFits(v.read)
    /\ v.at = "write" => v.queue # <<>>

TasksTyped == \A p \in Players : GoodTask(task[p])

GoodsTyped ==
    /\ containers \in Invs /\ Fits(containers)
    /\ stored \in Invs /\ Fits(stored)

OffersFit ==
    \A i \in Initiators : /\ Len(trades[i].initiatorItems) <= MaxPerSide
                          /\ Len(trades[i].counterpartyItems) <= MaxPerSide

Bounded ==
    /\ online \subseteq Players
    /\ closing \subseteq Players
    /\ spent \in [opens : 0..MaxOpens, moves : 0..MaxMoves,
                  ends : 0..MaxEnds, logins : 0..MaxLogins]

TypeInv == TradeInv /\ TasksTyped /\ GoodsTyped /\ OffersFit /\ Bounded

LEMMA TaskKinds ==
  ASSUME NEW v, GoodTask(v)
  PROVE  /\ v.at \in {"probe", "open", "stage"} => v \in Asking
         /\ v.at = "save" => v.queue \in Seq(Players) /\ v.signal \in SUBSET Players
         /\ v.at = "write" => /\ v.queue \in Seq(Players) /\ v.queue # <<>>
                              /\ v.signal \in SUBSET Players /\ RowFits(v.read)
         /\ v.at = "login" => RowFits(v.read) /\ v = [at |-> "login", read |-> v.read]
         /\ v.at = "hydrate" => RowFits(v.read)
<1>1. CASE v \in [at : {"idle", "execute", "failed"}] \/ v \in [at : {"windows"}, agreed : BOOLEAN]
  BY <1>1
<1>2. CASE v \in [at : {"login", "hydrate"}, read : Inventory \cup {NoContainers}]
  BY <1>2 DEF GoodTask
<1>3. CASE v \in [at : {"probe", "open", "stage"}, with : Players, ref : Reference]
  BY <1>3 DEF Asking
<1>4. CASE v \in [at : {"save"}, queue : Seq(Players), signal : SUBSET Players]
  BY <1>4
<1>5. CASE v \in [at : {"write"}, queue : Seq(Players), signal : SUBSET Players,
                  read : Inventory \cup {NoContainers}]
  BY <1>5 DEF GoodTask
<1> QED
  BY <1>1, <1>2, <1>3, <1>4, <1>5 DEF GoodTask, Task

LEMMA MakingTasks ==
  /\ GoodTask(Idle) /\ GoodTask([at |-> "execute"]) /\ GoodTask([at |-> "failed"])
  /\ \A b \in BOOLEAN : GoodTask(Windows(b))
  /\ \A v \in Asking : GoodTask(v)
  /\ \A row : RowFits(row) => /\ GoodTask([at |-> "login", read |-> row])
                              /\ GoodTask([at |-> "hydrate", read |-> row])
  /\ \A queue \in Seq(Players), signal \in SUBSET Players :
        GoodTask([at |-> "save", queue |-> queue, signal |-> signal])
  /\ \A queue \in Seq(Players), signal \in SUBSET Players : \A row :
        RowFits(row) /\ queue # <<>> =>
            GoodTask([at |-> "write", queue |-> queue, signal |-> signal, read |-> row])
<1>1. GoodTask(Idle) /\ GoodTask([at |-> "execute"]) /\ GoodTask([at |-> "failed"])
  BY DEF GoodTask, Task, Idle
<1>2. \A b \in BOOLEAN : GoodTask(Windows(b))
  BY DEF GoodTask, Task, Windows
<1>3. \A v \in Asking : GoodTask(v)
  BY DEF GoodTask, Task, Asking
<1>4. ASSUME NEW row, RowFits(row)
      PROVE  /\ GoodTask([at |-> "login", read |-> row])
             /\ GoodTask([at |-> "hydrate", read |-> row])
  <2>1. row \in Inventory \cup {NoContainers}
    BY <1>4 DEF RowFits
  <2> QED BY <1>4, <2>1 DEF GoodTask, Task
<1>5. ASSUME NEW queue \in Seq(Players), NEW signal \in SUBSET Players
      PROVE  GoodTask([at |-> "save", queue |-> queue, signal |-> signal])
  BY DEF GoodTask, Task
<1>6. ASSUME NEW queue \in Seq(Players), NEW signal \in SUBSET Players, NEW row,
             RowFits(row), queue # <<>>
      PROVE  GoodTask([at |-> "write", queue |-> queue, signal |-> signal, read |-> row])
  <2>1. row \in Inventory \cup {NoContainers}
    BY <1>6 DEF RowFits
  <2> QED BY <1>6, <2>1 DEF GoodTask, Task
<1> QED
  BY <1>1, <1>2, <1>3, <1>4, <1>5, <1>6

LEMMA ThreadTyped ==
  ASSUME TasksWellFormed, TasksTyped, NEW p \in Players, NEW next,
         Continue(p, next), GoodTask(next)
  PROVE  TasksTyped'
<1>1. ASSUME NEW q \in Players PROVE task'[q] = IF q = p THEN next ELSE task[q]
  BY DEF TasksWellFormed, Continue
<1>2. ASSUME NEW q \in Players PROVE GoodTask(task'[q])
  <2>1. CASE q = p
    BY <1>1, <2>1
  <2>2. CASE q # p
    BY <1>1, <2>2 DEF TasksTyped
  <2> QED BY <2>1, <2>2
<1> QED
  BY <1>2 DEF TasksTyped

LEMMA InitTypeInv == Init => TypeInv
<1> SUFFICES ASSUME Init PROVE TypeInv
  OBVIOUS
<1>1. TradeInv
  BY InitTradeInv
<1>2. TasksTyped
  BY MakingTasks DEF Init, TasksTyped
<1>3. Stock \in Invs /\ Fits(Stock)
  <2>1. Stock \in Invs
    BY TradeAssumption DEF Invs
  <2>2. \A p \in Players : DOMAIN Stock[p] = ContainerIds
    BY TradeAssumption DEF Inventory
  <2> QED BY <2>1, <2>2, TradeAssumption DEF Fits
<1>4. GoodsTyped
  BY <1>3 DEF Init, GoodsTyped
<1>5. OffersFit
  BY DEF Init, OffersFit, Initiators
<1>6. Bounded
  BY TradeAssumption DEF Init, Bounded
<1> QED
  BY <1>1, <1>2, <1>4, <1>5, <1>6 DEF TypeInv

(* The thread of a step goes on with a task of its kind, and no other does. *)
LEMMA RequestTasks ==
  ASSUME TypeInv, NEW p \in Players, RequestStep(p)
  PROVE  TasksTyped'
<1>0. TasksWellFormed /\ TasksTyped /\ GoodTask(task[p])
  BY DEF TypeInv, TradeInv, TasksTyped
<1>1. CASE \E q \in Players, r \in References(p) : RequestResolve(p, q, r)
  <2>1. PICK q \in Players, r \in References(p) : RequestResolve(p, q, r)
    BY <1>1
  <2> DEFINE next == [at |-> "probe", with |-> q, ref |-> r]
  <2>2. next \in Asking
    BY ReferencesAreReferences DEF Asking
  <2>3. Continue(p, next)
    BY <2>1 DEF RequestResolve
  <2> HIDE DEF next
  <2> QED BY <1>0, <2>2, <2>3, MakingTasks, ThreadTyped
<1>2. CASE RequestProbe(p)
  <2>1. task[p] \in Asking
    BY <1>0, <1>2, TaskKinds DEF RequestProbe, At
  <2>2. PICK next \in {[task[p] EXCEPT !.at = "open"],
                       [task[p] EXCEPT !.at = "stage"], Idle} : Continue(p, next)
    BY <1>2 DEF RequestProbe
  <2>3. next \in Asking \cup {Idle}
    BY <2>1, <2>2 DEF Asking
  <2>4. GoodTask(next)
    BY <2>3, MakingTasks
  <2> QED BY <1>0, <2>2, <2>4, ThreadTyped
<1>3. CASE RequestOpen(p)
  <2> DEFINE next == [task[p] EXCEPT !.at = "stage"]
  <2>1. task[p] \in Asking
    BY <1>0, <1>3, TaskKinds DEF RequestOpen, At
  <2>2. next \in Asking
    BY <2>1 DEF Asking
  <2>3. Continue(p, next)
    BY <1>3 DEF RequestOpen
  <2> HIDE DEF next
  <2> QED BY <1>0, <2>2, <2>3, MakingTasks, ThreadTyped
<1>4. CASE RequestStage(p)
  <2>1. Continue(p, Windows(FALSE)) /\ GoodTask(Windows(FALSE))
    BY <1>4, MakingTasks DEF RequestStage
  <2> QED BY <1>0, <2>1, ThreadTyped
<1> QED
  BY <1>1, <1>2, <1>3, <1>4 DEF RequestStep

LEMMA AcceptTasks ==
  ASSUME TypeInv, NEW p \in Players, AcceptStep(p)
  PROVE  TasksTyped'
<1>0. TasksWellFormed /\ TasksTyped /\ TradesWellTyped
  BY DEF TypeInv, TradeInv
<1>1. CASE Accept(p)
  <2> DEFINE k == KeyOf(p)
             t == trades[k]
             u == IF k = p
                  THEN [t EXCEPT !.initiatorAccepted = TRUE,
                                 !.initiatorSaw = t.counterpartyItems]
                  ELSE [t EXCEPT !.counterpartyAccepted = TRUE,
                                 !.counterpartySaw = t.initiatorItems]
             b == u.initiatorAccepted /\ u.counterpartyAccepted
  <2>1. Continue(p, Windows(b))
    BY <1>1 DEF Accept
  <2>2. GoodTask(Windows(b))
    <3>1. b \in BOOLEAN
      OBVIOUS
    <3> HIDE DEF b
    <3> QED BY <3>1, MakingTasks
  <2> HIDE DEF b
  <2> QED BY <1>0, <2>1, <2>2, ThreadTyped
<1>2. CASE ShowWindows(p)
  <2>1. PICK next \in {[at |-> "execute"], Idle} : Continue(p, next)
    BY <1>2 DEF ShowWindows
  <2>2. GoodTask(next)
    BY <2>1, MakingTasks
  <2> QED BY <1>0, <2>1, <2>2, ThreadTyped
<1>3. CASE Execute(p)
  <2> DEFINE i == KeyOf(p)
             c == trades[i].counterparty
             next == [at |-> "save", queue |-> <<i, c>>, signal |-> {i, c}]
  <2>1. i \in Players /\ c \in Players
    BY <1>0, <1>3, KeyOfTrade DEF Execute, Agreed, TradesWellTyped, TradeSession
  <2>2. Continue(p, next)
    BY <1>3 DEF Execute
  <2>3. <<i, c>> \in Seq(Players) /\ {i, c} \in SUBSET Players
    BY <2>1
  <2>4. GoodTask(next)
    <3> HIDE DEF i, c
    <3> QED BY <2>3, MakingTasks
  <2> HIDE DEF next
  <2> QED BY <1>0, <2>2, <2>4, ThreadTyped
<1>4. CASE ExecuteFails(p)
  <2>1. Continue(p, [at |-> "failed"]) /\ GoodTask([at |-> "failed"])
    BY <1>4, MakingTasks DEF ExecuteFails
  <2> QED BY <1>0, <2>1, ThreadTyped
<1> QED
  BY <1>1, <1>2, <1>3, <1>4 DEF AcceptStep

LEMMA OwnTasks ==
  ASSUME TypeInv, NEW p \in Players, OwnStep(p)
  PROVE  TasksTyped'
<1>0. TasksWellFormed /\ TasksTyped /\ GoodTask(task[p])
  BY DEF TypeInv, TradeInv, TasksTyped
<1>1. CASE Reject(p) \/ CloseWindow(p)
  <2>1. task' = task
    BY <1>1 DEF Reject, CloseWindow
  <2> QED BY <1>0, <2>1 DEF TasksTyped
<1>2. CASE \E r \in References(p), c \in ContainerIds : MoveOwn(p, r, c)
  <2> DEFINE next == [at |-> "save", queue |-> <<p>>, signal |-> {}]
  <2>1. Continue(p, next)
    BY <1>2 DEF MoveOwn
  <2>2. <<p>> \in Seq(Players) /\ {} \in SUBSET Players
    OBVIOUS
  <2>3. GoodTask(next)
    BY <2>2, MakingTasks
  <2> HIDE DEF next
  <2> QED BY <1>0, <2>1, <2>3, ThreadTyped
<1>3. CASE SaveRead(p)
  <2> DEFINE q == Head(task[p].queue)
             next == [at |-> "write", queue |-> task[p].queue,
                      signal |-> task[p].signal, read |-> containers[q]]
  <2>1. /\ task[p].queue \in Seq(Players) /\ task[p].queue # <<>>
        /\ task[p].signal \in SUBSET Players
    BY <1>0, <1>3, TaskKinds DEF SaveRead, At
  <2>2. q \in Players
    BY <2>1, HeadTailProperties
  <2>3. RowFits(containers[q])
    <3> HIDE DEF q
    <3> QED BY <2>2, RowOf DEF TypeInv, GoodsTyped
  <2>4. Continue(p, next)
    BY <1>3 DEF SaveRead
  <2>5. GoodTask(next)
    <3> HIDE DEF q
    <3> QED BY <2>1, <2>3, MakingTasks
  <2> HIDE DEF next
  <2> QED BY <1>0, <2>4, <2>5, ThreadTyped
<1>4. CASE SaveWrite(p)
  <2> DEFINE next == [at |-> "save", queue |-> Tail(task[p].queue),
                      signal |-> task[p].signal]
  <2>1. /\ task[p].queue \in Seq(Players) /\ task[p].queue # <<>>
        /\ task[p].signal \in SUBSET Players
    BY <1>0, <1>4, TaskKinds DEF SaveWrite, At
  <2>2. Tail(task[p].queue) \in Seq(Players)
    BY <2>1, HeadTailProperties
  <2>3. Continue(p, next)
    BY <1>4 DEF SaveWrite
  <2>4. GoodTask(next)
    BY <2>1, <2>2, MakingTasks
  <2> HIDE DEF next
  <2> QED BY <1>0, <2>3, <2>4, ThreadTyped
<1>5. CASE SaveDone(p)
  BY <1>0, <1>5, MakingTasks, ThreadTyped DEF SaveDone
<1> QED
  BY <1>1, <1>2, <1>3, <1>4, <1>5 DEF OwnStep

LEMMA SessionTasks ==
  ASSUME TypeInv, NEW p \in Players, SessionStep(p)
  PROVE  TasksTyped'
<1>0. TasksWellFormed /\ TasksTyped /\ GoodTask(task[p])
  BY DEF TypeInv, TradeInv, TasksTyped
<1>1. CASE SessionEnds(p) \/ LoginHydrate(p)
  <2>1. Continue(p, Idle)
    BY <1>1 DEF SessionEnds, LoginHydrate
  <2> QED BY <1>0, <2>1, MakingTasks, ThreadTyped
<1>2. CASE LoginRead(p)
  <2> DEFINE next == [at |-> "login", read |-> stored[p]]
  <2>1. RowFits(stored[p])
    BY RowOf DEF TypeInv, GoodsTyped
  <2>2. Continue(p, next) /\ GoodTask(next)
    BY <1>2, <2>1, MakingTasks DEF LoginRead
  <2> HIDE DEF next
  <2> QED BY <1>0, <2>2, ThreadTyped
<1>3. CASE LoginRegister(p)
  <2> DEFINE next == [at |-> "hydrate", read |-> task[p].read]
  <2>1. RowFits(task[p].read) /\ task[p] = [at |-> "login", read |-> task[p].read]
    BY <1>0, <1>3, TaskKinds DEF LoginRegister, At
  <2>2. [task[p] EXCEPT !.at = "hydrate"] = next
    BY <2>1
  <2>3. Continue(p, next)
    BY <1>3, <2>2 DEF LoginRegister
  <2>4. GoodTask(next)
    BY <2>1, MakingTasks
  <2> HIDE DEF next
  <2> QED BY <1>0, <2>3, <2>4, ThreadTyped
<1> QED
  BY <1>1, <1>2, <1>3 DEF SessionStep

(* What a step makes of the containers of the live world: nothing, the swap *)
(* of an agreed trade, or another row for the player that steps.            *)
Swaps(p) ==
    /\ KeyOf(p) \in Initiators /\ KeyOf(p) \in Players
    /\ trades[KeyOf(p)].counterparty \in Players
    /\ trades[KeyOf(p)].initiatorAccepted /\ trades[KeyOf(p)].counterpartyAccepted
    /\ \E s : /\ Swapped(containers, s, KeyOf(p), trades[KeyOf(p)].counterparty)
              /\ containers' = s.inv
              /\ Execute(p) => s.ok

Rearranges(p) ==
    /\ containers' \in Invs /\ Fits(containers')
    /\ \A q \in Players \ {p} : containers'[q] = containers[q]
    /\ \/ At(p, "hydrate") /\ task'[p] = Idle
       \/ \A y \in Items : Count(containers', y) <= Count(containers, y)

LEMMA ExecutionSwaps ==
  ASSUME TypeInv, NEW p \in Players, Execute(p) \/ ExecuteFails(p)
  PROVE  Swaps(p)
<1> DEFINE i == KeyOf(p)
           t == trades[i]
           s == Swap(containers, i, t)
<1>1. Agreed(p)
  BY DEF Execute, ExecuteFails
<1>2. /\ i \in Initiators /\ i \in Players /\ t \in TradeSession
      /\ t.initiatorAccepted /\ t.counterpartyAccepted
  BY <1>1, KeyOfTrade DEF Agreed, TypeInv, TradeInv, TradesWellTyped
<1>3. containers' = s.inv /\ (Execute(p) => s.ok)
  BY DEF Execute, ExecuteFails
<1>4. Swapped(containers, s, i, t.counterparty)
  BY <1>2, SwapSwaps DEF TypeInv, GoodsTyped
<1>5. t.counterparty \in Players
  BY <1>2 DEF TradeSession
<1> HIDE DEF s
<1> QED
  BY <1>2, <1>3, <1>4, <1>5 DEF Swaps

LEMMA MovesRearrange ==
  ASSUME TypeInv, NEW p \in Players, NEW r \in References(p), NEW c \in ContainerIds,
         MoveOwn(p, r, c)
  PROVE  Rearranges(p)
<1>1. r \in Reference
  BY ReferencesAreReferences
<1>2. containers' = Moved(containers, p, r, c)
  BY DEF MoveOwn, Moved
<1>3. Has(containers, p, r) /\ c # r.container /\ HasRoom(containers, p, c)
  BY DEF MoveOwn
<1>4. containers \in Invs /\ Fits(containers)
  BY DEF TypeInv, GoodsTyped
<1> DEFINE jnv == Moved(containers, p, r, c)
<1>5. /\ jnv \in Invs /\ Fits(jnv)
      /\ \A q \in Players \ {p} : jnv[q] = containers[q]
      /\ \A y \in Items : Count(jnv, y) = Count(containers, y)
  BY <1>1, <1>3, <1>4, MovingMoves
<1> HIDE DEF jnv
<1>6. \A y \in Items : Count(jnv, y) <= Count(containers, y)
  <2>1. \A y \in Items : Count(containers, y) \in Nat
    BY <1>4, CopiesAre
  <2> QED BY <1>5, <2>1
<1>7. containers' = jnv
  BY <1>2 DEF jnv
<1> QED
  BY <1>5, <1>6, <1>7 DEF Rearranges

LEMMA SessionsRearrange ==
  ASSUME TypeInv, NEW p \in Players, SessionEnds(p) \/ LoginHydrate(p)
  PROVE  Rearranges(p)
<1>1. containers \in Invs /\ Fits(containers)
  BY DEF TypeInv, GoodsTyped
<1>2. CASE SessionEnds(p)
  <2> DEFINE jnv == [containers EXCEPT ![p] = NoContainers]
  <2>1. RowFits(NoContainers)
    BY DEF RowFits, NoContainers
  <2>2. /\ jnv \in Invs /\ Fits(jnv) /\ jnv[p] = NoContainers
        /\ \A q \in Players \ {p} : jnv[q] = containers[q]
    BY <1>1, <2>1, NewRow
  <2>3. containers' = jnv
    BY <1>2 DEF SessionEnds
  <2> HIDE DEF jnv
  <2>4. \A y : Count(jnv, y) <= Count(containers, y)
    BY <1>1, <2>2, LeavingDoublesNothing
  <2> QED BY <2>2, <2>3, <2>4 DEF Rearranges
<1>3. CASE LoginHydrate(p)
  <2> DEFINE jnv == [containers EXCEPT ![p] = task[p].read]
  <2>1. RowFits(task[p].read)
    BY <1>3, TaskKinds DEF LoginHydrate, At, TypeInv, TasksTyped
  <2>2. /\ jnv \in Invs /\ Fits(jnv)
        /\ \A q \in Players \ {p} : jnv[q] = containers[q]
    BY <1>1, <2>1, NewRow
  <2>3. containers' = jnv
    BY <1>3 DEF LoginHydrate
  <2> HIDE DEF jnv
  <2>4. At(p, "hydrate") /\ task'[p] = Idle
    BY <1>3 DEF LoginHydrate, Continue, TypeInv, TradeInv, TasksWellFormed
  <2> QED BY <2>2, <2>3, <2>4 DEF Rearranges
<1> QED
  BY <1>2, <1>3

LEMMA LiveGoods ==
  ASSUME TypeInv, NEW p \in Players,
         RequestStep(p) \/ AcceptStep(p) \/ OwnStep(p) \/ SessionStep(p)
  PROVE  \/ containers' = containers
         \/ Swaps(p) /\ (Execute(p) \/ ExecuteFails(p))
         \/ Rearranges(p)
<1>1. CASE RequestStep(p)
  BY <1>1 DEF RequestStep, RequestResolve, RequestProbe, RequestOpen, RequestStage
<1>2. CASE AcceptStep(p)
  <2>1. CASE Accept(p) \/ ShowWindows(p)
    BY <2>1 DEF Accept, ShowWindows
  <2>2. CASE Execute(p) \/ ExecuteFails(p)
    BY <2>2, ExecutionSwaps
  <2> QED BY <1>2, <2>1, <2>2 DEF AcceptStep
<1>3. CASE OwnStep(p)
  <2>1. CASE Reject(p) \/ CloseWindow(p) \/ SaveRead(p) \/ SaveWrite(p) \/ SaveDone(p)
    BY <2>1 DEF Reject, CloseWindow, SaveRead, SaveWrite, SaveDone
  <2>2. CASE \E r \in References(p), c \in ContainerIds : MoveOwn(p, r, c)
    BY <2>2, MovesRearrange
  <2> QED BY <1>3, <2>1, <2>2 DEF OwnStep
<1>4. CASE SessionStep(p)
  <2>1. CASE LoginRead(p) \/ LoginRegister(p)
    BY <2>1 DEF LoginRead, LoginRegister
  <2>2. CASE SessionEnds(p) \/ LoginHydrate(p)
    BY <2>2, SessionsRearrange
  <2> QED BY <1>4, <2>1, <2>2 DEF SessionStep
<1> QED
  BY <1>1, <1>2, <1>3, <1>4

LEMMA GoodsStayTyped ==
  ASSUME TypeInv, NEW p \in Players,
         RequestStep(p) \/ AcceptStep(p) \/ OwnStep(p) \/ SessionStep(p)
  PROVE  GoodsTyped'
<1>0. containers \in Invs /\ Fits(containers) /\ stored \in Invs /\ Fits(stored)
  BY DEF TypeInv, GoodsTyped
<1>1. containers' \in Invs /\ Fits(containers')
  <2>1. CASE containers' = containers
    BY <1>0, <2>1
  <2>2. CASE Swaps(p)
    <3>1. PICK s : /\ Swapped(containers, s, KeyOf(p), trades[KeyOf(p)].counterparty)
                   /\ containers' = s.inv
      BY <2>2 DEF Swaps
    <3> QED BY <3>1 DEF Swapped, Delivering
  <2>3. CASE Rearranges(p)
    BY <2>3 DEF Rearranges
  <2> QED BY <2>1, <2>2, <2>3, LiveGoods
<1>2. stored' \in Invs /\ Fits(stored')
  <2>1. CASE stored' = stored
    BY <1>0, <2>1
  <2>2. CASE SaveWrite(p)
    <3> DEFINE q == Head(task[p].queue)
               jnv == [stored EXCEPT ![q] = task[p].read]
    <3>1. /\ task[p].queue \in Seq(Players) /\ task[p].queue # <<>>
          /\ RowFits(task[p].read)
      BY <2>2, TaskKinds DEF SaveWrite, At, TypeInv, TasksTyped
    <3>2. q \in Players
      BY <3>1, HeadTailProperties
    <3>3. jnv \in Invs /\ Fits(jnv)
      <4> HIDE DEF q
      <4> QED BY <1>0, <3>1, <3>2, NewRow
    <3>4. stored' = jnv \/ stored' = stored
      BY <2>2 DEF SaveWrite
    <3> HIDE DEF jnv
    <3> QED BY <1>0, <3>3, <3>4
  <2>3. CASE RequestStep(p) \/ AcceptStep(p) \/ SessionStep(p)
    <3>1. stored' = stored
      BY <2>3 DEF RequestStep, RequestResolve, RequestProbe, RequestOpen, RequestStage,
                  AcceptStep, Accept, ShowWindows, Execute, ExecuteFails,
                  SessionStep, SessionEnds, LoginRead, LoginRegister, LoginHydrate
    <3> QED BY <2>1, <3>1
  <2>4. CASE OwnStep(p)
    <3>1. SaveWrite(p) \/ stored' = stored
      BY <2>4 DEF OwnStep, Reject, CloseWindow, MoveOwn, SaveRead, SaveDone
    <3> QED BY <2>1, <2>2, <3>1
  <2> QED BY <2>3, <2>4
<1> QED
  BY <1>1, <1>2 DEF GoodsTyped

(* stage_trade_item is the only step that makes an offer longer. *)
LEMMA OffersStayFit ==
  ASSUME TypeInv, NEW p \in Players,
         RequestStep(p) \/ AcceptStep(p) \/ OwnStep(p) \/ SessionStep(p)
  PROVE  OffersFit'
<1>0. OffersFit /\ TradesWellTyped
  BY DEF TypeInv, TradeInv
<1>1. CASE trades' = trades
  BY <1>0, <1>1 DEF OffersFit, Initiators
<1>2. CASE Execute(p) \/ Reject(p)
  <2>1. PICK S : trades' = Without(trades, S)
    BY <1>2 DEF Execute, Reject
  <2>2. \A i \in Initiators' : i \in Initiators /\ trades'[i] = trades[i]
    BY <2>1 DEF Initiators, Without
  <2> QED BY <1>0, <2>2 DEF OffersFit
<1>3. CASE RequestOpen(p)
  <2> DEFINE t == NewTrade(task[p].with)
  <2>1. t.initiatorItems = <<>> /\ t.counterpartyItems = <<>>
    BY DEF NewTrade
  <2> HIDE DEF t
  <2>2. \A i \in Initiators' : \/ trades'[i] = t
                               \/ i \in Initiators /\ trades'[i] = trades[i]
    BY <1>3 DEF RequestOpen, Initiators, With, t
  <2>3. MaxPerSide \in Nat /\ Len(<<>>) = 0
    BY TradeAssumption
  <2> QED BY <1>0, <2>1, <2>2, <2>3 DEF OffersFit
<1>4. CASE RequestStage(p)
  <2> DEFINE r == task[p].ref
             k == KeyOf(p)
             mine == Append(trades[k].initiatorItems, r)
             theirs == Append(trades[k].counterpartyItems, r)
  <2>1. k \in Initiators /\ (p \in Initiators => k = p)
    BY <1>0, <1>4, KeyOfTrade DEF RequestStage
  <2>2. /\ trades[k].initiatorItems \in Seq(Reference)
        /\ trades[k].counterpartyItems \in Seq(Reference)
        /\ trades[k] \in TradeSession
    BY <1>0, <2>1 DEF TradesWellTyped, TradeSession
  <2>3. r \in Reference
    BY <1>4, TaskKinds DEF RequestStage, At, TypeInv, TasksTyped, Asking
  <2>4. /\ Len(mine) = Len(trades[k].initiatorItems) + 1
        /\ Len(theirs) = Len(trades[k].counterpartyItems) + 1
        /\ Len(trades[k].initiatorItems) \in Nat /\ Len(trades[k].counterpartyItems) \in Nat
    BY <2>2, <2>3, AppendProperties, LenProperties
  <2>5. /\ Len(trades[k].initiatorItems) <= MaxPerSide
        /\ Len(trades[k].counterpartyItems) <= MaxPerSide
        /\ MaxPerSide \in Nat
    BY <1>0, <2>1, TradeAssumption DEF OffersFit
  <2>6. CASE p \in Initiators
    <3> DEFINE t == [trades[k] EXCEPT !.initiatorItems = mine,
                                      !.initiatorAccepted = FALSE,
                                      !.counterpartyAccepted = FALSE]
    <3>1. trades' = [trades EXCEPT ![k] = t]
      BY <1>4, <2>1, <2>6 DEF RequestStage, Staged
    <3>2. t.initiatorItems = mine /\ t.counterpartyItems = trades[k].counterpartyItems
      <4> HIDE DEF mine
      <4> QED BY <2>2 DEF TradeSession
    <3>3. Len(trades[k].initiatorItems) < MaxPerSide
      BY <1>4, <2>1, <2>6 DEF RequestStage, Offer
    <3> HIDE DEF t, mine, k
    <3>4. Initiators' = Initiators /\ \A i \in Initiators : trades'[i] = IF i = k THEN t ELSE trades[i]
      BY <2>1, <3>1 DEF Initiators
    <3>5. Len(t.initiatorItems) <= MaxPerSide /\ Len(t.counterpartyItems) <= MaxPerSide
      BY <2>4, <2>5, <3>2, <3>3
    <3> QED BY <1>0, <3>4, <3>5 DEF OffersFit
  <2>7. CASE p \notin Initiators
    <3> DEFINE t == [trades[k] EXCEPT !.counterpartyItems = theirs,
                                      !.initiatorAccepted = FALSE]
    <3>1. trades' = [trades EXCEPT ![k] = t]
      BY <1>4, <2>1, <2>7 DEF RequestStage, Staged
    <3>2. t.counterpartyItems = theirs /\ t.initiatorItems = trades[k].initiatorItems
      <4> HIDE DEF theirs
      <4> QED BY <2>2 DEF TradeSession
    <3>3. Len(trades[k].counterpartyItems) < MaxPerSide
      BY <1>4, <2>1, <2>7 DEF RequestStage, Offer
    <3> HIDE DEF t, theirs, k
    <3>4. Initiators' = Initiators /\ \A i \in Initiators : trades'[i] = IF i = k THEN t ELSE trades[i]
      BY <2>1, <3>1 DEF Initiators
    <3>5. Len(t.initiatorItems) <= MaxPerSide /\ Len(t.counterpartyItems) <= MaxPerSide
      BY <2>4, <2>5, <3>2, <3>3
    <3> QED BY <1>0, <3>4, <3>5 DEF OffersFit
  <2> QED BY <2>6, <2>7
<1>5. CASE Accept(p)
  <2> DEFINE k == KeyOf(p)
             t == trades[k]
             u == IF k = p
                  THEN [t EXCEPT !.initiatorAccepted = TRUE,
                                 !.initiatorSaw = t.counterpartyItems]
                  ELSE [t EXCEPT !.counterpartyAccepted = TRUE,
                                 !.counterpartySaw = t.initiatorItems]
  <2>1. k \in Initiators /\ t \in TradeSession
    BY <1>0, <1>5, KeyOfTrade DEF Accept, TradesWellTyped
  <2>2. trades' = [trades EXCEPT ![k] = u]
    BY <1>5 DEF Accept
  <2>3. u.initiatorItems = t.initiatorItems /\ u.counterpartyItems = t.counterpartyItems
    BY <2>1 DEF TradeSession
  <2> HIDE DEF u, k
  <2>4. Initiators' = Initiators /\ \A i \in Initiators : trades'[i] = IF i = k THEN u ELSE trades[i]
    BY <2>1, <2>2 DEF Initiators
  <2> QED BY <1>0, <2>1, <2>3, <2>4 DEF OffersFit
<1>6. \/ trades' = trades \/ Execute(p) \/ Reject(p)
      \/ RequestOpen(p) \/ RequestStage(p) \/ Accept(p)
  <2>1. CASE RequestStep(p) \/ AcceptStep(p)
    BY <2>1 DEF RequestStep, RequestResolve, RequestProbe, AcceptStep, ShowWindows, ExecuteFails
  <2>2. CASE OwnStep(p)
    BY <2>2 DEF OwnStep, CloseWindow, MoveOwn, SaveRead, SaveWrite, SaveDone
  <2>3. CASE SessionStep(p)
    BY <2>3 DEF SessionStep, SessionEnds, LoginRead, LoginRegister, LoginHydrate
  <2> QED BY <2>1, <2>2, <2>3
<1> QED
  BY <1>1, <1>2, <1>3, <1>4, <1>5, <1>6

(* Only players are online and flagged, and the bounds are kept. *)
LEMMA StaysBounded ==
  ASSUME TypeInv, NEW p \in Players,
         RequestStep(p) \/ AcceptStep(p) \/ OwnStep(p) \/ SessionStep(p)
  PROVE  Bounded'
<1>0. Bounded /\ TradesWellTyped /\ {MaxOpens, MaxMoves, MaxEnds, MaxLogins} \subseteq Nat
  BY TradeAssumption DEF TypeInv, TradeInv
<1>1. spent' \in [opens : 0..MaxOpens, moves : 0..MaxMoves,
                  ends : 0..MaxEnds, logins : 0..MaxLogins]
  <2>1. CASE spent' = spent
    BY <1>0, <2>1 DEF Bounded
  <2>2. CASE RequestOpen(p)
    BY <1>0, <2>2 DEF RequestOpen, Bounded
  <2>3. CASE \E r \in References(p), c \in ContainerIds : MoveOwn(p, r, c)
    <3>1. spent' = [spent EXCEPT !.moves = @ + 1] /\ spent.moves < MaxMoves
      BY <2>3 DEF MoveOwn
    <3> QED BY <1>0, <3>1 DEF Bounded
  <2>4. CASE SessionEnds(p)
    BY <1>0, <2>4 DEF SessionEnds, Bounded
  <2>5. CASE LoginRead(p)
    BY <1>0, <2>5 DEF LoginRead, Bounded
  <2>6. CASE RequestStep(p) \/ AcceptStep(p)
    <3>1. RequestOpen(p) \/ spent' = spent
      BY <2>6 DEF RequestStep, RequestResolve, RequestProbe, RequestStage,
                  AcceptStep, Accept, ShowWindows, Execute, ExecuteFails
    <3> QED BY <2>1, <2>2, <3>1
  <2>7. CASE OwnStep(p)
    <3>1. (\E r \in References(p), c \in ContainerIds : MoveOwn(p, r, c)) \/ spent' = spent
      BY <2>7 DEF OwnStep, Reject, CloseWindow, SaveRead, SaveWrite, SaveDone
    <3> QED BY <2>1, <2>3, <3>1
  <2>8. CASE SessionStep(p)
    <3>1. SessionEnds(p) \/ LoginRead(p) \/ spent' = spent
      BY <2>8 DEF SessionStep, LoginRegister, LoginHydrate
    <3> QED BY <2>1, <2>4, <2>5, <3>1
  <2> QED BY <2>6, <2>7, <2>8
<1>2. online' \subseteq Players
  <2>1. CASE online' = online
    BY <1>0, <2>1 DEF Bounded
  <2>2. CASE SessionEnds(p) \/ LoginRegister(p)
    BY <1>0, <2>2 DEF SessionEnds, LoginRegister, Bounded
  <2>3. CASE RequestStep(p) \/ AcceptStep(p)
    <3>1. online' = online
      BY <2>3 DEF RequestStep, RequestResolve, RequestProbe, RequestOpen, RequestStage,
                  AcceptStep, Accept, ShowWindows, Execute, ExecuteFails
    <3> QED BY <2>1, <3>1
  <2>4. CASE OwnStep(p)
    <3>1. online' = online
      BY <2>4 DEF OwnStep, Reject, CloseWindow, MoveOwn, SaveRead, SaveWrite, SaveDone
    <3> QED BY <2>1, <3>1
  <2>5. CASE SessionStep(p)
    <3>1. SessionEnds(p) \/ LoginRegister(p) \/ online' = online
      BY <2>5 DEF SessionStep, LoginRead, LoginHydrate
    <3> QED BY <2>1, <2>2, <3>1
  <2> QED BY <2>3, <2>4, <2>5
<1>3. closing' \subseteq Players
  <2>1. CASE closing' = closing
    BY <1>0, <2>1 DEF Bounded
  <2>2. CASE Reject(p)
    <3>1. p \in Initiators => trades[p].counterparty \in Players
      BY <1>0 DEF TradesWellTyped, TradeSession
    <3> QED BY <1>0, <2>2, <3>1 DEF Reject, Bounded
  <2>3. CASE CloseWindow(p)
    BY <1>0, <2>3 DEF CloseWindow, Bounded
  <2>4. CASE SaveDone(p)
    <3>1. task[p].signal \in SUBSET Players
      BY <2>4, TaskKinds DEF SaveDone, At, TypeInv, TasksTyped
    <3> QED BY <1>0, <2>4, <3>1 DEF SaveDone, Bounded
  <2>5. CASE RequestStep(p) \/ AcceptStep(p)
    <3>1. closing' = closing
      BY <2>5 DEF RequestStep, RequestResolve, RequestProbe, RequestOpen, RequestStage,
                  AcceptStep, Accept, ShowWindows, Execute, ExecuteFails
    <3> QED BY <2>1, <3>1
  <2>6. CASE OwnStep(p)
    <3>1. Reject(p) \/ CloseWindow(p) \/ SaveDone(p) \/ closing' = closing
      BY <2>6 DEF OwnStep, MoveOwn, SaveRead, SaveWrite
    <3> QED BY <2>1, <2>2, <2>3, <2>4, <3>1
  <2>7. CASE SessionStep(p)
    <3>1. closing' = closing
      BY <2>7 DEF SessionStep, SessionEnds, LoginRead, LoginRegister, LoginHydrate
    <3> QED BY <2>1, <3>1
  <2> QED BY <2>5, <2>6, <2>7
<1> QED
  BY <1>1, <1>2, <1>3 DEF Bounded

LEMMA NextTypeInv == TypeInv /\ [Next]_vars => TypeInv'
<1> SUFFICES ASSUME TypeInv, [Next]_vars
             PROVE  TypeInv'
  OBVIOUS
<1>0. TradeInv'
  BY NextTradeInv DEF TypeInv
<1>1. CASE Next
  <2>1. PICK p \in Players :
           RequestStep(p) \/ AcceptStep(p) \/ OwnStep(p) \/ SessionStep(p)
    BY <1>1 DEF Next
  <2>2. TasksTyped'
    BY <2>1, RequestTasks, AcceptTasks, OwnTasks, SessionTasks
  <2>3. GoodsTyped' /\ OffersFit' /\ Bounded'
    BY <2>1, GoodsStayTyped, OffersStayFit, StaysBounded
  <2> QED BY <1>0, <2>2, <2>3 DEF TypeInv
<1>2. CASE UNCHANGED vars
  <2>1. TasksTyped' /\ GoodsTyped' /\ OffersFit' /\ Bounded'
    BY <1>2 DEF vars, TypeInv, TasksTyped, GoodsTyped, OffersFit, Initiators, Bounded
  <2> QED BY <1>0, <2>1 DEF TypeInv
<1> QED
  BY <1>1, <1>2

LEMMA TypeInvariant == Spec => []TypeInv
BY InitTypeInv, NextTypeInv, PTL DEF Spec

(* No container that a swap, a restore after a failed swap, a move or a     *)
(* login fills holds more than its capacity, live or in the database, and   *)
(* no side of a trade ever offers more than MAX_TRADE_ITEMS_PER_SIDE items. *)
THEOREM ContainersNeverOverflow == Spec => []TypeOK
<1>1. TypeInv => TypeOK
  <2> SUFFICES ASSUME TypeInv PROVE TypeOK
    OBVIOUS
  <2>1. \A i \in Initiators : /\ trades[i] \in TradeSession
                              /\ Len(trades[i].initiatorItems) <= MaxPerSide
                              /\ Len(trades[i].counterpartyItems) <= MaxPerSide
    BY DEF TypeInv, TradeInv, TradesWellTyped, OffersFit
  <2>2. ASSUME NEW p \in Players
        PROVE  /\ stored[p] \in Inventory \cup {NoContainers}
               /\ containers[p] \in Inventory \cup {NoContainers}
               /\ \A c \in DOMAIN containers[p] : Len(containers[p][c]) <= Capacity[c]
               /\ \A c \in DOMAIN stored[p] : Len(stored[p][c]) <= Capacity[c]
               /\ task[p] \in Task
    BY DEF TypeInv, GoodsTyped, Invs, Fits, TasksTyped, GoodTask
  <2> QED BY <2>1, <2>2 DEF TypeInv, TradeInv, TradesWellTyped, Bounded, TypeOK
<1> QED
  BY <1>1, TypeInvariant, PTL

----------------------------------------------------------------------------
(* Goods on their way between players *)

(* What one step may do to who holds what. *)
Passing ==
    containers' # containers =>
        \A p, q \in Players : p # q =>
          \A item \in Held(containers, p) \ Held(containers, q) :
              item \in Held(containers', q) \ Held(containers', p) =>
                  \E i \in {p, q} \cap Initiators :
                      /\ {i, trades[i].counterparty} = {p, q}
                      /\ trades[i].initiatorAccepted
                      /\ trades[i].counterpartyAccepted

LEMMA StepPasses == TypeInv /\ [Next]_vars => [Passing]_vars
<1> SUFFICES ASSUME TypeInv, Next, containers' # containers,
                    NEW p \in Players, NEW q \in Players, p # q,
                    NEW item \in Held(containers, p) \ Held(containers, q),
                    item \in Held(containers', q) \ Held(containers', p)
             PROVE  \E i \in {p, q} \cap Initiators :
                       /\ {i, trades[i].counterparty} = {p, q}
                       /\ trades[i].initiatorAccepted
                       /\ trades[i].counterpartyAccepted
  BY DEF Passing
<1>1. containers'[p] # containers[p] /\ containers'[q] # containers[q]
  <2>1. containers'[p] = containers[p] => Held(containers', p) = Held(containers, p)
    BY Zenon DEF Held
  <2>2. containers'[q] = containers[q] => Held(containers', q) = Held(containers, q)
    BY Zenon DEF Held
  <2> QED BY <2>1, <2>2
<1>2. PICK r \in Players : RequestStep(r) \/ AcceptStep(r) \/ OwnStep(r) \/ SessionStep(r)
  BY DEF Next
<1>3. CASE Rearranges(r)
  BY <1>1, <1>3 DEF Rearranges
<1>4. CASE Swaps(r)
  <2> DEFINE i == KeyOf(r)
             c == trades[i].counterparty
  <2>1. /\ i \in Initiators /\ trades[i].initiatorAccepted /\ trades[i].counterpartyAccepted
        /\ \A j \in Players \ {i, c} : containers'[j] = containers[j]
    BY <1>4 DEF Swaps, Swapped
  <2> HIDE DEF i
  <2>2. p \in {i, c} /\ q \in {i, c}
    BY <1>1, <2>1
  <2>3. {i, c} = {p, q} /\ i \in {p, q}
    BY <2>2
  <2> QED BY <2>1, <2>3
<1> QED
  BY <1>2, <1>3, <1>4, LiveGoods

(* The world lock of execute_player_trade guards the only way goods go from *)
(* one player to another: whatever the sessions do between the windows, the *)
(* acceptances and the execution, both sides have accepted in that step.    *)
THEOREM GoodsOnlyPassByAgreement == Spec => GoodsPassByAgreement
<1>1. [][Passing]_vars => GoodsPassByAgreement
  BY PTL DEF Passing, GoodsPassByAgreement
<1> QED
  BY <1>1, TypeInvariant, StepPasses, PTL DEF Spec

Keeping ==
    /\ containers' # containers =>
          \/ \E p \in Players : At(p, "hydrate") /\ task'[p] = Idle
          \/ \A item \in Items : Cardinality(Copies(containers', item))
                                   <= Cardinality(Copies(containers, item))
    /\ \A p \in Players : Executed(p) =>
          LET i == KeyOf(p)
              c == trades[i].counterparty
          IN  Held(containers', i) \cup Held(containers', c)
                = Held(containers, i) \cup Held(containers, c)

(* The step that takes a thread from "execute" to "save" is its Execute. *)
LEMMA ExecutedByExecute ==
  ASSUME TypeInv, NEW r \in Players,
         RequestStep(r) \/ AcceptStep(r) \/ OwnStep(r) \/ SessionStep(r),
         NEW p \in Players, Executed(p)
  PROVE  p = r /\ Execute(p)
<1>0. TasksWellFormed /\ At(p, "execute") /\ task'[p].at = "save"
  BY DEF TypeInv, TradeInv, Executed
<1>1. ASSUME NEW next, Continue(r, next) PROVE r = p /\ next.at = "save"
  BY <1>0, <1>1 DEF Continue, TasksWellFormed, At
<1>2. task' # task
  BY <1>0 DEF At
<1>3. CASE RequestStep(r)
  <2>1. /\ \E next : Continue(r, next)
        /\ ~At(r, "execute")
    BY <1>3 DEF RequestStep, RequestResolve, RequestProbe, RequestOpen, RequestStage, At
  <2> QED BY <1>0, <1>1, <2>1
<1>4. CASE AcceptStep(r)
  <2>1. CASE Accept(r) \/ ShowWindows(r)
    <3>1. (\E next : Continue(r, next)) /\ ~At(r, "execute")
      BY <2>1 DEF Accept, ShowWindows, At
    <3> QED BY <1>0, <1>1, <3>1
  <2>2. CASE ExecuteFails(r)
    <3>1. Continue(r, [at |-> "failed"])
      BY <2>2 DEF ExecuteFails
    <3> QED BY <1>1, <3>1
  <2>3. CASE Execute(r)
    <3>1. \E next : Continue(r, next)
      BY <2>3 DEF Execute
    <3> QED BY <1>1, <2>3, <3>1
  <2> QED BY <1>4, <2>1, <2>2, <2>3 DEF AcceptStep
<1>5. CASE OwnStep(r)
  <2>1. /\ \E next : Continue(r, next)
        /\ ~At(r, "execute")
    BY <1>2, <1>5 DEF OwnStep, Reject, CloseWindow, MoveOwn, SaveRead, SaveWrite, SaveDone, At
  <2> QED BY <1>0, <1>1, <2>1
<1>6. CASE SessionStep(r)
  <2>1. CASE SessionEnds(r)
    <3>1. Continue(r, Idle)
      BY <2>1 DEF SessionEnds
    <3> QED BY <1>1, <3>1 DEF Idle
  <2>2. CASE LoginRead(r) \/ LoginRegister(r) \/ LoginHydrate(r)
    <3>1. (\E next : Continue(r, next)) /\ ~At(r, "execute")
      BY <2>2 DEF LoginRead, LoginRegister, LoginHydrate, At
    <3> QED BY <1>0, <1>1, <3>1
  <2> QED BY <1>6, <2>1, <2>2 DEF SessionStep
<1> QED
  BY <1>3, <1>4, <1>5, <1>6

LEMMA StepKeeps == TypeInv /\ [Next]_vars => [Keeping]_vars
<1> SUFFICES ASSUME TypeInv, Next
             PROVE  Keeping
  OBVIOUS
<1>1. PICK r \in Players : RequestStep(r) \/ AcceptStep(r) \/ OwnStep(r) \/ SessionStep(r)
  BY DEF Next
<1>2. ASSUME containers' # containers
      PROVE  \/ \E p \in Players : At(p, "hydrate") /\ task'[p] = Idle
             \/ \A item \in Items : Count(containers', item) <= Count(containers, item)
  <2>1. CASE Rearranges(r)
    BY <2>1 DEF Rearranges
  <2>2. CASE Swaps(r)
    BY <2>2 DEF Swaps, Swapped
  <2> QED BY <1>1, <1>2, <2>1, <2>2, LiveGoods
<1>3. ASSUME NEW p \in Players, Executed(p)
      PROVE  Held(containers', KeyOf(p)) \cup Held(containers', trades[KeyOf(p)].counterparty)
                = Held(containers, KeyOf(p)) \cup Held(containers, trades[KeyOf(p)].counterparty)
  <2>1. Execute(p)
    BY <1>1, <1>3, ExecutedByExecute
  <2>2. Swaps(p)
    BY <2>1, ExecutionSwaps
  <2>3. PICK s : /\ Swapped(containers, s, KeyOf(p), trades[KeyOf(p)].counterparty)
                 /\ containers' = s.inv /\ s.ok
    BY <2>1, <2>2 DEF Swaps
  <2> QED BY <2>3 DEF Swapped
<1> QED
  BY <1>2, <1>3 DEF Keeping, Count

(* remove_offered, deliver and the restores of a failed swap double no item *)
(* whatever sessions interleave ("anti-dupe"), and a trade that is executed *)
(* loses none: only a login brings goods of the database into the world.    *)
THEOREM GoodsAlwaysKept == Spec => GoodsAreKept
<1>1. [][Keeping]_vars => GoodsAreKept
  BY PTL DEF Keeping, GoodsAreKept
<1> QED
  BY <1>1, TypeInvariant, StepKeeps, PTL DEF Spec

=============================================================================
