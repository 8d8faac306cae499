--------------------------- MODULE Refresh_proofs ---------------------------
(***************************************************************************)
(* Proofs about the refresh of the clients, for any sets of players, movers, *)
(* partners and creatures: the type invariant, and that what a client has    *)
(* not been shown is still to come.                                         *)
(*                                                                         *)
(* Both pending-change invariants are inductive once they also speak of a    *)
(* session that has sent its frames and not yet stored the sample they were  *)
(* built after: as long as the sample is not old, storing it skips nothing.  *)
(***************************************************************************)
EXTENDS Refresh, TLAPS

\* Steps of a session that only move its program counter.
ControlOnly(p) ==
  \/ SkipHydration(p) \/ Pause(p) \/ Ignore(p) \/ ViewUpToDate(p) \/ SampleVisibility(p)
  \/ ShieldsUpToDate(p, "top", "read") \/ ShieldsUpToDate(p, "paused", "idle")
  \/ SampleParty(p, "top", "shields") \/ SampleParty(p, "paused", "pausedShields")

\* The two places where the shields are sent and where their sample is stored.
SendsShields(p) ==
  \/ SendShields(p, "shields", "shieldsSent")
  \/ SendShields(p, "pausedShields", "pausedShieldsSent")

StoresParty(p) ==
  \/ Store(p, "party", "shieldsSent", "read")
  \/ Store(p, "party", "pausedShieldsSent", "idle")

\* What a session changes without moving an epoch yet.
OwnChange(p) == Dress(p) \/ Turn(p) \/ Land(p)

PartyChange(p) == HydrateParty(p) \/ ChangeParty(p)

PartyAnnounced(p) == AnnounceHydration(p) \/ AnnounceParty(p)

WholeView(p) == SendView(p) \/ SendStats(p) \/ SendDestination(p)

Steps(p) ==
  \/ ControlOnly(p) \/ SendsShields(p) \/ StoresParty(p) \/ StoreVisibility(p)
  \/ OwnChange(p) \/ PartyChange(p) \/ PartyAnnounced(p) \/ WholeView(p)
  \/ Register(p) \/ Announce(p) \/ ReadSpawns(p) \/ ReadPlayers(p)
  \/ TakeBaselines(p) \/ Walk(p) \/ SendStrip(p) \/ Resynchronise(p)
  \/ Leave(p) \/ AnnounceDeparture(p)

\* The actions sorted by what they do, which is how the proofs go through them.
LEMMA StepsAreNext ==
  Next => (\E p \in Players : Steps(p)) \/ HeartbeatMoves \/ HeartbeatAnnounces
BY Zenon DEF Next, Serve, Login, Idle, Act, Heartbeat, RefreshShields, Steps,
  ControlOnly, SendsShields, StoresParty, OwnChange, PartyChange, PartyAnnounced,
  WholeView

---------------------------------------------------------------------------
(* The phases by kind: with these facts no proof has to expand the sets. *)

LEMMA LoopingPhases ==
  /\ "top" \in Looping /\ "shields" \in Looping /\ "shieldsSent" \in Looping
  /\ "read" \in Looping /\ "paused" \in Looping /\ "pausedShields" \in Looping
  /\ "pausedShieldsSent" \in Looping /\ "idle" \in Looping /\ "view" \in Looping
  /\ "viewSent" \in Looping /\ "statsSent" \in Looping /\ "clickWalk" \in Looping
  /\ "turned" \in Looping /\ "turnDone" \in Looping
  /\ "moved" \in Looping /\ "moveDone" \in Looping /\ "landed" \in Looping
  /\ "landDone" \in Looping /\ "drawn" \in Looping /\ "partyChanged" \in Looping
BY DEF Looping

LEMMA LoginPhases ==
  /\ "offline" \in Phases \ Looping /\ "registered" \in Phases \ Looping
  /\ "hydrated" \in Phases \ Looping /\ "joined" \in Phases \ Looping
  /\ "dressed" \in Phases \ Looping /\ "ready" \in Phases \ Looping
  /\ "spawnsRead" \in Phases \ Looping /\ "playersRead" \in Phases \ Looping
BY DEF Phases, Looping

LEMMA LoopingIsPhases == Looping \subseteq Phases
BY DEF Phases

LEMMA SamplerPhases ==
  Samplers = {"view", "viewSent", "shields", "shieldsSent",
              "pausedShields", "pausedShieldsSent"}
BY DEF Samplers, Sampling

LEMMA SamplersAreLooping == Samplers \subseteq Looping
BY SamplerPhases, LoopingPhases

LEMMA NoShieldsType == NoShields \in [Players -> Shield]
BY DEF NoShields, Shield

---------------------------------------------------------------------------
(* What the parts of a step do to the types. *)

\* A session that goes somewhere leaves the others where they are.
LEMMA GotoMoves ==
  ASSUME Types, NEW p \in Players, NEW there \in Phases, Goto(p, there)
  PROVE  /\ phase' \in [Players -> Phases]
         /\ phase'[p] = there
         /\ \A o \in Players \ {p} : phase'[o] = phase[o]
BY DEF Types, Goto

\* A change disturbs nobody beyond the things there are, and not its author.
LEMMA DisturbedType ==
  ASSUME NEW S \in SUBSET Things, Types
  PROVE  /\ Disturbed(S) \in [Players -> SUBSET Things]
         /\ \A p \in Players : S \subseteq {p} => Disturbed(S)[p] \subseteq stale[p]
BY DEF Disturbed, Types

LEMMA OutdatedType ==
  ASSUME Types
  PROVE  /\ ShieldsOutdated \in [Players -> [Players -> Shield]]
         /\ \A p, q \in Players :
              shields[p][q] = "none" => ShieldsOutdated[p][q] = "none"
         /\ \A p \in Players :
              shields[p] = NoShields => ShieldsOutdated[p] = NoShields
BY DEF ShieldsOutdated, Types, Shield, NoShields

LEMMA WipedType ==
  ASSUME NEW p \in Players, NEW drawn, Types
  PROVE  /\ Wiped(p, drawn) \in [Players -> Shield]
         /\ \A q \in Players : shields[p][q] = "none" => Wiped(p, drawn)[q] = "none"
         /\ \A q \in drawn \cap Players : Wiped(p, drawn)[q] = "none"
BY DEF Wiped, Types, Shield

LEMMA AdvanceType ==
  ASSUME NEW es \in SUBSET Epoch, Types, Advance(es)
  PROVE  /\ due' \in [Players -> SUBSET Epoch]
         /\ passed' \subseteq Players
         /\ \A o \in passed' : o \in passed \/ phase[o] \in Samplers
BY DEF Advance, Types, Samplers, Epoch, Sampling

---------------------------------------------------------------------------
(* The type invariant. *)

LEMMA TypeInit == Init => TypeOK
BY LoginPhases, NoShieldsType
   DEF Init, TypeOK, Types, OldSamplesAreHeld, LoginIsQuiet, NoShields, Things, Epoch

LEMMA TypesStep == TypeOK /\ [Next]_vars => Types'
<1> SUFFICES ASSUME TypeOK, [Next]_vars PROVE Types'
  OBVIOUS
<1> USE LoopingPhases, LoginPhases, LoopingIsPhases DEF TypeOK
<1> USE DEF Goto, Types
<1>1. ASSUME NEW p \in Players, ControlOnly(p) PROVE Types'
  BY <1>1 DEF ControlOnly, SkipHydration, Pause, Ignore, ViewUpToDate, SampleVisibility,
     ShieldsUpToDate, SampleParty
<1>2. ASSUME NEW p \in Players, SendsShields(p) PROVE Types'
  <2>1. PICK to \in Phases : SendShields(p, phase[p], to)
    BY <1>2 DEF SendsShields, SendShields
  <2>2. [q \in Players |-> IF q \in Online \ {p} THEN "current" ELSE shields[p][q]]
          \in [Players -> Shield]
    BY DEF Shield
  <2> QED
    BY <2>1, <2>2 DEF SendShields
<1>3. ASSUME NEW p \in Players, StoresParty(p) \/ StoreVisibility(p) PROVE Types'
  BY <1>3 DEF StoresParty, StoreVisibility, Store
<1>4. ASSUME NEW p \in Players, OwnChange(p) PROVE Types'
  <2> {p} \in SUBSET Things
    BY DEF Things
  <2> QED
    BY <1>4, DisturbedType DEF OwnChange, Dress, Turn, Land
<1>5. ASSUME NEW p \in Players, PartyChange(p) PROVE Types'
  BY <1>5, OutdatedType DEF PartyChange, HydrateParty, ChangeParty
<1>6. ASSUME NEW p \in Players, PartyAnnounced(p) PROVE Types'
  <2> {"party"} \in SUBSET Epoch
    BY DEF Epoch
  <2> QED
    BY <1>6, AdvanceType DEF PartyAnnounced, AnnounceHydration, AnnounceParty
<1>7. ASSUME NEW p \in Players, WholeView(p) PROVE Types'
  <2>1. PICK to \in {"viewSent", "statsSent", "drawn"} :
          /\ phase' = [phase EXCEPT ![p] = to]
          /\ shields' = [shields EXCEPT ![p] = Wiped(p, Online)]
    BY <1>7 DEF WholeView, SendView, SendStats, SendDestination
  <2>2. Wiped(p, Online) \in [Players -> Shield]
    BY WipedType
  <2> QED
    BY <1>7, <2>1, <2>2 DEF WholeView, SendView, SendStats, SendDestination
<1>8. ASSUME NEW p \in Players, Register(p) PROVE Types'
  <2> {"visibility"} \in SUBSET Epoch /\ {p} \in SUBSET Things
    BY DEF Epoch, Things
  <2> Things \ {p} \in SUBSET Things
    OBVIOUS
  <2> QED
    BY <1>8, DisturbedType, AdvanceType DEF Register
<1>9. ASSUME NEW p \in Players, Announce(p) PROVE Types'
  <2> {"visibility"} \in SUBSET Epoch
    BY DEF Epoch
  <2>1. After[phase[p]] \in {"ready", "turnDone", "moveDone", "landDone"}
    BY <1>9 DEF Announce, Unannounced, After
  <2>2. phase' \in [Players -> Phases]
    BY <1>9, <2>1 DEF Announce
  <2>3. due' \in [Players -> SUBSET Epoch] /\ passed' \subseteq Players
    BY <1>9, AdvanceType DEF Announce
  <2> QED
    BY <1>9, <2>2, <2>3 DEF Announce
<1>10. ASSUME NEW p \in Players, ReadSpawns(p) \/ ReadPlayers(p) PROVE Types'
  BY <1>10 DEF ReadSpawns, ReadPlayers
<1>11. ASSUME NEW p \in Players, TakeBaselines(p) \/ Resynchronise(p) PROVE Types'
  BY <1>11 DEF TakeBaselines, Resynchronise, Baseline
<1>12. ASSUME NEW p \in Players, Walk(p) PROVE Types'
  <2> {p} \in SUBSET Things
    BY DEF Things
  <2>1. Disturbed({p}) \in [Players -> SUBSET Things]
    BY DisturbedType
  <2>2. stale' \in [Players -> SUBSET Things]
    BY <1>12, <2>1 DEF Walk
  <2>3. lost' \in [Players -> SUBSET Things]
    BY <1>12 DEF Walk
  <2> QED
    BY <1>12, <2>2, <2>3 DEF Walk
<1>13. ASSUME NEW p \in Players, SendStrip(p) PROVE Types'
  BY <1>13, WipedType DEF SendStrip
<1>14. ASSUME NEW p \in Players, Leave(p) PROVE Types'
  <2> {p} \in SUBSET Things
    BY DEF Things
  <2> QED
    BY <1>14, DisturbedType, OutdatedType, NoShieldsType DEF Leave
<1>15. ASSUME NEW p \in Players, AnnounceDeparture(p) PROVE Types'
  <2> {"visibility", "party"} \in SUBSET Epoch /\ {p} \in SUBSET Things
    BY DEF Epoch, Things
  <2> QED
    BY <1>15, DisturbedType, AdvanceType DEF AnnounceDeparture
<1>16. CASE HeartbeatMoves
  <2>1. PICK moved \in SUBSET (Creatures \cup (Movers \cap Online)) :
          walked' = moved /\ stale' = Disturbed(moved)
    BY <1>16 DEF HeartbeatMoves
  <2>2. moved \in SUBSET Things
    BY <2>1, RefreshAssumption DEF Things
  <2> QED
    BY <1>16, <2>1, <2>2, DisturbedType DEF HeartbeatMoves
<1>17. CASE HeartbeatAnnounces
  <2> {"visibility"} \in SUBSET Epoch
    BY DEF Epoch
  <2> QED
    BY <1>17, AdvanceType DEF HeartbeatAnnounces
<1>18. CASE UNCHANGED vars
  BY <1>18 DEF vars
<1> QED
  BY StepsAreNext, <1>1, <1>2, <1>3, <1>4, <1>5, <1>6, <1>7, <1>8, <1>9, <1>10, <1>11,
     <1>12, <1>13, <1>14, <1>15, <1>16, <1>17, <1>18 DEF Steps

\* The steps in which a session holds no old sample, or drops the one it holds.
LEMMA SamplesStep == TypeOK /\ [Next]_vars => OldSamplesAreHeld'
<1> SUFFICES ASSUME TypeOK, [Next]_vars PROVE OldSamplesAreHeld'
  OBVIOUS
<1> USE SamplerPhases DEF TypeOK
<1> USE DEF Goto, Types, OldSamplesAreHeld
<1>1. ASSUME NEW p \in Players, ControlOnly(p) PROVE OldSamplesAreHeld'
  BY <1>1 DEF ControlOnly, SkipHydration, Pause, Ignore, ViewUpToDate, SampleVisibility,
     ShieldsUpToDate, SampleParty
<1>2. ASSUME NEW p \in Players, SendsShields(p) PROVE OldSamplesAreHeld'
  BY <1>2 DEF SendsShields, SendShields
<1>3. ASSUME NEW p \in Players, StoresParty(p) \/ StoreVisibility(p)
      PROVE  OldSamplesAreHeld'
  BY <1>3 DEF StoresParty, StoreVisibility, Store
<1>4. ASSUME NEW p \in Players, OwnChange(p) PROVE OldSamplesAreHeld'
  BY <1>4 DEF OwnChange, Dress, Turn, Land
<1>5. ASSUME NEW p \in Players, PartyChange(p) PROVE OldSamplesAreHeld'
  BY <1>5 DEF PartyChange, HydrateParty, ChangeParty
<1>6. ASSUME NEW p \in Players, PartyAnnounced(p) PROVE OldSamplesAreHeld'
  <2> {"party"} \in SUBSET Epoch
    BY DEF Epoch
  <2> QED
    BY <1>6, AdvanceType DEF PartyAnnounced, AnnounceHydration, AnnounceParty
<1>7. ASSUME NEW p \in Players, WholeView(p) PROVE OldSamplesAreHeld'
  BY <1>7 DEF WholeView, SendView, SendStats, SendDestination
<1>8. ASSUME NEW p \in Players, Register(p) PROVE OldSamplesAreHeld'
  <2> {"visibility"} \in SUBSET Epoch
    BY DEF Epoch
  <2> QED
    BY <1>8, AdvanceType DEF Register
<1>9. ASSUME NEW p \in Players, Announce(p) PROVE OldSamplesAreHeld'
  <2> {"visibility"} \in SUBSET Epoch
    BY DEF Epoch
  <2> QED
    BY <1>9, AdvanceType DEF Announce, Unannounced
<1>10. ASSUME NEW p \in Players, ReadSpawns(p) \/ ReadPlayers(p)
       PROVE  OldSamplesAreHeld'
  BY <1>10 DEF ReadSpawns, ReadPlayers
<1>11. ASSUME NEW p \in Players, TakeBaselines(p) \/ Resynchronise(p)
       PROVE  OldSamplesAreHeld'
  BY <1>11 DEF TakeBaselines, Resynchronise, Baseline
<1>12. ASSUME NEW p \in Players, Walk(p) PROVE OldSamplesAreHeld'
  BY <1>12 DEF Walk
<1>13. ASSUME NEW p \in Players, SendStrip(p) PROVE OldSamplesAreHeld'
  BY <1>13 DEF SendStrip
<1>14. ASSUME NEW p \in Players, Leave(p) PROVE OldSamplesAreHeld'
  BY <1>14 DEF Leave
<1>15. ASSUME NEW p \in Players, AnnounceDeparture(p) PROVE OldSamplesAreHeld'
  <2> {"visibility", "party"} \in SUBSET Epoch
    BY DEF Epoch
  <2> QED
    BY <1>15, AdvanceType DEF AnnounceDeparture
<1>16. CASE HeartbeatMoves
  BY <1>16 DEF HeartbeatMoves
<1>17. CASE HeartbeatAnnounces
  <2> {"visibility"} \in SUBSET Epoch
    BY DEF Epoch
  <2> QED
    BY <1>17, AdvanceType DEF HeartbeatAnnounces
<1>18. CASE UNCHANGED vars
  BY <1>18 DEF vars
<1> QED
  BY StepsAreNext, <1>1, <1>2, <1>3, <1>4, <1>5, <1>6, <1>7, <1>8, <1>9, <1>10, <1>11,
     <1>12, <1>13, <1>14, <1>15, <1>16, <1>17, <1>18 DEF Steps

LEMMA QuietStep == TypeOK /\ [Next]_vars => LoginIsQuiet'
<1> SUFFICES ASSUME TypeOK, [Next]_vars PROVE LoginIsQuiet'
  OBVIOUS
<1> USE LoopingPhases, LoginPhases DEF TypeOK
<1> USE DEF Goto, Types, LoginIsQuiet
<1>1. ASSUME NEW p \in Players, ControlOnly(p) PROVE LoginIsQuiet'
  BY <1>1 DEF ControlOnly, SkipHydration, Pause, Ignore, ViewUpToDate, SampleVisibility,
     ShieldsUpToDate, SampleParty
<1>2. ASSUME NEW p \in Players, SendsShields(p) PROVE LoginIsQuiet'
  BY <1>2 DEF SendsShields, SendShields
<1>3. ASSUME NEW p \in Players, StoresParty(p) \/ StoreVisibility(p) PROVE LoginIsQuiet'
  BY <1>3 DEF StoresParty, StoreVisibility, Store
<1>4. ASSUME NEW p \in Players, OwnChange(p) PROVE LoginIsQuiet'
  BY <1>4 DEF OwnChange, Dress, Turn, Land
<1>5. ASSUME NEW p \in Players, PartyChange(p) PROVE LoginIsQuiet'
  BY <1>5, OutdatedType DEF PartyChange, HydrateParty, ChangeParty
<1>6. ASSUME NEW p \in Players, PartyAnnounced(p) PROVE LoginIsQuiet'
  BY <1>6 DEF PartyAnnounced, AnnounceHydration, AnnounceParty, Advance
<1>7. ASSUME NEW p \in Players, WholeView(p) PROVE LoginIsQuiet'
  <2>1. PICK to \in {"viewSent", "statsSent", "drawn"} :
          /\ phase' = [phase EXCEPT ![p] = to]
          /\ shields' = [shields EXCEPT ![p] = Wiped(p, Online)]
    BY <1>7 DEF WholeView, SendView, SendStats, SendDestination
  <2>2. due' = due
    BY <1>7 DEF WholeView, SendView, SendStats, SendDestination
  <2> QED
    BY <2>1, <2>2, WipedType
<1>8. ASSUME NEW p \in Players, Register(p) PROVE LoginIsQuiet'
  BY <1>8 DEF Register, Advance
<1>9. ASSUME NEW p \in Players, Announce(p) PROVE LoginIsQuiet'
  BY <1>9 DEF Announce, Unannounced, After, Advance
<1>10. ASSUME NEW p \in Players, ReadSpawns(p) \/ ReadPlayers(p) PROVE LoginIsQuiet'
  BY <1>10 DEF ReadSpawns, ReadPlayers
<1>11. ASSUME NEW p \in Players, TakeBaselines(p) \/ Resynchronise(p) PROVE LoginIsQuiet'
  BY <1>11 DEF TakeBaselines, Resynchronise, Baseline
<1>12. ASSUME NEW p \in Players, Walk(p) PROVE LoginIsQuiet'
  BY <1>12 DEF Walk
<1>13. ASSUME NEW p \in Players, SendStrip(p) PROVE LoginIsQuiet'
  BY <1>13, WipedType DEF SendStrip
<1>14. ASSUME NEW p \in Players, Leave(p) PROVE LoginIsQuiet'
  BY <1>14, OutdatedType DEF Leave, NoShields
<1>15. ASSUME NEW p \in Players, AnnounceDeparture(p) PROVE LoginIsQuiet'
  BY <1>15 DEF AnnounceDeparture, Advance
<1>16. CASE HeartbeatMoves
  BY <1>16 DEF HeartbeatMoves
<1>17. CASE HeartbeatAnnounces
  BY <1>17 DEF HeartbeatAnnounces, Advance
<1>18. CASE UNCHANGED vars
  BY <1>18 DEF vars
<1> QED
  BY StepsAreNext, <1>1, <1>2, <1>3, <1>4, <1>5, <1>6, <1>7, <1>8, <1>9, <1>10, <1>11,
     <1>12, <1>13, <1>14, <1>15, <1>16, <1>17, <1>18 DEF Steps

LEMMA TypeStep == TypeOK /\ [Next]_vars => TypeOK'
BY TypesStep, SamplesStep, QuietStep DEF TypeOK

\* Every variable keeps its type; only a session that holds a sample holds an old
\* one, and nothing is due or sent to a session before its game loop.
THEOREM TypeInvariant == Spec => []TypeOK
BY TypeInit, TypeStep, PTL DEF Spec

---------------------------------------------------------------------------
(* No change of the world is skipped. *)

\* Storing the sample now would skip nothing, or the session would not draw.
ViewSettled(p) ==
  \/ phase[p] \in Looping /\ "visibility" \notin due[p]
  \/ phase[p] = "viewSent" /\ p \notin passed

\* The inductive form of StaleViewsArePending.
ViewInv ==
  \A p \in Players : ViewSettled(p) => stale[p] \subseteq lost[p] \cup Unmarked

\* Once the visibility epoch moves no view is settled.
LEMMA AdvanceUnsettles ==
  ASSUME TypeOK, NEW es \in SUBSET Epoch, "visibility" \in es, Advance(es),
         NEW o \in Players,
         \/ phase'[o] = phase[o]
         \/ phase'[o] \notin Looping
         \/ phase[o] \in Looping /\ phase'[o] # "viewSent"
  PROVE  /\ phase'[o] \in Looping => "visibility" \in due'[o]
         /\ phase'[o] = "viewSent" => o \in passed'
BY SamplerPhases, LoopingPhases
   DEF Advance, TypeOK, Types, Sampling

\* What is not announced yet stays so while no announcement is made.
LEMMA UnmarkedGrows ==
  ASSUME walked \subseteq walked', departing \subseteq departing',
         \A o \in Players : phase[o] \in Unannounced => phase'[o] \in Unannounced
  PROVE  Unmarked \subseteq Unmarked'
BY DEF Unmarked

LEMMA ViewInit == Init => ViewInv
BY LoginPhases DEF Init, ViewInv, ViewSettled

LEMMA ViewStep == TypeOK /\ ViewInv /\ [Next]_vars => ViewInv'
<1> SUFFICES ASSUME TypeOK, ViewInv, [Next]_vars, NEW o \in Players, ViewSettled(o)'
             PROVE  stale'[o] \subseteq lost'[o] \cup Unmarked'
  BY DEF ViewInv
<1>0. /\ ViewSettled(o) => stale[o] \subseteq lost[o] \cup Unmarked
      /\ o \in passed => phase[o] \in Samplers
      /\ Types
  BY DEF ViewInv, TypeOK, OldSamplesAreHeld
<1> USE LoopingPhases, LoginPhases, SamplerPhases DEF Goto
<1>1. ASSUME NEW p \in Players, ControlOnly(p)
      PROVE  stale'[o] \subseteq lost'[o] \cup Unmarked'
  <2>1. ViewSettled(o) /\ Unmarked \subseteq Unmarked'
    BY <1>0, <1>1, UnmarkedGrows
       DEF ControlOnly, SkipHydration, Pause, Ignore, ViewUpToDate, SampleVisibility,
           ShieldsUpToDate, SampleParty, ViewSettled, Types, Unannounced
  <2> QED
    BY <1>0, <1>1, <2>1
       DEF ControlOnly, SkipHydration, Pause, Ignore, ViewUpToDate, SampleVisibility,
           ShieldsUpToDate, SampleParty
<1>2. ASSUME NEW p \in Players, SendsShields(p)
      PROVE  stale'[o] \subseteq lost'[o] \cup Unmarked'
  <2>1. ViewSettled(o) /\ Unmarked \subseteq Unmarked'
    BY <1>0, <1>2, UnmarkedGrows
       DEF SendsShields, SendShields, ViewSettled, Types, Unannounced
  <2> QED
    BY <1>0, <1>2, <2>1 DEF SendsShields, SendShields
<1>3. ASSUME NEW p \in Players, StoresParty(p) \/ StoreVisibility(p)
      PROVE  stale'[o] \subseteq lost'[o] \cup Unmarked'
  <2>1. ViewSettled(o) /\ Unmarked \subseteq Unmarked'
    BY <1>0, <1>3, UnmarkedGrows
       DEF StoresParty, StoreVisibility, Store, ViewSettled, Types, Unannounced
  <2> QED
    BY <1>0, <1>3, <2>1 DEF StoresParty, StoreVisibility, Store
<1>4. ASSUME NEW p \in Players, OwnChange(p)
      PROVE  stale'[o] \subseteq lost'[o] \cup Unmarked'
  <2>1. ViewSettled(o) /\ Unmarked \subseteq Unmarked'
    BY <1>0, <1>4, UnmarkedGrows
       DEF OwnChange, Dress, Turn, Land, ViewSettled, Types, Unannounced
  <2>2. stale'[o] \subseteq stale[o] \cup {p}
    BY <1>4 DEF OwnChange, Dress, Turn, Land, Disturbed
  <2>3. p \in Unmarked'
    BY <1>0, <1>4 DEF OwnChange, Dress, Turn, Land, Unmarked, Unannounced, Types
  <2>4. lost' = lost
    BY <1>4 DEF OwnChange, Dress, Turn, Land
  <2> QED
    BY <1>0, <2>1, <2>2, <2>3, <2>4
<1>5. ASSUME NEW p \in Players, PartyChange(p) \/ PartyAnnounced(p)
      PROVE  stale'[o] \subseteq lost'[o] \cup Unmarked'
  <2>1. ViewSettled(o) /\ Unmarked \subseteq Unmarked'
    BY <1>0, <1>5, UnmarkedGrows
       DEF PartyChange, HydrateParty, ChangeParty, PartyAnnounced, AnnounceHydration,
           AnnounceParty, Advance, ViewSettled, Types, Unannounced
  <2> QED
    BY <1>0, <1>5, <2>1
       DEF PartyChange, HydrateParty, ChangeParty, PartyAnnounced, AnnounceHydration,
           AnnounceParty
<1>7. ASSUME NEW p \in Players, WholeView(p)
      PROVE  stale'[o] \subseteq lost'[o] \cup Unmarked'
  <2>1. CASE o = p
    BY <1>0, <1>7, <2>1 DEF WholeView, SendView, SendStats, SendDestination, Types
  <2>2. CASE o # p
    <3>1. ViewSettled(o) /\ Unmarked \subseteq Unmarked'
      BY <1>0, <1>7, <2>2, UnmarkedGrows
         DEF WholeView, SendView, SendStats, SendDestination, ViewSettled, Types, Unannounced
    <3> QED
      BY <1>0, <1>7, <2>2, <3>1 DEF WholeView, SendView, SendStats, SendDestination, Types
  <2> QED
    BY <2>1, <2>2
<1>8. ASSUME NEW p \in Players, Register(p)
      PROVE  stale'[o] \subseteq lost'[o] \cup Unmarked'
  <2> {"visibility"} \in SUBSET Epoch
    BY DEF Epoch
  <2> QED
    BY <1>0, <1>8, AdvanceUnsettles DEF Register, Types, ViewSettled
<1>9. ASSUME NEW p \in Players, Announce(p)
      PROVE  stale'[o] \subseteq lost'[o] \cup Unmarked'
  <2> {"visibility"} \in SUBSET Epoch
    BY DEF Epoch
  <2>1. \/ phase'[o] = phase[o]
        \/ phase'[o] \notin Looping
        \/ phase[o] \in Looping /\ phase'[o] # "viewSent"
    BY <1>0, <1>9 DEF Announce, Unannounced, After, Types
  <2> QED
    BY <1>9, <2>1, AdvanceUnsettles DEF Announce, ViewSettled
<1>10. ASSUME NEW p \in Players, ReadSpawns(p) \/ ReadPlayers(p)
       PROVE  stale'[o] \subseteq lost'[o] \cup Unmarked'
  <2>1. ViewSettled(o) /\ Unmarked \subseteq Unmarked'
    BY <1>0, <1>10, UnmarkedGrows
       DEF ReadSpawns, ReadPlayers, ViewSettled, Types, Unannounced
  <2>2. stale'[o] \subseteq stale[o] /\ lost' = lost
    BY <1>0, <1>10 DEF ReadSpawns, ReadPlayers, Types
  <2> QED
    BY <1>0, <2>1, <2>2
<1>11. ASSUME NEW p \in Players, TakeBaselines(p) \/ Resynchronise(p)
       PROVE  stale'[o] \subseteq lost'[o] \cup Unmarked'
  <2>1. Unmarked \subseteq Unmarked'
    BY <1>0, <1>11, UnmarkedGrows
       DEF TakeBaselines, Resynchronise, Types, Unannounced
  <2>2. CASE o = p
    BY <1>0, <1>11, <2>1, <2>2 DEF TakeBaselines, Resynchronise, Baseline, Types
  <2>3. CASE o # p
    <3>1. ViewSettled(o)
      BY <1>0, <1>11, <2>3
         DEF TakeBaselines, Resynchronise, Baseline, ViewSettled, Types
    <3> QED
      BY <1>0, <1>11, <2>1, <2>3, <3>1
         DEF TakeBaselines, Resynchronise, Baseline, Types
  <2> QED
    BY <2>2, <2>3
<1>12. ASSUME NEW p \in Players, Walk(p)
       PROVE  stale'[o] \subseteq lost'[o] \cup Unmarked'
  <2>1. ViewSettled(o) /\ Unmarked \subseteq Unmarked' /\ p \in Unmarked'
    BY <1>0, <1>12, UnmarkedGrows DEF Walk, ViewSettled, Types, Unannounced, Unmarked
  <2>2. PICK strip \in SUBSET Creatures :
          /\ stale' = [Disturbed({p}) EXCEPT ![p] = @ \ strip]
          /\ lost' = [lost EXCEPT ![p] = @ \ strip]
    BY <1>12 DEF Walk
  <2>3. CASE o = p
    <3>1. stale'[o] \subseteq stale[o] \ strip
      BY <2>2, <2>3 DEF Disturbed
    <3>2. lost'[o] = lost[o] \ strip
      BY <1>0, <2>2, <2>3 DEF Types
    <3> QED
      BY <1>0, <2>1, <3>1, <3>2
  <2>4. CASE o # p
    <3>1. stale'[o] \subseteq stale[o] \cup {p}
      BY <2>2, <2>4 DEF Disturbed
    <3>2. lost'[o] = lost[o]
      BY <1>0, <2>2, <2>4 DEF Types
    <3> QED
      BY <1>0, <2>1, <3>1, <3>2
  <2> QED
    BY <2>3, <2>4
<1>13. ASSUME NEW p \in Players, SendStrip(p)
       PROVE  stale'[o] \subseteq lost'[o] \cup Unmarked'
  <2>1. ViewSettled(o) /\ Unmarked \subseteq Unmarked'
    BY <1>0, <1>13, UnmarkedGrows DEF SendStrip, ViewSettled, Types, Unannounced
  <2>2. PICK strip \in SUBSET (Players \ {p}) :
          /\ stale' = [stale EXCEPT ![p] = @ \ strip]
          /\ lost' = [lost EXCEPT ![p] = @ \ strip]
    BY <1>13 DEF SendStrip
  <2> QED
    BY <1>0, <2>1, <2>2 DEF Types
<1>14. ASSUME NEW p \in Players, Leave(p)
       PROVE  stale'[o] \subseteq lost'[o] \cup Unmarked'
  <2>1. o # p
    BY <1>0, <1>14 DEF Leave, ViewSettled, Types
  <2>2. ViewSettled(o) /\ Unmarked \subseteq Unmarked' /\ p \in Unmarked'
    BY <1>0, <1>14, <2>1, UnmarkedGrows
       DEF Leave, ViewSettled, Types, Unannounced, Unmarked
  <2>3. stale'[o] \subseteq stale[o] \cup {p} /\ lost'[o] = lost[o]
    BY <1>0, <1>14, <2>1 DEF Leave, Disturbed, Types
  <2> QED
    BY <1>0, <2>2, <2>3
<1>15. ASSUME NEW p \in Players, AnnounceDeparture(p)
       PROVE  stale'[o] \subseteq lost'[o] \cup Unmarked'
  <2> {"visibility", "party"} \in SUBSET Epoch
    BY DEF Epoch
  <2> QED
    BY <1>15, AdvanceUnsettles DEF AnnounceDeparture, ViewSettled
<1>16. CASE HeartbeatMoves
  <2>1. PICK moved \in SUBSET (Creatures \cup (Movers \cap Online)) :
          walked' = moved /\ stale' = Disturbed(moved)
    BY <1>16 DEF HeartbeatMoves
  <2>2. ViewSettled(o) /\ Unmarked \subseteq Unmarked' /\ moved \subseteq Unmarked'
    BY <1>16, <2>1, UnmarkedGrows DEF HeartbeatMoves, ViewSettled, Unmarked
  <2>3. stale'[o] \subseteq stale[o] \cup moved /\ lost' = lost
    BY <1>16, <2>1 DEF HeartbeatMoves, Disturbed
  <2> QED
    BY <1>0, <2>2, <2>3
<1>17. CASE HeartbeatAnnounces
  <2> {"visibility"} \in SUBSET Epoch
    BY DEF Epoch
  <2> QED
    BY <1>17, AdvanceUnsettles DEF HeartbeatAnnounces, ViewSettled
<1>18. CASE UNCHANGED vars
  <2>1. ViewSettled(o) /\ Unmarked' = Unmarked
    BY <1>18 DEF vars, ViewSettled, Unmarked
  <2> QED
    BY <1>0, <1>18, <2>1 DEF vars
<1> QED
  BY StepsAreNext, <1>1, <1>2, <1>3, <1>4, <1>5, <1>7, <1>8, <1>9, <1>10, <1>11,
     <1>12, <1>13, <1>14, <1>15, <1>16, <1>17, <1>18 DEF Steps

\* A session that would not draw again is behind only on changes whose epoch still
\* comes, or on those it took as observed itself.
THEOREM NoChangeIsSkipped == Spec => []StaleViewsArePending
<1>1. ViewInv => StaleViewsArePending
  BY DEF ViewInv, ViewSettled, StaleViewsArePending
<1>2. TypeOK /\ ViewInv /\ [Next]_vars => TypeOK' /\ ViewInv'
  BY TypeStep, ViewStep
<1> QED
  BY TypeInit, ViewInit, <1>1, <1>2, PTL DEF Spec

---------------------------------------------------------------------------
(* No change of the parties is skipped. *)

\* Storing the sample now would skip nothing, or the session would not refresh.
ShieldsSettled(p) ==
  \/ phase[p] \in Looping /\ "party" \notin due[p]
  \/ phase[p] \in {"shieldsSent", "pausedShieldsSent"} /\ p \notin passed

\* The inductive form of OutdatedShieldsArePending.
ShieldsInv ==
  \A p \in Players : \A q \in Online :
    ShieldsSettled(p) /\ shields[p][q] = "outdated" => PartyUnmarked \/ q \in stale[p]

\* Once the party epoch moves no shields are settled.
LEMMA PartyAdvanceUnsettles ==
  ASSUME TypeOK, NEW es \in SUBSET Epoch, "party" \in es, Advance(es),
         NEW o \in Players,
         \/ phase'[o] = phase[o]
         \/ phase'[o] \notin Looping
         \/ phase[o] \in Looping /\ phase'[o] \notin Samplers
  PROVE  /\ phase'[o] \in Looping => "party" \in due'[o]
         /\ phase'[o] \in {"shieldsSent", "pausedShieldsSent"} => o \in passed'
BY SamplerPhases, LoopingPhases
   DEF Advance, TypeOK, Types, Sampling

LEMMA ShieldsInit == Init => ShieldsInv
BY LoginPhases DEF Init, ShieldsInv, ShieldsSettled

LEMMA ShieldsStep == TypeOK /\ ShieldsInv /\ [Next]_vars => ShieldsInv'
<1> SUFFICES ASSUME TypeOK, ShieldsInv, [Next]_vars,
                    NEW o \in Players, NEW q \in Players, phase'[q] # "offline",
                    ShieldsSettled(o)', shields'[o][q] = "outdated"
             PROVE  PartyUnmarked' \/ q \in stale'[o]
  BY DEF ShieldsInv, Online
<1>0. /\ ShieldsSettled(o) /\ phase[q] # "offline" /\ shields[o][q] = "outdated"
           => PartyUnmarked \/ q \in stale[o]
      /\ o \in passed => phase[o] \in Samplers
      /\ phase[o] \notin Looping => shields[o] = NoShields
      /\ shields[o][o] = "none"
      /\ NoShields[q] = "none"
      /\ Types
  BY DEF ShieldsInv, Online, TypeOK, OldSamplesAreHeld, LoginIsQuiet, NoShields
<1> USE LoopingPhases, LoginPhases, SamplerPhases DEF Goto
<1>1. ASSUME NEW p \in Players, ControlOnly(p) PROVE PartyUnmarked' \/ q \in stale'[o]
  <2>1. /\ ShieldsSettled(o) /\ phase[q] # "offline"
        /\ PartyUnmarked => PartyUnmarked'
    BY <1>0, <1>1
       DEF ControlOnly, SkipHydration, Pause, Ignore, ViewUpToDate, SampleVisibility,
           ShieldsUpToDate, SampleParty, ShieldsSettled, Types, PartyUnmarked
  <2> QED
    BY <1>0, <1>1, <2>1
       DEF ControlOnly, SkipHydration, Pause, Ignore, ViewUpToDate, SampleVisibility,
           ShieldsUpToDate, SampleParty
<1>2. ASSUME NEW p \in Players, SendsShields(p) PROVE PartyUnmarked' \/ q \in stale'[o]
  <2>1. /\ phase[q] # "offline" /\ (PartyUnmarked => PartyUnmarked')
        /\ stale' = stale
    BY <1>0, <1>2 DEF SendsShields, SendShields, Types, PartyUnmarked
  <2>2. CASE o = p
    BY <1>0, <1>2, <2>1, <2>2 DEF SendsShields, SendShields, Types, Online
  <2>3. CASE o # p
    BY <1>0, <1>2, <2>1, <2>3 DEF SendsShields, SendShields, Types, ShieldsSettled
  <2> QED
    BY <2>2, <2>3
<1>3. ASSUME NEW p \in Players, StoresParty(p) \/ StoreVisibility(p)
      PROVE  PartyUnmarked' \/ q \in stale'[o]
  <2>1. /\ ShieldsSettled(o) /\ phase[q] # "offline"
        /\ PartyUnmarked => PartyUnmarked'
    BY <1>0, <1>3
       DEF StoresParty, StoreVisibility, Store, ShieldsSettled, Types, PartyUnmarked
  <2> QED
    BY <1>0, <1>3, <2>1 DEF StoresParty, StoreVisibility, Store
<1>4. ASSUME NEW p \in Players, OwnChange(p) PROVE PartyUnmarked' \/ q \in stale'[o]
  <2>1. /\ ShieldsSettled(o) /\ phase[q] # "offline"
        /\ PartyUnmarked => PartyUnmarked'
        /\ shields' = shields
    BY <1>0, <1>4 DEF OwnChange, Dress, Turn, Land, ShieldsSettled, Types, PartyUnmarked
  <2>2. phase[o] # "offline"
    BY <2>1 DEF ShieldsSettled
  <2>3. stale[o] \subseteq stale'[o]
    BY <1>4, <2>2 DEF OwnChange, Dress, Turn, Land, Disturbed, Online
  <2> QED
    BY <1>0, <2>1, <2>3
<1>5. ASSUME NEW p \in Players, PartyChange(p) PROVE PartyUnmarked' \/ q \in stale'[o]
  BY <1>0, <1>5 DEF PartyChange, HydrateParty, ChangeParty, PartyUnmarked, Types
<1>6. ASSUME NEW p \in Players, PartyAnnounced(p)
      PROVE  PartyUnmarked' \/ q \in stale'[o]
  <2> {"party"} \in SUBSET Epoch
    BY DEF Epoch
  <2>1. Advance({"party"})
    BY <1>6 DEF PartyAnnounced, AnnounceHydration, AnnounceParty
  <2>2. \/ phase'[o] = phase[o]
        \/ phase'[o] \notin Looping
        \/ phase[o] \in Looping /\ phase'[o] \notin Samplers
    BY <1>0, <1>6 DEF PartyAnnounced, AnnounceHydration, AnnounceParty, Types
  <2> QED
    BY <2>1, <2>2, PartyAdvanceUnsettles DEF ShieldsSettled
<1>7. ASSUME NEW p \in Players, WholeView(p) PROVE PartyUnmarked' \/ q \in stale'[o]
  <2>1. PartyUnmarked => PartyUnmarked'
    BY <1>0, <1>7 DEF WholeView, SendView, SendStats, SendDestination, Types, PartyUnmarked
  <2>2. phase[q] # "offline"
    BY <1>0, <1>7 DEF WholeView, SendView, SendStats, SendDestination, Types
  <2>3. CASE o = p
    <3>1. shields'[o] = Wiped(o, Online)
      BY <1>0, <1>7, <2>3 DEF WholeView, SendView, SendStats, SendDestination, Types
    <3> QED
      BY <2>2, <3>1, "none" # "outdated" DEF Wiped, Online
  <2>4. CASE o # p
    BY <1>0, <1>7, <2>1, <2>2, <2>4
       DEF WholeView, SendView, SendStats, SendDestination, Types, ShieldsSettled
  <2> QED
    BY <2>3, <2>4
<1>8. ASSUME NEW p \in Players, Register(p) PROVE PartyUnmarked' \/ q \in stale'[o]
  <2>1. o # p /\ phase'[o] = phase[o] /\ phase[o] # "offline"
    BY <1>0, <1>8 DEF Register, Types, ShieldsSettled
  <2>2. stale'[o] = stale[o] \cup ({p} \ {o})
    BY <1>0, <1>8, <2>1 DEF Register, Disturbed, Online
  <2>3. CASE q = p
    BY <2>1, <2>2, <2>3
  <2>4. CASE q # p
    <3>1. phase[q] # "offline" /\ (PartyUnmarked => PartyUnmarked')
      BY <1>0, <1>8, <2>4 DEF Register, Types, PartyUnmarked
    <3>2. ShieldsSettled(o) /\ shields' = shields
      BY <1>0, <1>8, <2>1 DEF Register, Advance, ShieldsSettled
    <3> QED
      BY <1>0, <2>2, <3>1, <3>2
  <2> QED
    BY <2>3, <2>4
<1>9. ASSUME NEW p \in Players, Announce(p) PROVE PartyUnmarked' \/ q \in stale'[o]
  <2>1. phase[q] # "offline" /\ (PartyUnmarked => PartyUnmarked')
    BY <1>0, <1>9 DEF Announce, Unannounced, Types, PartyUnmarked
  <2>2. CASE phase[o] \in Looping
    <3>1. ShieldsSettled(o)
      BY <1>0, <1>9, <2>2
         DEF Announce, Unannounced, After, Advance, ShieldsSettled, Types
    <3> QED
      BY <1>0, <1>9, <2>1, <3>1 DEF Announce
  <2>3. CASE phase[o] \notin Looping
    BY <1>0, <1>9, <2>3 DEF Announce
  <2> QED
    BY <2>2, <2>3
<1>10. ASSUME NEW p \in Players,
              ReadSpawns(p) \/ ReadPlayers(p) \/ TakeBaselines(p)
       PROVE  PartyUnmarked' \/ q \in stale'[o]
  <2>1. phase[q] # "offline" /\ (PartyUnmarked => PartyUnmarked') /\ shields' = shields
    BY <1>0, <1>10
       DEF ReadSpawns, ReadPlayers, TakeBaselines, Baseline, Types, PartyUnmarked
  <2>2. CASE o = p
    BY <1>0, <1>10, <2>1, <2>2 DEF ReadSpawns, ReadPlayers, TakeBaselines
  <2>3. CASE o # p
    BY <1>0, <1>10, <2>1, <2>3
       DEF ReadSpawns, ReadPlayers, TakeBaselines, Baseline, Types, ShieldsSettled
  <2> QED
    BY <2>2, <2>3
<1>11. ASSUME NEW p \in Players, Resynchronise(p)
       PROVE  PartyUnmarked' \/ q \in stale'[o]
  <2>1. /\ ShieldsSettled(o) /\ phase[q] # "offline"
        /\ PartyUnmarked => PartyUnmarked'
    BY <1>0, <1>11 DEF Resynchronise, Baseline, ShieldsSettled, Types, PartyUnmarked
  <2> QED
    BY <1>0, <1>11, <2>1 DEF Resynchronise
<1>12. ASSUME NEW p \in Players, Walk(p) PROVE PartyUnmarked' \/ q \in stale'[o]
  <2>1. /\ ShieldsSettled(o) /\ phase[q] # "offline" /\ phase[o] # "offline"
        /\ PartyUnmarked => PartyUnmarked'
        /\ shields' = shields
    BY <1>0, <1>12 DEF Walk, ShieldsSettled, Types, PartyUnmarked
  <2>2. PICK strip \in SUBSET Creatures :
          stale' = [Disturbed({p}) EXCEPT ![p] = @ \ strip]
    BY <1>12 DEF Walk
  <2>3. q \notin strip
    BY <2>2, RefreshAssumption
  <2>4. q \in stale[o] => q \in stale'[o]
    BY <2>1, <2>2, <2>3 DEF Disturbed, Online
  <2> QED
    BY <1>0, <2>1, <2>4
<1>13. ASSUME NEW p \in Players, SendStrip(p) PROVE PartyUnmarked' \/ q \in stale'[o]
  <2>1. /\ ShieldsSettled(o) /\ phase[q] # "offline"
        /\ PartyUnmarked => PartyUnmarked'
    BY <1>0, <1>13 DEF SendStrip, ShieldsSettled, Types, PartyUnmarked
  <2>2. PICK strip \in SUBSET (Players \ {p}) :
          /\ stale' = [stale EXCEPT ![p] = @ \ strip]
          /\ shields' = [shields EXCEPT ![p] = Wiped(p, strip \cap Online)]
    BY <1>13 DEF SendStrip
  <2>3. CASE o = p
    <3>1. shields'[o][q] = IF q \in strip \cap Online THEN "none" ELSE shields[o][q]
      BY <1>0, <2>2, <2>3 DEF Types, Wiped
    <3>2. q \notin strip /\ shields[o][q] = "outdated"
      BY <2>1, <3>1 DEF Online
    <3>3. q \in stale[o] => q \in stale'[o]
      BY <1>0, <2>2, <2>3, <3>2 DEF Types
    <3> QED
      BY <1>0, <2>1, <3>2, <3>3
  <2>4. CASE o # p
    BY <1>0, <2>1, <2>2, <2>4 DEF Types
  <2> QED
    BY <2>3, <2>4
<1>14. ASSUME NEW p \in Players, Leave(p) PROVE PartyUnmarked' \/ q \in stale'[o]
  BY <1>14 DEF Leave, PartyUnmarked
<1>15. ASSUME NEW p \in Players, AnnounceDeparture(p)
       PROVE  PartyUnmarked' \/ q \in stale'[o]
  <2> {"visibility", "party"} \in SUBSET Epoch
    BY DEF Epoch
  <2> QED
    BY <1>15, PartyAdvanceUnsettles DEF AnnounceDeparture, ShieldsSettled
<1>16. CASE HeartbeatMoves
  <2>1. /\ ShieldsSettled(o) /\ phase[q] # "offline" /\ phase[o] # "offline"
        /\ PartyUnmarked' = PartyUnmarked
        /\ shields' = shields
    BY <1>16 DEF HeartbeatMoves, ShieldsSettled, PartyUnmarked
  <2>2. stale[o] \subseteq stale'[o]
    BY <1>16, <2>1 DEF HeartbeatMoves, Disturbed, Online
  <2> QED
    BY <1>0, <2>1, <2>2
<1>17. CASE HeartbeatAnnounces
  <2>1. /\ ShieldsSettled(o) /\ phase[q] # "offline"
        /\ PartyUnmarked' = PartyUnmarked
    BY <1>17 DEF HeartbeatAnnounces, Advance, ShieldsSettled, PartyUnmarked
  <2> QED
    BY <1>0, <1>17, <2>1 DEF HeartbeatAnnounces
<1>18. CASE UNCHANGED vars
  <2>1. ShieldsSettled(o) /\ PartyUnmarked' = PartyUnmarked
    BY <1>18 DEF vars, ShieldsSettled, PartyUnmarked
  <2> QED
    BY <1>0, <1>18, <2>1 DEF vars
<1> QED
  BY StepsAreNext, <1>1, <1>2, <1>3, <1>4, <1>5, <1>6, <1>7, <1>8, <1>9, <1>10, <1>11,
     <1>12, <1>13, <1>14, <1>15, <1>16, <1>17, <1>18 DEF Steps

\* An outdated shield is replaced soon, or its wearer has itself changed since it
\* was drawn.
THEOREM NoPartyChangeIsSkipped == Spec => []OutdatedShieldsArePending
<1>1. ShieldsInv => OutdatedShieldsArePending
  BY DEF ShieldsInv, ShieldsSettled, OutdatedShieldsArePending
<1>2. TypeOK /\ ShieldsInv /\ [Next]_vars => TypeOK' /\ ShieldsInv'
  BY TypeStep, ShieldsStep
<1> QED
  BY TypeInit, ShieldsInit, <1>1, <1>2, PTL DEF Spec
=============================================================================
