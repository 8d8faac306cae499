------------------------------ MODULE Refresh ------------------------------
(***************************************************************************)
(* How a change of the world reaches the screens of the players.            *)
(*                                                                         *)
(* A thread that changes what can be seen changes the world first and then  *)
(* adds one to visibility_epoch; party_epoch counts changes of the parties  *)
(* the same way.  The thread of a session keeps the epoch it last observed  *)
(* and draws again when the two differ.  Drawing is incremental: a step      *)
(* draws only the strip of tiles that comes into view, a turn draws         *)
(* nothing, and after either the session takes the current epoch as         *)
(* observed.                                                               *)
(*                                                                         *)
(* An epoch only grows and is only compared for equality, so a session needs *)
(* no number: due[p] are the epochs that moved since p observed them, and     *)
(* passed are the sessions whose sampled epoch has moved since.  What a thing *)
(* looks like (position, facing, outfit, health) is abstracted to stale[p],   *)
(* the things that changed since they were last drawn for p.  Writes to a     *)
(* socket touch only its own client, so building a frame and writing it are   *)
(* one step; sampling the epoch before, and storing the sample after, are     *)
(* steps of their own.  The state space is finite and nothing is bounded.     *)
(***************************************************************************)
CONSTANTS Players,    \* the characters, one session of each at a time
          Movers,     \* the characters that turn, walk, and follow others
          Partners,   \* the characters that found, join and change parties
          Creatures   \* static creatures, moved by the heartbeat only

ASSUME RefreshAssumption ==
  /\ Movers \subseteq Players
  /\ Partners \subseteq Players
  /\ Players \cap Creatures = {}

Things == Players \cup Creatures

VARIABLES
  phase,           \* phase[p]: where the session thread of p stands
  due,             \* due[p]: the epochs that differ from what p observed
  passed,          \* the sessions that hold a sample older than the epoch
  stale,           \* stale[p]: things that changed since p was sent them
  lost,            \* history: stale things p has no refresh coming for
  shields,         \* shields[p][q]: the party shield p was last sent for q
  walked,          \* moved by the heartbeat, not yet announced by an epoch
  departing        \* removed from the world, not yet announced by an epoch

vars == <<phase, due, passed, stale, lost, shields, walked, departing>>

Epoch == {"visibility", "party"}

Shield == {"none", "current", "outdated"}

\* A session between a change of its own and the epoch that announces it.
Unannounced == {"dressed", "turned", "moved", "landed"}

\* The phases of the game loop: the session has its baselines.
Looping == {"top", "shields", "shieldsSent", "read",
            "paused", "pausedShields", "pausedShieldsSent", "idle", "statsSent",
            "view", "viewSent", "clickWalk", "turned", "turnDone",
            "moved", "moveDone", "landed", "landDone",
            "drawn", "partyChanged"}

Phases == Looping \cup
          {"offline", "registered", "hydrated", "joined", "dressed", "ready",
           "spawnsRead", "playersRead"}

Online == {p \in Players : phase[p] # "offline"}

\* The things whose last change no epoch announces yet.
Unmarked == walked \cup departing \cup {p \in Players : phase[p] \in Unannounced}

PartyUnmarked ==
  \/ departing # {}
  \/ \E p \in Players : phase[p] \in {"hydrated", "partyChanged"}

NoShields == [q \in Players |-> "none"]

Init ==
  /\ phase = [p \in Players |-> "offline"]
  /\ due = [p \in Players |-> {}]
  /\ passed = {}
  /\ stale = [p \in Players |-> {}]
  /\ lost = [p \in Players |-> {}]
  /\ shields = [p \in Players |-> NoShields]
  /\ walked = {}
  /\ departing = {}

---------------------------------------------------------------------------
(* What one change does to every client. *)

\* The things of S look different now: every other client is behind on them.
Disturbed(S) ==
  [p \in Players |-> IF p \in Online THEN stale[p] \cup (S \ {p}) ELSE {}]

\* The parties are different now: a shield that was right may be wrong.
ShieldsOutdated ==
  [p \in Players |-> [q \in Players |->
     IF shields[p][q] = "current" THEN "outdated" ELSE shields[p][q]]]

\* The phases in which a session holds a sample of an epoch.
Sampling(e) ==
  IF e = "visibility"
  THEN {"view", "viewSent"}
  ELSE {"shields", "shieldsSent", "pausedShields", "pausedShieldsSent"}

Samplers == Sampling("visibility") \cup Sampling("party")

\* The epochs es move on: whatever was observed or sampled of them is old.
Advance(es) ==
  /\ due' = [p \in Players |-> IF phase[p] \in Looping THEN due[p] \cup es ELSE {}]
  /\ passed' = passed \cup {p \in Players : \E e \in es : phase[p] \in Sampling(e)}

Goto(p, there) == phase' = [phase EXCEPT ![p] = there]

\* The records of the players drawn for p carry party shield 0.
Wiped(p, drawn) ==
  [q \in Players |-> IF q \in drawn THEN "none" ELSE shields[p][q]]

---------------------------------------------------------------------------
(* Login. *)

\* The player enters the world and the epoch moves under one lock.
Register(p) ==
  /\ phase[p] = "offline"
  /\ Goto(p, "registered")
  /\ Advance({"visibility"})
  /\ stale' = [Disturbed({p}) EXCEPT ![p] = Things \ {p}]
  /\ UNCHANGED <<lost, shields, walked, departing>>

\* The stored party takes the player back in.
HydrateParty(p) ==
  /\ p \in Partners
  /\ phase[p] = "registered"
  /\ Goto(p, "hydrated")
  /\ shields' = ShieldsOutdated
  /\ UNCHANGED <<due, passed, stale, lost, walked, departing>>

AnnounceHydration(p) ==
  /\ phase[p] = "hydrated"
  /\ Goto(p, "joined")
  /\ Advance({"party"})
  /\ UNCHANGED <<stale, lost, shields, walked, departing>>

\* No stored party, no leader online, or the hydration was refused.
SkipHydration(p) ==
  /\ phase[p] = "registered"
  /\ Goto(p, "joined")
  /\ UNCHANGED <<due, passed, stale, lost, shields, walked, departing>>

\* Outfit and facing of the character become visible: two changes of this kind
\* in a row, taken as one.
Dress(p) ==
  /\ phase[p] = "joined"
  /\ Goto(p, "dressed")
  /\ stale' = Disturbed({p})
  /\ UNCHANGED <<due, passed, lost, shields, walked, departing>>

\* Every change of a session's own is announced by mark_visibility_changed.
After == [dressed |-> "ready", turned |-> "turnDone", moved |-> "moveDone",
          landed |-> "landDone"]

Announce(p) ==
  /\ phase[p] \in Unannounced
  /\ Goto(p, After[phase[p]])
  /\ Advance({"visibility"})
  /\ UNCHANGED <<stale, lost, shields, walked, departing>>

\* The first map is built from two reads of the world.
ReadSpawns(p) ==
  /\ phase[p] = "ready"
  /\ Goto(p, "spawnsRead")
  /\ stale' = [stale EXCEPT ![p] = @ \ Creatures]
  /\ UNCHANGED <<due, passed, lost, shields, walked, departing>>

ReadPlayers(p) ==
  /\ phase[p] = "spawnsRead"
  /\ Goto(p, "playersRead")
  /\ stale' = [stale EXCEPT ![p] = @ \ Players]
  /\ UNCHANGED <<due, passed, lost, shields, walked, departing>>

\* The session takes the current epoch as observed.  A stale thing whose epoch
\* is counted in it is lost until it changes again.
Baseline(p, es) ==
  /\ due' = [due EXCEPT ![p] = @ \ es]
  /\ lost' = [lost EXCEPT ![p] = stale[p] \ Unmarked]

\* The baselines of all epochs, then the frames built before are written.
TakeBaselines(p) ==
  /\ phase[p] = "playersRead"
  /\ Goto(p, "top")
  /\ Baseline(p, Epoch)
  /\ UNCHANGED <<passed, stale, shields, walked, departing>>

---------------------------------------------------------------------------
(* The game loop: refresh the shields, read a packet, act on it; when no packet *)
(* comes for a while, refresh the shields again and then the map.              *)

\* refresh_native_party_shields, called where from and left for to: nothing to do.
ShieldsUpToDate(p, from, to) ==
  /\ phase[p] = from
  /\ "party" \notin due[p]
  /\ Goto(p, to)
  /\ UNCHANGED <<due, passed, stale, lost, shields, walked, departing>>

SampleParty(p, from, to) ==
  /\ phase[p] = from
  /\ "party" \in due[p]
  /\ Goto(p, to)
  /\ UNCHANGED <<due, passed, stale, lost, shields, walked, departing>>

\* One shield for every player in the world.  The shield of the player itself is
\* left out, nobody but its client draws it.
SendShields(p, from, to) ==
  /\ phase[p] = from
  /\ Goto(p, to)
  /\ shields' = [shields EXCEPT ![p] =
                   [q \in Players |-> IF q \in Online \ {p} THEN "current" ELSE @[q]]]
  /\ UNCHANGED <<due, passed, stale, lost, walked, departing>>

\* Mutant: the epoch is read again after the frames are written.
StoreLate(p, e, from, to) ==
  /\ phase[p] = from
  /\ Goto(p, to)
  /\ due' = [due EXCEPT ![p] = @ \ {e}]
  /\ passed' = passed \ {p}
  /\ UNCHANGED <<stale, lost, shields, walked, departing>>

\* The sample of e becomes what p observed, which is of no use if it is old.
Store(p, e, from, to) ==
  /\ phase[p] = from
  /\ Goto(p, to)
  /\ due' = [due EXCEPT ![p] = IF p \in passed THEN @ ELSE @ \ {e}]
  /\ passed' = passed \ {p}
  /\ UNCHANGED <<stale, lost, shields, walked, departing>>

\* Mutant: the shields are refreshed in the pauses of the client only.
RefreshShieldsWhenPaused(p) ==
  \/ /\ phase[p] = "top"
     /\ Goto(p, "read")
     /\ UNCHANGED <<due, passed, stale, lost, shields, walked, departing>>
  \/ ShieldsUpToDate(p, "paused", "idle")
  \/ SampleParty(p, "paused", "pausedShields")
  \/ SendShields(p, "pausedShields", "pausedShieldsSent")
  \/ Store(p, "party", "pausedShieldsSent", "idle")

RefreshShields(p) ==
  \/ ShieldsUpToDate(p, "top", "read")
  \/ SampleParty(p, "top", "shields")
  \/ SendShields(p, "shields", "shieldsSent")
  \/ Store(p, "party", "shieldsSent", "read")
  \/ ShieldsUpToDate(p, "paused", "idle")
  \/ SampleParty(p, "paused", "pausedShields")
  \/ SendShields(p, "pausedShields", "pausedShieldsSent")
  \/ Store(p, "party", "pausedShieldsSent", "idle")

\* The read times out.
Pause(p) ==
  /\ phase[p] = "read"
  /\ Goto(p, "paused")
  /\ UNCHANGED <<due, passed, stale, lost, shields, walked, departing>>

\* A packet that changes nothing anybody sees, or is refused; a step of a click
\* walk that is blocked.
Ignore(p) ==
  /\ phase[p] \in {"read", "clickWalk"}
  /\ Goto(p, "top")
  /\ UNCHANGED <<due, passed, stale, lost, shields, walked, departing>>

\* The vitals of the player changed: the whole viewport goes with the new stats,
\* and the visibility epoch does not count as observed.
SendStats(p) ==
  /\ phase[p] = "idle"
  /\ Goto(p, "statsSent")
  /\ stale' = [stale EXCEPT ![p] = {}]
  /\ lost' = [lost EXCEPT ![p] = {}]
  /\ shields' = [shields EXCEPT ![p] = Wiped(p, Online)]
  /\ UNCHANGED <<due, passed, walked, departing>>

\* A click walk takes its next step only when there is nothing to draw.
ViewUpToDate(p) ==
  /\ phase[p] \in {"idle", "statsSent"}
  /\ "visibility" \notin due[p]
  /\ \/ Goto(p, "top")
     \/ p \in Movers /\ Goto(p, "clickWalk")
  /\ UNCHANGED <<due, passed, stale, lost, shields, walked, departing>>

\* A pass that meets a lethal condition of a player without a valid town is broken
\* off before this (session_loop.rs:665).  It has stored nothing, and the next pass
\* samples the same; it is left out.
SampleVisibility(p) ==
  /\ phase[p] \in {"idle", "statsSent"}
  /\ "visibility" \in due[p]
  /\ Goto(p, "view")
  /\ UNCHANGED <<due, passed, stale, lost, shields, walked, departing>>

\* The whole viewport from one snapshot.
SendView(p) ==
  /\ phase[p] = "view"
  /\ Goto(p, "viewSent")
  /\ stale' = [stale EXCEPT ![p] = {}]
  /\ lost' = [lost EXCEPT ![p] = {}]
  /\ shields' = [shields EXCEPT ![p] = Wiped(p, Online)]
  /\ UNCHANGED <<due, passed, walked, departing>>

StoreVisibility(p) == Store(p, "visibility", "viewSent", "top")

---------------------------------------------------------------------------
(* What a client can do that others see. *)

\* A turn or a change of outfit.
Turn(p) ==
  /\ p \in Movers
  /\ phase[p] = "read"
  /\ Goto(p, "turned")
  /\ stale' = Disturbed({p})
  /\ UNCHANGED <<due, passed, lost, shields, walked, departing>>

\* One step, by a packet or of a click walk.  The creatures that the new strip of
\* tiles will show are read under the same lock as the move.
Walk(p) ==
  /\ p \in Movers
  /\ phase[p] \in {"read", "clickWalk"}
  /\ Goto(p, "moved")
  /\ \E strip \in SUBSET Creatures :
       /\ stale' = [Disturbed({p}) EXCEPT ![p] = @ \ strip]
       /\ lost' = [lost EXCEPT ![p] = @ \ strip]
  /\ UNCHANGED <<due, passed, shields, walked, departing>>

\* The players that the new strip shows are read after the epoch moved.
SendStrip(p) ==
  /\ phase[p] = "moveDone"
  /\ Goto(p, "drawn")
  /\ \E strip \in SUBSET (Players \ {p}) :
       /\ stale' = [stale EXCEPT ![p] = @ \ strip]
       /\ lost' = [lost EXCEPT ![p] = @ \ strip]
       /\ shields' = [shields EXCEPT ![p] = Wiped(p, strip \cap Online)]
  /\ UNCHANGED <<due, passed, walked, departing>>

\* The tile stepped on is a teleport: the player is moved once more ...
Land(p) ==
  /\ phase[p] = "moveDone"
  /\ Goto(p, "landed")
  /\ stale' = Disturbed({p})
  /\ UNCHANGED <<due, passed, lost, shields, walked, departing>>

\* ... and gets the whole viewport of the destination.
SendDestination(p) ==
  /\ phase[p] = "landDone"
  /\ Goto(p, "drawn")
  /\ stale' = [stale EXCEPT ![p] = {}]
  /\ lost' = [lost EXCEPT ![p] = {}]
  /\ shields' = [shields EXCEPT ![p] = Wiped(p, Online)]
  /\ UNCHANGED <<due, passed, walked, departing>>

\* The epoch counts as observed, whoever moved it.
Resynchronise(p) ==
  /\ phase[p] \in {"turnDone", "drawn"}
  /\ Goto(p, "top")
  /\ Baseline(p, {"visibility"})
  /\ UNCHANGED <<passed, stale, shields, walked, departing>>

\* An invitation, an acceptance, a transfer, a revocation or a departure.
ChangeParty(p) ==
  /\ p \in Partners
  /\ phase[p] = "read"
  /\ Goto(p, "partyChanged")
  /\ shields' = ShieldsOutdated
  /\ UNCHANGED <<due, passed, stale, lost, walked, departing>>

AnnounceParty(p) ==
  /\ phase[p] = "partyChanged"
  /\ Goto(p, "top")
  /\ Advance({"party"})
  /\ UNCHANGED <<stale, lost, shields, walked, departing>>

---------------------------------------------------------------------------
(* The end of a session, and the heartbeat. *)

\* Mutant: what the session has been shown outlives it.
LeaveKeepingShields(p) ==
  /\ phase[p] \notin Unannounced \cup {"offline", "hydrated", "partyChanged"}
  /\ p \notin departing
  /\ Goto(p, "offline")
  /\ departing' = departing \cup {p}
  /\ stale' = [Disturbed({p}) EXCEPT ![p] = {}]
  /\ lost' = [lost EXCEPT ![p] = {}]
  /\ shields' = ShieldsOutdated
  /\ due' = [due EXCEPT ![p] = {}]
  /\ passed' = passed \ {p}
  /\ UNCHANGED walked

\* A logout, a kick, a dead socket or an error drops the registration, which
\* removes the player and its place in a party under one lock.
Leave(p) ==
  /\ phase[p] \notin Unannounced \cup {"offline", "hydrated", "partyChanged"}
  /\ p \notin departing
  /\ Goto(p, "offline")
  /\ departing' = departing \cup {p}
  /\ stale' = [Disturbed({p}) EXCEPT ![p] = {}]
  /\ lost' = [lost EXCEPT ![p] = {}]
  /\ shields' = [ShieldsOutdated EXCEPT ![p] = NoShields]
  /\ due' = [due EXCEPT ![p] = {}]
  /\ passed' = passed \ {p}
  /\ UNCHANGED walked

\* Outfit and direction are removed, under locks of their own, and both epochs
\* move.  By then the character may be in the world again.
AnnounceDeparture(p) ==
  /\ p \in departing
  /\ departing' = departing \ {p}
  /\ stale' = IF p \in Online THEN Disturbed({p}) ELSE stale
  /\ Advance({"visibility", "party"})
  /\ UNCHANGED <<phase, lost, shields, walked>>

\* Creatures pursue, wander or come back, and followers take a step.
HeartbeatMoves ==
  /\ walked = {}
  /\ \E moved \in SUBSET (Creatures \cup (Movers \cap Online)) \ {{}} :
       /\ walked' = moved
       /\ stale' = Disturbed(moved)
  /\ UNCHANGED <<phase, due, passed, lost, shields, departing>>

\* Mutant: the moves of the heartbeat are never announced.
HeartbeatForgets ==
  /\ walked # {}
  /\ walked' = {}
  /\ UNCHANGED <<phase, due, passed, stale, lost, shields, departing>>

HeartbeatAnnounces ==
  /\ walked # {}
  /\ walked' = {}
  /\ Advance({"visibility"})
  /\ UNCHANGED <<phase, stale, lost, shields, departing>>

---------------------------------------------------------------------------

Login(p) ==
  \/ HydrateParty(p) \/ AnnounceHydration(p) \/ SkipHydration(p)
  \/ Dress(p) \/ ReadSpawns(p) \/ ReadPlayers(p) \/ TakeBaselines(p)

Idle(p) ==
  \/ Pause(p) \/ Ignore(p) \/ SendStats(p) \/ ViewUpToDate(p)
  \/ SampleVisibility(p) \/ SendView(p) \/ StoreVisibility(p)

Act(p) ==
  \/ Turn(p) \/ Walk(p) \/ SendStrip(p) \/ Land(p) \/ SendDestination(p)
  \/ Resynchronise(p) \/ ChangeParty(p) \/ AnnounceParty(p)

\* The steps a session takes by itself.
Serve(p) == Login(p) \/ Announce(p) \/ RefreshShields(p) \/ Idle(p) \/ Act(p)

Heartbeat == HeartbeatMoves \/ HeartbeatAnnounces

Next ==
  \/ \E p \in Players :
       Register(p) \/ Serve(p) \/ Leave(p) \/ AnnounceDeparture(p)
  \/ Heartbeat

\* A session never waits for ever: its reads and writes time out, and no lock is
\* held over either.  Nothing obliges a client to log in or to leave.
\* An announcement follows its change in straight code.
Fairness ==
  /\ \A p \in Players : WF_vars(Serve(p)) /\ WF_vars(AnnounceDeparture(p))
  /\ WF_vars(HeartbeatAnnounces)

Spec == Init /\ [][Next]_vars

FairSpec == Spec /\ Fairness

---------------------------------------------------------------------------

\* The types of the variables.
Types ==
  /\ phase \in [Players -> Phases]
  /\ due \in [Players -> SUBSET Epoch]
  /\ passed \subseteq Players
  /\ stale \in [Players -> SUBSET Things]
  /\ lost \in [Players -> SUBSET Things]
  /\ shields \in [Players -> [Players -> Shield]]
  /\ walked \subseteq Things
  /\ departing \subseteq Players

\* Only a session that holds a sample holds an old one.
OldSamplesAreHeld == \A p \in passed : phase[p] \in Samplers

\* Before the game loop nothing is due and no shield is sent; nobody is sent its own.
LoginIsQuiet ==
  \A p \in Players :
    /\ phase[p] \notin Looping => due[p] = {} /\ shields[p] = NoShields
    /\ shields[p][p] = "none"

\* Types, and the values that have a meaning in some phases only are neutral in
\* the others.
TypeOK == Types /\ OldSamplesAreHeld /\ LoginIsQuiet

\* A session that would not draw again when it is idle next is behind only on
\* changes whose epoch still comes, or on those it skipped itself by taking an
\* epoch as observed without drawing: the order of the refresh (sample, build,
\* write, store) and that of a change (world first, epoch second) lose nothing.
StaleViewsArePending ==
  \A p \in Players :
    phase[p] \in Looping /\ "visibility" \notin due[p]
      => stale[p] \subseteq lost[p] \cup Unmarked

\* A party shield on a screen is outdated only while a refresh of the shields is
\* due or announced soon, or while the player that wears it has itself changed
\* since it was drawn.
OutdatedShieldsArePending ==
  \A p \in Players : \A q \in Online :
    phase[p] \in Looping /\ shields[p][q] = "outdated"
      => \/ "party" \in due[p]
         \/ PartyUnmarked
         \/ q \in stale[p]

\* However busy its client is, a session that stays replaces an outdated shield of
\* a player that stays, or is behind on that player altogether: the shields are
\* refreshed on every turn of the game loop.
OutdatedShieldsAreReplaced ==
  \A p \in Players : \A q \in Players \ {p} :
    phase[p] \in Looping /\ shields[p][q] = "outdated"
      ~> \/ phase[p] \notin Looping
         \/ q \notin Online
         \/ shields[p][q] # "outdated"
         \/ q \in stale[p]

\* A session that stays, and whose client in the end only watches and pauses again
\* and again, draws every change that it did not absorb.  Only a pause redraws the
\* map, and own turns and steps can put off the redrawing for ever.
WatchersAreRedrawn ==
  \A p \in Players : \A t \in Things \ {p} :
    /\ []<>(phase[p] = "paused")
    /\ <>[](phase[p] \notin {"turned", "moved"})
    => (phase[p] \in Looping /\ t \in stale[p] \ lost[p]
          ~> phase[p] \notin Looping \/ t \notin stale[p] \ lost[p])
=============================================================================
