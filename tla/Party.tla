------------------------------- MODULE Party -------------------------------
(****************************************************************************)
(* The session-local parties of WorldState (forgotten-core, world_party.rs) *)
(* together with what the host does to them: the login that puts a player   *)
(* into the world and then re-attaches it to its persisted party, the       *)
(* logout that removes it, the heartbeat that flushes party_snapshots to    *)
(* the player_parties table, and a stop of the process.                     *)
(*                                                                          *)
(* Every method of SharedNativeWorld takes the world mutex once, so one     *)
(* call is one action.  A login makes several calls, so it takes several    *)
(* actions and other sessions run between them.                             *)
(*                                                                          *)
(* BTreeMaps become total functions: NoPlayer stands for an absent key of   *)
(* party_memberships, the empty set for an absent key of party_invitations. *)
(* Activity ticks are abstracted to the set of players that have one.       *)
(****************************************************************************)
EXTENDS Naturals, FiniteSets

CONSTANTS Players,      \* character ids that can log in
          NoPlayer,     \* not a character id
          Fighters,     \* bound: the characters whose activity is recorded
          MaxFlushes    \* bound: how often the heartbeat flushes the parties

(* Character ids are unsigned: every set of them has a least one. *)
ASSUME PlayersAssumption ==
    /\ Players \subseteq Nat
    /\ NoPlayer \notin Players
    /\ Fighters \subseteq Players
    /\ MaxFlushes \in Nat

VARIABLES
    online,         \* WorldState.players
    party,          \* the party_* maps of WorldState
    session,        \* where the session thread of each player stands
    storedLeader,   \* player_parties: the party_leader_id of each player_id
    hydrating,      \* the leader id a login read from player_parties
    heartbeat,      \* what the heartbeat thread is doing
    snapshot,       \* the party_snapshots() a flush is about to write
    flushes         \* how many flushes have started (for MaxFlushes)

flushVars == <<heartbeat, snapshot, flushes>>
vars == <<online, party, session, storedLeader, hydrating, flushVars>>

----------------------------------------------------------------------------
(* Types *)

OptPlayer == Players \cup {NoPlayer}

PartyState == [leaders     : SUBSET Players,
               memberOf    : [Players -> OptPlayer],
               invitations : [Players -> SUBSET Players],
               requested   : SUBSET Players,
               active      : SUBSET Players]

PartyRow == [leader : Players, members : SUBSET Players]

LoggingIn == {"registered", "rowRead", "leaderOnline", "attach", "restore"}

NoParties == [leaders     |-> {},
              memberOf    |-> [p \in Players |-> NoPlayer],
              invitations |-> [p \in Players |-> {}],
              requested   |-> {},
              active      |-> {}]

----------------------------------------------------------------------------
(* Operators on one value P of the party maps *)

(* Mutant of Least: an index into the members instead of a member's id. *)
LeastIndex(S) == 0

Least(S) == CHOOSE least \in S : \A p \in S : least <= p

MembersOf(P, leader) == {m \in Players : P.memberOf[m] = leader}

HasInvitations(P, leader) == \E i \in Players : leader \in P.invitations[i]

LeaderOf(P, p) == IF p \in P.leaders THEN p ELSE P.memberOf[p]

InParty(P, p) == LeaderOf(P, p) # NoPlayer

Rename(S, old, new) == IF old \in S THEN (S \ {old}) \cup {new} ELSE S

(* Mutant of Disband: invitations of the dissolved party stay pending. *)
DisbandKeepsInvitations(P, leader) ==
    [P EXCEPT !.leaders   = @ \ {leader},
              !.requested = @ \ {leader},
              !.active    = @ \ {leader}]

(* Dissolves the party of one leader with everything that refers to it. *)
Disband(P, leader) ==
    [P EXCEPT
        !.leaders     = @ \ {leader},
        !.memberOf    = [m \in Players |->
                            IF P.memberOf[m] = leader THEN NoPlayer
                                                      ELSE P.memberOf[m]],
        !.invitations = [i \in Players |-> P.invitations[i] \ {leader}],
        !.requested   = @ \ {leader},
        !.active      = @ \ ({leader} \cup MembersOf(P, leader))]

(* The leaders among S that nobody follows and that invite nobody. *)
Deserted(P, S) ==
    {l \in S \cap P.leaders : MembersOf(P, l) = {} /\ ~HasInvitations(P, l)}

(* disband_party_if_empty for every leader of S: those parties have neither *)
(* members nor invitations, so dissolving one does not touch another.       *)
DisbandEmpty(P, S) ==
    [P EXCEPT !.leaders   = @ \ Deserted(P, S),
              !.requested = @ \ Deserted(P, S),
              !.active    = @ \ Deserted(P, S)]

(* Mutant of HandOver: the other members keep following the old leader. *)
HandOverForgetsMembers(P, leader, new) ==
    [P EXCEPT
        !.leaders       = (@ \ {leader}) \cup {new},
        !.memberOf[new] = NoPlayer,
        !.invitations   = [i \in Players |->
                              Rename(P.invitations[i], leader, new)],
        !.requested     = Rename(@, leader, new)]

(* Mutant of HandOver: the pending invitations go with the old leader. *)
HandOverDropsInvitations(P, leader, new) ==
    [P EXCEPT
        !.leaders     = (@ \ {leader}) \cup {new},
        !.memberOf    = [m \in Players |->
                            IF m = new THEN NoPlayer
                            ELSE IF P.memberOf[m] = leader THEN new
                            ELSE P.memberOf[m]],
        !.invitations = [i \in Players |-> P.invitations[i] \ {leader}],
        !.requested   = Rename(@, leader, new)]

(* Mutant of HandOver: the shared-experience request is not re-keyed. *)
HandOverKeepsRequest(P, leader, new) ==
    [P EXCEPT
        !.leaders     = (@ \ {leader}) \cup {new},
        !.memberOf    = [m \in Players |->
                            IF m = new THEN NoPlayer
                            ELSE IF P.memberOf[m] = leader THEN new
                            ELSE P.memberOf[m]],
        !.invitations = [i \in Players |->
                            Rename(P.invitations[i], leader, new)]]

(* Hands the party of leader to new, one of its members. *)
HandOver(P, leader, new) ==
    [P EXCEPT
        !.leaders     = (@ \ {leader}) \cup {new},
        !.memberOf    = [m \in Players |->
                            IF m = new THEN NoPlayer
                            ELSE IF P.memberOf[m] = leader THEN new
                            ELSE P.memberOf[m]],
        !.invitations = [i \in Players |->
                            Rename(P.invitations[i], leader, new)],
        !.requested   = Rename(@, leader, new)]

(* The lowest member succeeds a leader that goes; without members the party *)
(* is disbanded.                                                            *)
RemoveLeader(P, leader) ==
    IF MembersOf(P, leader) = {}
    THEN Disband(P, leader)
    ELSE HandOver(P, leader, Least(MembersOf(P, leader)))

RemoveMember(P, m) ==
    DisbandEmpty([P EXCEPT !.memberOf[m] = NoPlayer], {P.memberOf[m]})

RemoveFromParty(P, p) ==
    IF p \in P.leaders THEN RemoveLeader(P, p)
    ELSE IF P.memberOf[p] # NoPlayer THEN RemoveMember(P, p)
    ELSE P

DropInvitations(P, p) ==
    DisbandEmpty([P EXCEPT !.invitations[p] = {}], P.invitations[p])

(* Mutant of ClearPlayer: the player's own party is not left. *)
ClearPlayerOnlyInvitations(P, p) ==
    DropInvitations([P EXCEPT !.active = @ \ {p}], p)

(* Mutant of ClearPlayer: the activity tick outlives the session. *)
ClearPlayerKeepsActivity(P, p) == DropInvitations(RemoveFromParty(P, p), p)

(* clear_player_party_state: what remove_player does to the parties. *)
ClearPlayer(P, p) ==
    DropInvitations(RemoveFromParty([P EXCEPT !.active = @ \ {p}], p), p)

----------------------------------------------------------------------------
Init ==
    /\ online       = {}
    /\ party        = NoParties
    /\ session      = [p \in Players |-> "offline"]
    /\ storedLeader = [p \in Players |-> NoPlayer]
    /\ hydrating    = [p \in Players |-> NoPlayer]
    /\ heartbeat    = "sleeping"
    /\ snapshot     = {}
    /\ flushes      = 0

hostVars == <<session, storedLeader, hydrating, flushVars>>
tableVars == <<storedLeader, flushVars>>

(* Party requests of a connected client.  A call that fails a check changes *)
(* nothing and only writes a diagnostic, so each action is the success.     *)

Invite(leader, invitee) ==
    /\ session[leader] = "playing"
    /\ invitee \in online
    /\ leader # invitee
    /\ party.memberOf[leader] = NoPlayer
    /\ ~InParty(party, invitee)
    /\ leader \notin party.invitations[invitee]
    /\ party' = [party EXCEPT !.invitations[invitee] = @ \cup {leader},
                              !.leaders = @ \cup {leader}]
    /\ UNCHANGED <<online, hostVars>>

Accept(invitee, leader) ==
    /\ session[invitee] = "playing"
    /\ leader \in online
    /\ leader \in party.invitations[invitee]
    /\ ~InParty(party, invitee)
    /\ leader \in party.leaders
    /\ LET joined == [party EXCEPT !.invitations[invitee] = {},
                                   !.memberOf[invitee] = leader]
       IN  party' = DisbandEmpty(joined, party.invitations[invitee] \ {leader})
    /\ UNCHANGED <<online, hostVars>>

Leave(p) ==
    /\ session[p] = "playing"
    /\ InParty(party, p)
    /\ party' = RemoveFromParty(party, p)
    /\ UNCHANGED <<online, hostVars>>

TransferLeadership(leader, new) ==
    /\ session[leader] = "playing"
    /\ new \in online
    /\ leader # new
    /\ leader \in party.leaders
    /\ party.memberOf[new] = leader
    /\ party' = [HandOver(party, leader, new) EXCEPT !.memberOf[leader] = new]
    /\ UNCHANGED <<online, hostVars>>

Revoke(leader, invitee) ==
    /\ session[leader] = "playing"
    /\ invitee \in online
    /\ leader \in party.leaders
    /\ leader \in party.invitations[invitee]
    /\ LET revoked == [party EXCEPT !.invitations[invitee] = @ \ {leader}]
       IN  party' = DisbandEmpty(revoked, {leader})
    /\ UNCHANGED <<online, hostVars>>

SetSharedExperience(leader, wanted) ==
    /\ session[leader] = "playing"
    /\ leader \in party.leaders
    /\ party' = [party EXCEPT !.requested = IF wanted THEN @ \cup {leader}
                                                      ELSE @ \ {leader}]
    /\ UNCHANGED <<online, hostVars>>

RecordActivity(p) ==
    /\ p \in Fighters
    /\ session[p] = "playing"
    /\ InParty(party, p)
    /\ party' = [party EXCEPT !.active = @ \cup {p}]
    /\ UNCHANGED <<online, hostVars>>

----------------------------------------------------------------------------
(* Login: the world admits the player first; try_hydrate_persisted_party  *)
(* then reads the stored row and looks at the leader, one lock at a time. *)

Register(p) ==
    /\ session[p] = "offline"
    /\ p \notin online
    /\ online' = online \cup {p}
    /\ session' = [session EXCEPT ![p] = "registered"]
    /\ UNCHANGED <<party, hydrating, tableVars>>

Hydrated(p) ==
    /\ session' = [session EXCEPT ![p] = "playing"]
    /\ hydrating' = [hydrating EXCEPT ![p] = NoPlayer]

HydrateReadRow(p) ==
    /\ session[p] = "registered"
    /\ IF storedLeader[p] \in {NoPlayer, p}
       THEN Hydrated(p)
       ELSE /\ session' = [session EXCEPT ![p] = "rowRead"]
            /\ hydrating' = [hydrating EXCEPT ![p] = storedLeader[p]]
    /\ UNCHANGED <<online, party, tableVars>>

HydrateFindLeader(p) ==
    /\ session[p] = "rowRead"
    /\ IF hydrating[p] \in online
       THEN /\ session' = [session EXCEPT ![p] = "leaderOnline"]
            /\ UNCHANGED hydrating
       ELSE Hydrated(p)
    /\ UNCHANGED <<online, party, tableVars>>

(* player_party_leader is also Some for a plain member of a party. *)
HydrateProbe(p) ==
    /\ session[p] = "leaderOnline"
    /\ session' = [session EXCEPT ![p] =
                      IF /\ hydrating[p] \in online
                         /\ InParty(party, hydrating[p])
                      THEN "attach" ELSE "restore"]
    /\ UNCHANGED <<online, party, hydrating, tableVars>>

(* add_existing_party_member; its errors are only reported. *)
HydrateAttach(p) ==
    /\ session[p] = "attach"
    /\ LET leader == hydrating[p]
           free   == ~InParty(party, p)
       IN  party' = IF leader \in online /\ leader \in party.leaders /\ free
                    THEN [party EXCEPT !.memberOf[p] = leader]
                    ELSE party
    /\ Hydrated(p)
    /\ UNCHANGED <<online, tableVars>>

(* Mutant of HydrateRestore: the leader's own party is not looked at again. *)
HydrateRestoreUnchecked(p) ==
    /\ session[p] = "restore"
    /\ LET leader == hydrating[p]
       IN  party' = IF leader \in online /\ ~InParty(party, p)
                    THEN [party EXCEPT !.memberOf[p] = leader,
                                       !.leaders = @ \cup {leader}]
                    ELSE party
    /\ Hydrated(p)
    /\ UNCHANGED <<online, tableVars>>

(* restore_party_snapshot with p as the only member. *)
HydrateRestore(p) ==
    /\ session[p] = "restore"
    /\ LET leader == hydrating[p]
           free   == ~InParty(party, p) /\ ~InParty(party, leader)
       IN  party' = IF leader \in online /\ free
                    THEN [party EXCEPT !.memberOf[p] = leader,
                                       !.leaders = @ \cup {leader}]
                    ELSE party
    /\ Hydrated(p)
    /\ UNCHANGED <<online, tableVars>>

(* Every end of a session drops its registration, which removes the player. *)
Logout(p) ==
    /\ session[p] = "playing"
    /\ online' = online \ {p}
    /\ party' = ClearPlayer(party, p)
    /\ session' = [session EXCEPT ![p] = "offline"]
    /\ UNCHANGED <<hydrating, tableVars>>

----------------------------------------------------------------------------
(* The flush of the heartbeat: a snapshot under the world mutex, then one *)
(* SQLite transaction outside it.                                         *)

PartySnapshots == {[leader |-> l, members |-> MembersOf(party, l)] :
                       l \in party.leaders}

Listed(row) == {row.leader} \cup row.members

(* The checks of replace_player_parties: nobody is listed twice. *)
ValidSnapshot(rows) ==
    /\ \A r \in rows : r.leader \notin r.members
    /\ \A r, s \in rows : r # s => Listed(r) \cap Listed(s) = {}

(* Mutant of RowsOf: the leader gets a row of its own. *)
RowsOfEverybody(rows) ==
    [p \in Players |->
        IF \E r \in rows : p \in Listed(r)
        THEN (CHOOSE r \in rows : p \in Listed(r)).leader
        ELSE NoPlayer]

RowsOf(rows) ==
    [p \in Players |->
        IF \E r \in rows : p \in r.members
        THEN (CHOOSE r \in rows : p \in r.members).leader
        ELSE NoPlayer]

FlushRead ==
    /\ heartbeat = "sleeping"
    /\ flushes < MaxFlushes
    /\ flushes' = flushes + 1
    /\ heartbeat' = "flushing"
    /\ snapshot' = PartySnapshots
    /\ UNCHANGED <<online, party, session, storedLeader, hydrating>>

(* An invalid snapshot is an error that ends the heartbeat thread. *)
FlushWrite ==
    /\ heartbeat = "flushing"
    /\ IF ValidSnapshot(snapshot)
       THEN /\ storedLeader' = RowsOf(snapshot)
            /\ heartbeat' = "sleeping"
       ELSE /\ heartbeat' = "dead"
            /\ UNCHANGED storedLeader
    /\ snapshot' = {}
    /\ UNCHANGED <<online, party, session, hydrating, flushes>>

(* The process stops and starts again: only the table survives. *)
Restart ==
    /\ online'    = {}
    /\ party'     = NoParties
    /\ session'   = [p \in Players |-> "offline"]
    /\ hydrating' = [p \in Players |-> NoPlayer]
    /\ heartbeat' = "sleeping"
    /\ snapshot'  = {}
    /\ UNCHANGED <<storedLeader, flushes>>

----------------------------------------------------------------------------
ClientStep(p) ==
    \/ \E q \in Players :
          \/ Invite(p, q)
          \/ Accept(p, q)
          \/ TransferLeadership(p, q)
          \/ Revoke(p, q)
    \/ Leave(p)
    \/ \E wanted \in BOOLEAN : SetSharedExperience(p, wanted)
    \/ RecordActivity(p)

SessionStep(p) ==
    \/ Register(p)
    \/ HydrateReadRow(p)
    \/ HydrateFindLeader(p)
    \/ HydrateProbe(p)
    \/ HydrateAttach(p)
    \/ HydrateRestore(p)
    \/ Logout(p)

Next ==
    \/ \E p \in Players : ClientStep(p) \/ SessionStep(p)
    \/ FlushRead
    \/ FlushWrite
    \/ Restart

Spec == Init /\ [][Next]_vars

----------------------------------------------------------------------------
(* Properties *)

(* Every variable keeps the shape the Rust types give it. *)
TypeOK ==
    /\ online \subseteq Players
    /\ party \in PartyState
    /\ session \in [Players -> {"offline", "playing"} \cup LoggingIn]
    /\ storedLeader \in [Players -> OptPlayer]
    /\ hydrating \in [Players -> OptPlayer]
    /\ heartbeat \in {"sleeping", "flushing", "dead"}
    /\ snapshot \in SUBSET PartyRow
    /\ flushes \in 0..MaxFlushes

(* A player belongs to one party at most, and whom it follows is a live    *)
(* leader: no sequence of invitations, successions, transfers, logouts and *)
(* hydrations leaves a member behind a leader that is gone or that itself  *)
(* follows somebody.                                                       *)
MembersFollowLiveLeaders ==
    /\ party.leaders \subseteq online
    /\ \A p \in Players : party.memberOf[p] # NoPlayer =>
          /\ p \in online
          /\ p \notin party.leaders
          /\ party.memberOf[p] \in party.leaders

(* A pending invitation is to a player in the world and comes from a       *)
(* current leader, so accepting it can only fail because the invitee is in *)
(* a party already: succession and disbanding re-key or drop them all.     *)
InvitationsBackedByLeaders ==
    \A i \in Players : party.invitations[i] # {} =>
        /\ i \in online
        /\ party.invitations[i] \subseteq party.leaders

(* "No eligibility request can outlive the session-local party that owns *)
(* it": the shared-experience request moves with the leadership and goes *)
(* with the party.                                                       *)
RequestsOwnedByLeaders == party.requested \subseteq party.leaders

(* Activity is recorded only for players of the world, so nobody logs in *)
(* with the activity of an earlier session.                              *)
ActivityOfOnlinePlayers == party.active \subseteq online

(* The five maps of world_party.rs agree with each other and with the world: *)
(* whatever leaves, logs out, hands over, disbands or is hydrated in between  *)
(* the locks, no entry is left that points at a player or a party gone.       *)
PartyMapsAgree ==
    /\ MembersFollowLiveLeaders
    /\ InvitationsBackedByLeaders
    /\ RequestsOwnedByLeaders
    /\ ActivityOfOnlinePlayers

(* Whatever the heartbeat reads from the live world passes the checks of *)
(* replace_player_parties, so a flush of the parties never ends the      *)
(* heartbeat thread.                                                     *)
FlushNeverKillsHeartbeat ==
    /\ heartbeat # "dead"
    /\ ValidSnapshot(PartySnapshots)

(* Stored relations are one level deep: a stored leader is nobody's stored *)
(* member, so hydration after a restart has no chain to follow.            *)
StoredRowsAreFlat ==
    \A p \in Players : storedLeader[p] # NoPlayer =>
        /\ storedLeader[p] # p
        /\ storedLeader[storedLeader[p]] = NoPlayer

SameParty(P, p, q) == InParty(P, p) /\ LeaderOf(P, p) = LeaderOf(P, q)

(* A party stays together.  Two players of one party that both stay in a    *)
(* party are still together afterwards, whoever leads; and when the         *)
(* leadership passes on, the pending invitations of the old leader pass to  *)
(* the same successor (the invitee may itself log out).                     *)
PartyStaysTogether ==
    [][/\ \A p, q \in Players :
              ( /\ SameParty(party, p, q)
                /\ InParty(party', p)
                /\ InParty(party', q) ) => SameParty(party', p, q)
       /\ \A i, m, l \in Players :
              ( /\ party.memberOf[m] = l
                /\ InParty(party', m)
                /\ LeaderOf(party', m) # l
                /\ l \in party.invitations[i]
                /\ i \in online' ) => LeaderOf(party', m) \in party'.invitations[i]]_vars
=============================================================================
