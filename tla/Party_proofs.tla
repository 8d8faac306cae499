---------------------------- MODULE Party_proofs ----------------------------
(*************************************************************************)
(* Proofs about Party for every set of characters and every number of    *)
(* flushes.  WellFormed is what the party maps satisfy relative to a set *)
(* on of players in the world; the lemmas show that each operator on the *)
(* maps keeps it, and PartyInv adds what the logins and the flush need.  *)
(*************************************************************************)
EXTENDS Party, WellFoundedInduction, TLAPS

WellFormed(P, on) ==
    /\ P \in PartyState
    /\ P.leaders \subseteq on
    /\ \A p \in Players : P.memberOf[p] # NoPlayer =>
          /\ p \in on
          /\ p \notin P.leaders
          /\ P.memberOf[p] \in P.leaders
    /\ \A i \in Players : P.invitations[i] # {} =>
          /\ i \in on
          /\ P.invitations[i] \subseteq P.leaders
    /\ P.requested \subseteq P.leaders
    /\ P.active \subseteq on

PartyInv ==
    /\ TypeOK
    /\ WellFormed(party, online)
    /\ \A p \in Players : session[p] # "offline" => p \in online
    /\ \A p \in Players : session[p] \in {"rowRead", "leaderOnline", "attach", "restore"}
          => hydrating[p] \in Players \ {p}
    /\ heartbeat # "dead"
    /\ ValidSnapshot(snapshot)
    /\ StoredRowsAreFlat

----------------------------------------------------------------------------
(* The successor that Least picks is one of the candidates. *)
LEMMA LeastMember ==
    ASSUME NEW S \in SUBSET Players, S # {}
    PROVE  Least(S) \in S
<1> DEFINE R == OpToRel(<, Nat)
<1>1. S \subseteq Nat
  BY PlayersAssumption
<1>2. IsWellFoundedOn(R, Nat)
  BY NatLessThanWellFounded
<1>3. \A x, y \in Nat : <<x, y>> \in R <=> x < y
  BY DEF OpToRel
<1> HIDE DEF R
<1>4. PICK least \in S : \A p \in S : <<p, least>> \notin R
  BY <1>1, <1>2, WFMin
<1>5. ASSUME NEW p \in S
      PROVE  least <= p
  <2>1. p \in Nat /\ least \in Nat
    BY <1>1
  <2>2. ~ (p < least)
    BY <1>3, <1>4, <2>1
  <2>3. QED
    BY <2>1, <2>2
<1>6. QED
  BY <1>5 DEF Least

(* No members, no invitations: the empty world has well-formed parties. *)
LEMMA NoPartiesWellFormed == WellFormed(NoParties, {})
  BY DEF WellFormed, NoParties, PartyState, OptPlayer

(* Dissolving deserted parties leaves every member with its leader. *)
LEMMA DisbandEmptyWellFormed ==
    ASSUME NEW on \in SUBSET Players, NEW P, WellFormed(P, on),
           NEW S
    PROVE  WellFormed(DisbandEmpty(P, S), on)
<1> DEFINE D == DisbandEmpty(P, S)
           gone == Deserted(P, S)
<1>1. /\ D.leaders = P.leaders \ gone
      /\ D.memberOf = P.memberOf
      /\ D.invitations = P.invitations
      /\ D.requested = P.requested \ gone
      /\ D.active = P.active \ gone
      /\ D \in PartyState
  BY DEF DisbandEmpty, WellFormed, PartyState
<1>2. ASSUME NEW p \in Players, P.memberOf[p] # NoPlayer
      PROVE  P.memberOf[p] \notin gone
  BY <1>2 DEF Deserted, MembersOf
<1>3. ASSUME NEW i \in Players, NEW l \in P.invitations[i]
      PROVE  l \notin gone
  BY <1>3 DEF Deserted, HasInvitations
<1>4. QED
  BY <1>1, <1>2, <1>3 DEF WellFormed

(* Handing a party over keeps it well-formed and leaves the old leader with *)
(* no part in it.                                                           *)
LEMMA HandOverWellFormed ==
    ASSUME NEW on \in SUBSET Players, NEW P, WellFormed(P, on),
           NEW leader \in P.leaders, NEW new \in Players,
           P.memberOf[new] = leader
    PROVE  /\ WellFormed(HandOver(P, leader, new), on)
           /\ leader \notin HandOver(P, leader, new).leaders
           /\ new \in HandOver(P, leader, new).leaders
           /\ HandOver(P, leader, new).memberOf[leader] = NoPlayer
           /\ HandOver(P, leader, new).active = P.active
<1> DEFINE H == HandOver(P, leader, new)
<1>1. /\ leader \in Players
      /\ leader # new
      /\ new \in on
      /\ new \notin P.leaders
      /\ P.memberOf[leader] = NoPlayer
      /\ leader # NoPlayer
  BY PlayersAssumption DEF WellFormed, PartyState
<1>2. /\ H.leaders = (P.leaders \ {leader}) \cup {new}
      /\ H.memberOf = [m \in Players |->
                          IF m = new THEN NoPlayer
                          ELSE IF P.memberOf[m] = leader THEN new
                          ELSE P.memberOf[m]]
      /\ H.invitations = [i \in Players |-> Rename(P.invitations[i], leader, new)]
      /\ H.requested = Rename(P.requested, leader, new)
      /\ H.active = P.active
  BY DEF HandOver, WellFormed, PartyState
<1>3. H \in PartyState
  <2> DEFINE L == (P.leaders \ {leader}) \cup {new}
             M == [m \in Players |-> IF m = new THEN NoPlayer
                                     ELSE IF P.memberOf[m] = leader THEN new
                                     ELSE P.memberOf[m]]
             I == [i \in Players |-> Rename(P.invitations[i], leader, new)]
             R == Rename(P.requested, leader, new)
  <2>1. L \in SUBSET Players
    BY DEF WellFormed, PartyState
  <2>2. M \in [Players -> OptPlayer]
    BY DEF WellFormed, PartyState, OptPlayer
  <2>3. I \in [Players -> SUBSET Players]
    BY DEF WellFormed, PartyState, Rename
  <2>4. R \in SUBSET Players
    BY DEF WellFormed, PartyState, Rename
  <2>5. H = [P EXCEPT !.leaders = L, !.memberOf = M, !.invitations = I,
                      !.requested = R]
    BY DEF HandOver
  <2> HIDE DEF L, M, I, R, H
  <2>6. QED
    BY <2>1, <2>2, <2>3, <2>4, <2>5 DEF WellFormed, PartyState
<1>4. \A p \in Players : H.memberOf[p] # NoPlayer =>
          /\ p \in on
          /\ p \notin H.leaders
          /\ H.memberOf[p] \in H.leaders
  BY <1>1, <1>2 DEF WellFormed
<1>5. \A i \in Players : H.invitations[i] # {} =>
          /\ i \in on
          /\ H.invitations[i] \subseteq H.leaders
  BY <1>1, <1>2 DEF WellFormed, Rename
<1>6. H.requested \subseteq H.leaders
  BY <1>1, <1>2 DEF WellFormed, Rename
<1>7. H.leaders \subseteq on /\ H.active \subseteq on
  BY <1>1, <1>2 DEF WellFormed
<1>8. /\ leader \notin H.leaders
      /\ new \in H.leaders
      /\ H.memberOf[leader] = NoPlayer
  BY <1>1, <1>2
<1>9. QED
  BY <1>2, <1>3, <1>4, <1>5, <1>6, <1>7, <1>8 DEF WellFormed

(* Dissolving a party keeps the others well-formed. *)
LEMMA DisbandWellFormed ==
    ASSUME NEW on \in SUBSET Players, NEW P, WellFormed(P, on),
           NEW leader \in P.leaders
    PROVE  /\ WellFormed(Disband(P, leader), on)
           /\ leader \notin Disband(P, leader).leaders
           /\ Disband(P, leader).memberOf[leader] = NoPlayer
           /\ Disband(P, leader).active \subseteq P.active
<1> DEFINE D == Disband(P, leader)
<1>1. /\ D.leaders = P.leaders \ {leader}
      /\ D.memberOf = [m \in Players |-> IF P.memberOf[m] = leader THEN NoPlayer
                                                                   ELSE P.memberOf[m]]
      /\ D.invitations = [i \in Players |-> P.invitations[i] \ {leader}]
      /\ D.requested = P.requested \ {leader}
      /\ D.active = P.active \ ({leader} \cup MembersOf(P, leader))
  BY DEF Disband, WellFormed, PartyState
<1>2. D \in PartyState
  BY DEF Disband, WellFormed, PartyState, OptPlayer
<1>3. leader \in Players /\ P.memberOf[leader] = NoPlayer
  BY DEF WellFormed, PartyState
<1>4. QED
  BY <1>1, <1>2, <1>3, PlayersAssumption DEF WellFormed

(* Whatever a player is to its party, leaving it works: afterwards nothing *)
(* of the parties refers to the player but invitations it was sent.        *)
LEMMA RemoveFromPartyWellFormed ==
    ASSUME NEW on \in SUBSET Players, NEW P, WellFormed(P, on),
           NEW p \in Players
    PROVE  /\ WellFormed(RemoveFromParty(P, p), on)
           /\ p \notin RemoveFromParty(P, p).leaders
           /\ RemoveFromParty(P, p).memberOf[p] = NoPlayer
           /\ RemoveFromParty(P, p).active \subseteq P.active
<1> DEFINE R == RemoveFromParty(P, p)
<1>1. CASE p \in P.leaders
  <2>1. CASE MembersOf(P, p) = {}
    BY <1>1, <2>1, DisbandWellFormed DEF RemoveFromParty, RemoveLeader
  <2>2. CASE MembersOf(P, p) # {}
    <3> DEFINE new == Least(MembersOf(P, p))
    <3>1. new \in MembersOf(P, p)
      BY <2>2, LeastMember DEF MembersOf
    <3>2. new \in Players /\ P.memberOf[new] = p
      BY <3>1 DEF MembersOf
    <3>3. R = HandOver(P, p, new)
      BY <1>1, <2>2 DEF RemoveFromParty, RemoveLeader
    <3> HIDE DEF new
    <3>4. QED
      BY <1>1, <3>2, <3>3, HandOverWellFormed
  <2>3. QED
    BY <2>1, <2>2
<1>2. CASE p \notin P.leaders /\ P.memberOf[p] # NoPlayer
  <2> DEFINE M == [P EXCEPT !.memberOf[p] = NoPlayer]
             S == {P.memberOf[p]}
  <2>1. /\ M.leaders = P.leaders
        /\ M.memberOf = [P.memberOf EXCEPT ![p] = NoPlayer]
        /\ M.invitations = P.invitations
        /\ M.requested = P.requested
        /\ M.active = P.active
        /\ M \in PartyState
    BY DEF WellFormed, PartyState, OptPlayer
  <2>2. M.memberOf[p] = NoPlayer /\ \A q \in Players : q # p => M.memberOf[q] = P.memberOf[q]
    BY <2>1 DEF WellFormed, PartyState
  <2>3. WellFormed(M, on)
    BY <2>1, <2>2 DEF WellFormed
  <2>4. R = DisbandEmpty(M, S)
    BY <1>2 DEF RemoveFromParty, RemoveMember
  <2>5. WellFormed(R, on)
    BY <2>3, <2>4, DisbandEmptyWellFormed
  <2>6. /\ R.leaders \subseteq M.leaders
        /\ R.memberOf = M.memberOf
        /\ R.active \subseteq M.active
    BY <2>1, <2>4 DEF DisbandEmpty, PartyState
  <2>7. QED
    BY <1>2, <2>1, <2>2, <2>5, <2>6
<1>3. CASE p \notin P.leaders /\ P.memberOf[p] = NoPlayer
  BY <1>3 DEF RemoveFromParty
<1>4. QED
  BY <1>1, <1>2, <1>3

(* Removing a player from the world leaves parties that are well-formed *)
(* without it.                                                          *)
LEMMA ClearPlayerWellFormed ==
    ASSUME NEW on \in SUBSET Players, NEW P, WellFormed(P, on),
           NEW p \in Players
    PROVE  WellFormed(ClearPlayer(P, p), on \ {p})
<1> DEFINE A == [P EXCEPT !.active = @ \ {p}]
           R == RemoveFromParty(A, p)
           I == [R EXCEPT !.invitations[p] = {}]
           C == ClearPlayer(P, p)
<1>1. WellFormed(A, on) /\ p \notin A.active
  BY DEF WellFormed, PartyState
<1> HIDE DEF A
<1>2. /\ WellFormed(R, on)
      /\ p \notin R.leaders
      /\ R.memberOf[p] = NoPlayer
      /\ p \notin R.active
  BY <1>1, RemoveFromPartyWellFormed
<1> HIDE DEF R
<1>3. /\ I.leaders = R.leaders
      /\ I.memberOf = R.memberOf
      /\ I.invitations = [R.invitations EXCEPT ![p] = {}]
      /\ I.requested = R.requested
      /\ I.active = R.active
      /\ I \in PartyState
  BY <1>2 DEF WellFormed, PartyState
<1>4. I.invitations[p] = {} /\ \A q \in Players : q # p => I.invitations[q] = R.invitations[q]
  BY <1>2, <1>3 DEF WellFormed, PartyState
<1>5. WellFormed(I, on \ {p})
  BY <1>2, <1>3, <1>4 DEF WellFormed
<1>6. C = DisbandEmpty(I, R.invitations[p])
  BY DEF ClearPlayer, DropInvitations, A, R
<1>7. on \ {p} \in SUBSET Players
  OBVIOUS
<1> HIDE DEF I
<1>8. QED
  BY <1>5, <1>6, <1>7, DisbandEmptyWellFormed

----------------------------------------------------------------------------
(* A party request touches nothing but the parties. *)
LEMMA PartyRequestInv ==
    ASSUME PartyInv, WellFormed(party', online), UNCHANGED <<online, hostVars>>
    PROVE  PartyInv'
<1>1. /\ online' = online
      /\ session' = session
      /\ storedLeader' = storedLeader
      /\ hydrating' = hydrating
      /\ heartbeat' = heartbeat
      /\ snapshot' = snapshot
      /\ flushes' = flushes
  BY DEF hostVars, flushVars
<1>2. TypeOK'
  BY <1>1 DEF PartyInv, TypeOK, WellFormed
<1>3. WellFormed(party', online')
  BY <1>1
<1>4. ValidSnapshot(snapshot') /\ StoredRowsAreFlat'
  BY <1>1 DEF PartyInv, StoredRowsAreFlat
<1>5. QED
  BY <1>1, <1>2, <1>3, <1>4 DEF PartyInv

(* Nobody has a party and no row is stored when the host starts. *)
LEMMA InitPartyInv == Init => PartyInv
<1> SUFFICES ASSUME Init PROVE PartyInv
  OBVIOUS
<1>1. WellFormed(party, online)
  BY NoPartiesWellFormed DEF Init
<1>2. TypeOK
  BY <1>1, PlayersAssumption DEF Init, TypeOK, WellFormed, OptPlayer, LoggingIn
<1>3. ValidSnapshot(snapshot) /\ StoredRowsAreFlat
  BY DEF Init, ValidSnapshot, StoredRowsAreFlat
<1>4. QED
  BY <1>1, <1>2, <1>3 DEF Init, PartyInv

(* An invitation makes its sender a leader, unless it follows somebody. *)
LEMMA InviteInv ==
    ASSUME PartyInv, NEW leader \in Players, NEW invitee \in Players,
           Invite(leader, invitee)
    PROVE  PartyInv'
<1>1. leader \in online /\ WellFormed(party, online)
  BY DEF Invite, PartyInv
<1>2. /\ party'.leaders = party.leaders \cup {leader}
      /\ party'.memberOf = party.memberOf
      /\ party'.invitations = [party.invitations EXCEPT ![invitee] = @ \cup {leader}]
      /\ party'.requested = party.requested
      /\ party'.active = party.active
      /\ party' \in PartyState
  BY <1>1 DEF Invite, WellFormed, PartyState
<1>3. /\ party'.invitations[invitee] = party.invitations[invitee] \cup {leader}
      /\ \A i \in Players : i # invitee =>
            party'.invitations[i] = party.invitations[i]
  BY <1>1, <1>2 DEF WellFormed, PartyState
<1>4. party.memberOf[leader] = NoPlayer /\ invitee \in online
  BY DEF Invite
<1>5. \A p \in Players : party'.memberOf[p] # NoPlayer =>
          /\ p \in online
          /\ p \notin party'.leaders
          /\ party'.memberOf[p] \in party'.leaders
  BY <1>1, <1>2, <1>4 DEF WellFormed
<1>6. \A i \in Players : party'.invitations[i] # {} =>
          /\ i \in online
          /\ party'.invitations[i] \subseteq party'.leaders
  BY <1>1, <1>2, <1>3, <1>4 DEF WellFormed
<1>7. WellFormed(party', online)
  BY <1>1, <1>2, <1>5, <1>6 DEF WellFormed
<1>8. QED
  BY <1>7, PartyRequestInv DEF Invite

(* Putting a player that is in no party behind a live leader. *)
LEMMA JoinWellFormed ==
    ASSUME NEW on \in SUBSET Players, NEW P, WellFormed(P, on),
           NEW p \in on, NEW leader \in on,
           p \notin P.leaders, P.memberOf[leader] = NoPlayer, p # leader
    PROVE  WellFormed([P EXCEPT !.memberOf[p] = leader,
                                !.leaders = @ \cup {leader}], on)
<1> DEFINE J == [P EXCEPT !.memberOf[p] = leader, !.leaders = @ \cup {leader}]
<1>1. /\ J.leaders = P.leaders \cup {leader}
      /\ J.memberOf = [P.memberOf EXCEPT ![p] = leader]
      /\ J.invitations = P.invitations
      /\ J.requested = P.requested
      /\ J.active = P.active
      /\ J \in PartyState
  BY DEF WellFormed, PartyState, OptPlayer
<1>2. /\ J.memberOf[p] = leader
      /\ \A q \in Players : q # p => J.memberOf[q] = P.memberOf[q]
  BY <1>1 DEF WellFormed, PartyState
<1>3. QED
  BY <1>1, <1>2 DEF WellFormed

(* Accepting one invitation drops the others; the parties that only lived *)
(* on them are dissolved.                                                 *)
LEMMA AcceptInv ==
    ASSUME PartyInv, NEW invitee \in Players, NEW leader \in Players,
           Accept(invitee, leader)
    PROVE  PartyInv'
<1> DEFINE J == [party EXCEPT !.invitations[invitee] = {},
                              !.memberOf[invitee] = leader]
<1>1. /\ WellFormed(party, online)
      /\ invitee \in online
      /\ leader \in party.leaders
      /\ invitee \notin party.leaders
  BY PlayersAssumption DEF Accept, PartyInv, InParty, LeaderOf
<1>2. /\ J.leaders = party.leaders
      /\ J.memberOf = [party.memberOf EXCEPT ![invitee] = leader]
      /\ J.invitations = [party.invitations EXCEPT ![invitee] = {}]
      /\ J.requested = party.requested
      /\ J.active = party.active
      /\ J \in PartyState
  BY <1>1 DEF WellFormed, PartyState, OptPlayer
<1>3. /\ J.memberOf[invitee] = leader
      /\ J.invitations[invitee] = {}
      /\ \A q \in Players : q # invitee =>
            /\ J.memberOf[q] = party.memberOf[q]
            /\ J.invitations[q] = party.invitations[q]
  BY <1>1, <1>2 DEF WellFormed, PartyState
<1>4. WellFormed(J, online)
  BY <1>1, <1>2, <1>3 DEF WellFormed
<1>5. party' = DisbandEmpty(J, party.invitations[invitee] \ {leader})
  BY DEF Accept
<1>6. online \in SUBSET Players
  BY DEF PartyInv, TypeOK
<1> HIDE DEF J
<1>7. WellFormed(party', online)
  BY <1>4, <1>5, <1>6, DisbandEmptyWellFormed
<1>8. QED
  BY <1>7, PartyRequestInv DEF Accept

(* A leader that leaves is succeeded, a member is just let go. *)
LEMMA LeaveInv ==
    ASSUME PartyInv, NEW p \in Players, Leave(p)
    PROVE  PartyInv'
<1>1. WellFormed(party, online) /\ online \in SUBSET Players
  BY DEF PartyInv, TypeOK
<1>2. WellFormed(party', online)
  BY <1>1, RemoveFromPartyWellFormed DEF Leave
<1>3. QED
  BY <1>2, PartyRequestInv DEF Leave

(* After a transfer the old leader follows the new one. *)
LEMMA TransferInv ==
    ASSUME PartyInv, NEW leader \in Players, NEW new \in Players,
           TransferLeadership(leader, new)
    PROVE  PartyInv'
<1> DEFINE H == HandOver(party, leader, new)
<1>1. /\ WellFormed(party, online)
      /\ online \in SUBSET Players
      /\ leader \in party.leaders
      /\ leader \in online
      /\ party.memberOf[new] = leader
  BY DEF TransferLeadership, PartyInv, TypeOK, WellFormed
<1>2. /\ WellFormed(H, online)
      /\ leader \notin H.leaders
      /\ new \in H.leaders
  BY <1>1, HandOverWellFormed
<1>3. party' = [H EXCEPT !.memberOf[leader] = new]
  BY DEF TransferLeadership
<1> HIDE DEF H
<1>4. /\ party'.leaders = H.leaders
      /\ party'.memberOf = [H.memberOf EXCEPT ![leader] = new]
      /\ party'.invitations = H.invitations
      /\ party'.requested = H.requested
      /\ party'.active = H.active
      /\ party' \in PartyState
  BY <1>2, <1>3 DEF WellFormed, PartyState, OptPlayer
<1>5. /\ party'.memberOf[leader] = new
      /\ \A q \in Players : q # leader => party'.memberOf[q] = H.memberOf[q]
  BY <1>2, <1>4 DEF WellFormed, PartyState
<1>6. WellFormed(party', online)
  BY <1>1, <1>2, <1>4, <1>5 DEF WellFormed
<1>7. QED
  BY <1>6, PartyRequestInv DEF TransferLeadership

(* A party whose last invitation is revoked goes, if nobody joined it. *)
LEMMA RevokeInv ==
    ASSUME PartyInv, NEW leader \in Players, NEW invitee \in Players,
           Revoke(leader, invitee)
    PROVE  PartyInv'
<1> DEFINE R == [party EXCEPT !.invitations[invitee] = @ \ {leader}]
<1>1. WellFormed(party, online) /\ online \in SUBSET Players
  BY DEF PartyInv, TypeOK
<1>2. /\ R.leaders = party.leaders
      /\ R.memberOf = party.memberOf
      /\ R.invitations = [party.invitations EXCEPT ![invitee] = @ \ {leader}]
      /\ R.requested = party.requested
      /\ R.active = party.active
      /\ R \in PartyState
  BY <1>1 DEF WellFormed, PartyState
<1>3. \A i \in Players : R.invitations[i] \subseteq party.invitations[i]
  BY <1>1, <1>2 DEF WellFormed, PartyState
<1>4. WellFormed(R, online)
  BY <1>1, <1>2, <1>3 DEF WellFormed
<1>5. party' = DisbandEmpty(R, {leader})
  BY DEF Revoke
<1> HIDE DEF R
<1>6. WellFormed(party', online)
  BY <1>1, <1>4, <1>5, DisbandEmptyWellFormed
<1>7. QED
  BY <1>6, PartyRequestInv DEF Revoke

(* Requests are made by leaders, activity is recorded for online players. *)
LEMMA RequestAndActivityInv ==
    ASSUME PartyInv, NEW p \in Players,
           \/ \E wanted \in BOOLEAN : SetSharedExperience(p, wanted)
           \/ RecordActivity(p)
    PROVE  PartyInv'
<1>1. WellFormed(party, online) /\ p \in online
  BY DEF PartyInv, SetSharedExperience, RecordActivity
<1>2. CASE \E wanted \in BOOLEAN : SetSharedExperience(p, wanted)
  <2>1. PICK wanted \in BOOLEAN : SetSharedExperience(p, wanted)
    BY <1>2
  <2>2. WellFormed(party', online)
    BY <1>1, <2>1 DEF SetSharedExperience, WellFormed, PartyState
  <2>3. QED
    BY <2>1, <2>2, PartyRequestInv DEF SetSharedExperience
<1>3. CASE RecordActivity(p)
  <2>1. WellFormed(party', online)
    BY <1>1, <1>3 DEF RecordActivity, WellFormed, PartyState
  <2>2. QED
    BY <1>3, <2>1, PartyRequestInv DEF RecordActivity
<1>4. QED
  BY <1>2, <1>3

----------------------------------------------------------------------------
(* What a login remembers between its locks concerns only itself. *)
LEMMA LoginInv ==
    ASSUME PartyInv, NEW p \in Players,
           \/ Register(p)
           \/ HydrateReadRow(p)
           \/ HydrateFindLeader(p)
           \/ HydrateProbe(p)
    PROVE  PartyInv'
<1>1. /\ WellFormed(party, online)
      /\ party' = party
      /\ online \subseteq online'
      /\ storedLeader' = storedLeader
      /\ heartbeat' = heartbeat
      /\ snapshot' = snapshot
      /\ flushes' = flushes
  BY DEF PartyInv, Register, HydrateReadRow, HydrateFindLeader, HydrateProbe,
         tableVars, flushVars
<1>2. WellFormed(party', online')
  BY <1>1 DEF WellFormed
<1>3. /\ online' \in SUBSET Players
      /\ session' \in [Players -> {"offline", "playing"} \cup LoggingIn]
      /\ hydrating' \in [Players -> OptPlayer]
  <2>1. CASE Register(p)
    BY <2>1 DEF PartyInv, TypeOK, LoggingIn, Register
  <2>2. CASE HydrateReadRow(p)
    BY <2>2 DEF PartyInv, TypeOK, LoggingIn, OptPlayer, Hydrated, HydrateReadRow
  <2>3. CASE HydrateFindLeader(p)
    BY <2>3 DEF PartyInv, TypeOK, LoggingIn, OptPlayer, Hydrated, HydrateFindLeader
  <2>4. CASE HydrateProbe(p)
    BY <2>4 DEF PartyInv, TypeOK, LoggingIn, HydrateProbe
  <2>5. QED
    BY <2>1, <2>2, <2>3, <2>4
<1>4. TypeOK'
  BY <1>1, <1>3 DEF PartyInv, TypeOK
<1>5. \A q \in Players : session'[q] # "offline" => q \in online'
  BY DEF PartyInv, TypeOK, Register, HydrateReadRow, HydrateFindLeader,
         HydrateProbe, Hydrated
<1>6. ASSUME NEW q \in Players,
             session'[q] \in {"rowRead", "leaderOnline", "attach", "restore"}
      PROVE  hydrating'[q] \in Players \ {q}
  BY <1>6 DEF PartyInv, TypeOK, OptPlayer, Register, HydrateReadRow,
         HydrateFindLeader, HydrateProbe, Hydrated
<1>7. ValidSnapshot(snapshot') /\ StoredRowsAreFlat'
  BY <1>1 DEF PartyInv, StoredRowsAreFlat
<1>8. QED
  BY <1>1, <1>2, <1>4, <1>5, <1>6, <1>7 DEF PartyInv

(* Hydration joins a player to a live leader that follows nobody. *)
LEMMA HydrateInv ==
    ASSUME PartyInv, NEW p \in Players, HydrateAttach(p) \/ HydrateRestore(p)
    PROVE  PartyInv'
<1> DEFINE leader == hydrating[p]
           J == [party EXCEPT !.memberOf[p] = leader,
                              !.leaders = @ \cup {leader}]
<1>1. /\ WellFormed(party, online)
      /\ online \in SUBSET Players
      /\ p \in online
      /\ leader \in Players \ {p}
  BY DEF PartyInv, TypeOK, HydrateAttach, HydrateRestore
<1>2. /\ online' = online
      /\ storedLeader' = storedLeader
      /\ heartbeat' = heartbeat
      /\ snapshot' = snapshot
      /\ flushes' = flushes
      /\ Hydrated(p)
  BY DEF HydrateAttach, HydrateRestore, tableVars, flushVars
<1>3. \/ party' = party
      \/ /\ party' = J
         /\ leader \in online
         /\ p \notin party.leaders
         /\ party.memberOf[leader] = NoPlayer
  <2>1. CASE HydrateAttach(p)
    <3>1. CASE leader \in online /\ leader \in party.leaders /\ ~InParty(party, p)
      <4>1. party' = [party EXCEPT !.memberOf[p] = leader]
        BY <2>1, <3>1 DEF HydrateAttach
      <4>2. party.leaders \cup {leader} = party.leaders
        BY <3>1
      <4>3. party' = J
        BY <1>1, <4>1, <4>2 DEF WellFormed, PartyState
      <4>4. p \notin party.leaders /\ party.memberOf[leader] = NoPlayer
        BY <1>1, <3>1, PlayersAssumption DEF InParty, LeaderOf, WellFormed
      <4>5. QED
        BY <3>1, <4>3, <4>4
    <3>2. CASE ~(leader \in online /\ leader \in party.leaders /\ ~InParty(party, p))
      BY <2>1, <3>2 DEF HydrateAttach
    <3>3. QED
      BY <3>1, <3>2
  <2>2. CASE HydrateRestore(p)
    <3>1. CASE leader \in online /\ ~InParty(party, p) /\ ~InParty(party, leader)
      <4>1. p \notin party.leaders /\ party.memberOf[leader] = NoPlayer
        BY <1>1, <3>1, PlayersAssumption DEF InParty, LeaderOf
      <4>2. QED
        BY <2>2, <3>1, <4>1 DEF HydrateRestore
    <3>2. CASE ~(leader \in online /\ ~InParty(party, p) /\ ~InParty(party, leader))
      BY <2>2, <3>2 DEF HydrateRestore
    <3>3. QED
      BY <3>1, <3>2
  <2>3. QED
    BY <2>1, <2>2
<1>4. WellFormed(party', online')
  <2>1. CASE party' = party
    BY <1>1, <1>2, <2>1
  <2>2. CASE /\ party' = J
             /\ leader \in online
             /\ p \notin party.leaders
             /\ party.memberOf[leader] = NoPlayer
    <3> HIDE DEF leader
    <3>1. p # leader
      BY <1>1
    <3>2. WellFormed(J, online)
      BY <1>1, <2>2, <3>1, JoinWellFormed
    <3>3. QED
      BY <1>2, <2>2, <3>2
  <2>3. QED
    BY <1>3, <2>1, <2>2
<1>5. /\ session' \in [Players -> {"offline", "playing"} \cup LoggingIn]
      /\ hydrating' \in [Players -> OptPlayer]
  BY <1>2 DEF Hydrated, PartyInv, TypeOK, OptPlayer
<1>6. TypeOK'
  BY <1>2, <1>4, <1>5 DEF PartyInv, TypeOK, WellFormed
<1>7. \A q \in Players : session'[q] # "offline" => q \in online'
  BY <1>1, <1>2 DEF PartyInv, TypeOK, Hydrated
<1>8. \A q \in Players : session'[q] \in {"rowRead", "leaderOnline", "attach", "restore"}
          => hydrating'[q] \in Players \ {q}
  BY <1>2 DEF PartyInv, TypeOK, Hydrated
<1>9. ValidSnapshot(snapshot') /\ StoredRowsAreFlat'
  BY <1>2 DEF PartyInv, StoredRowsAreFlat
<1>10. QED
  BY <1>2, <1>4, <1>6, <1>7, <1>8, <1>9 DEF PartyInv

(* Nothing of the parties is left of a player that is removed. *)
LEMMA LogoutInv ==
    ASSUME PartyInv, NEW p \in Players, Logout(p)
    PROVE  PartyInv'
<1>1. WellFormed(party, online) /\ online \in SUBSET Players
  BY DEF PartyInv, TypeOK
<1>2. /\ online' = online \ {p}
      /\ party' = ClearPlayer(party, p)
      /\ session' = [session EXCEPT ![p] = "offline"]
      /\ storedLeader' = storedLeader
      /\ hydrating' = hydrating
      /\ heartbeat' = heartbeat
      /\ snapshot' = snapshot
      /\ flushes' = flushes
  BY DEF Logout, tableVars, flushVars
<1>3. WellFormed(party', online')
  BY <1>1, <1>2, ClearPlayerWellFormed
<1>4. TypeOK'
  BY <1>2, <1>3 DEF PartyInv, TypeOK, WellFormed
<1>5. \A q \in Players : session'[q] # "offline" => q \in online'
  BY <1>2 DEF PartyInv, TypeOK
<1>6. \A q \in Players : session'[q] \in {"rowRead", "leaderOnline", "attach", "restore"}
          => hydrating'[q] \in Players \ {q}
  BY <1>2 DEF PartyInv, TypeOK
<1>7. ValidSnapshot(snapshot') /\ StoredRowsAreFlat'
  BY <1>2 DEF PartyInv, StoredRowsAreFlat
<1>8. QED
  BY <1>2, <1>3, <1>4, <1>5, <1>6, <1>7 DEF PartyInv

----------------------------------------------------------------------------
(* Well-formed parties pass the checks of replace_player_parties. *)
LEMMA SnapshotIsValid ==
    ASSUME NEW on, WellFormed(party, on)
    PROVE  PartySnapshots \in SUBSET PartyRow /\ ValidSnapshot(PartySnapshots)
<1>1. PartySnapshots \in SUBSET PartyRow
  BY DEF PartySnapshots, PartyRow, MembersOf, WellFormed, PartyState
<1>2. ASSUME NEW r \in PartySnapshots
      PROVE  /\ r.leader \in party.leaders
             /\ r = [leader |-> r.leader, members |-> MembersOf(party, r.leader)]
             /\ r.members = MembersOf(party, r.leader)
  BY DEF PartySnapshots
<1>3. ASSUME NEW r \in PartySnapshots, NEW m \in r.members
      PROVE  /\ m \in Players
             /\ party.memberOf[m] = r.leader
             /\ m \notin party.leaders
  <2>1. m \in MembersOf(party, r.leader) /\ r.leader \in party.leaders
    BY <1>2, <1>3
  <2>2. m \in Players /\ party.memberOf[m] = r.leader /\ r.leader # NoPlayer
    BY <2>1, PlayersAssumption DEF MembersOf, WellFormed, PartyState
  <2>3. QED
    BY <2>2 DEF WellFormed
<1>4. \A r \in PartySnapshots : r.leader \notin r.members
  BY <1>2, <1>3
<1>5. ASSUME NEW r \in PartySnapshots, NEW s \in PartySnapshots,
             NEW x \in Listed(r), x \in Listed(s)
      PROVE  r = s
  <2>1. r.leader = s.leader
    BY <1>2, <1>3, <1>5 DEF Listed
  <2>2. QED
    BY <2>1, <1>2
<1>6. QED
  BY <1>1, <1>4, <1>5 DEF ValidSnapshot

(* The rows of a valid snapshot are one level deep. *)
LEMMA RowsAreFlat ==
    ASSUME NEW rows \in SUBSET PartyRow, ValidSnapshot(rows)
    PROVE  /\ RowsOf(rows) \in [Players -> OptPlayer]
           /\ \A p \in Players : RowsOf(rows)[p] # NoPlayer =>
                 /\ RowsOf(rows)[p] # p
                 /\ RowsOf(rows)[RowsOf(rows)[p]] = NoPlayer
<1> DEFINE row(p) == CHOOSE r \in rows : p \in r.members
<1>1. ASSUME NEW p \in Players, \E r \in rows : p \in r.members
      PROVE  row(p) \in rows /\ p \in row(p).members /\ RowsOf(rows)[p] = row(p).leader
  BY <1>1 DEF RowsOf
<1>2. ASSUME NEW p \in Players, ~\E r \in rows : p \in r.members
      PROVE  RowsOf(rows)[p] = NoPlayer
  BY <1>2 DEF RowsOf
<1>3. ASSUME NEW p \in Players
      PROVE  RowsOf(rows)[p] \in OptPlayer
  BY <1>1, <1>2 DEF OptPlayer, PartyRow
<1>4. RowsOf(rows) \in [Players -> OptPlayer]
  BY <1>3 DEF RowsOf
<1>5. ASSUME NEW p \in Players, RowsOf(rows)[p] # NoPlayer
      PROVE  /\ RowsOf(rows)[p] # p
             /\ RowsOf(rows)[RowsOf(rows)[p]] = NoPlayer
  <2>1. \E r \in rows : p \in r.members
    BY <1>2, <1>5
  <2>2. PICK r \in rows : p \in r.members /\ RowsOf(rows)[p] = r.leader
    BY <1>1, <2>1
  <2>3. r.leader \in Players /\ r.leader \notin r.members
    BY DEF PartyRow, ValidSnapshot
  <2>4. ASSUME NEW s \in rows, r.leader \in s.members
        PROVE  FALSE
    <3>1. r.leader \in Listed(r) /\ r.leader \in Listed(s)
      BY <2>4 DEF Listed
    <3>2. r = s
      BY <3>1 DEF ValidSnapshot
    <3>3. QED
      BY <2>3, <2>4, <3>2
  <2>5. QED
    BY <1>2, <2>2, <2>3, <2>4
<1>6. QED
  BY <1>4, <1>5

(* A flush writes what was valid when it was read. *)
LEMMA FlushInv ==
    ASSUME PartyInv, FlushRead \/ FlushWrite
    PROVE  PartyInv'
<1>1. /\ online' = online
      /\ party' = party
      /\ session' = session
      /\ hydrating' = hydrating
  BY DEF FlushRead, FlushWrite
<1>2. CASE FlushRead
  <2>1. snapshot' \in SUBSET PartyRow /\ ValidSnapshot(snapshot')
    BY <1>2, SnapshotIsValid DEF FlushRead, PartyInv
  <2>2. /\ storedLeader' = storedLeader
        /\ heartbeat' = "flushing"
        /\ flushes' \in 0..MaxFlushes
    BY <1>2, PlayersAssumption DEF FlushRead, PartyInv, TypeOK
  <2>3. QED
    BY <1>1, <2>1, <2>2 DEF PartyInv, TypeOK, StoredRowsAreFlat
<1>3. CASE FlushWrite
  <2>1. /\ storedLeader' = RowsOf(snapshot)
        /\ heartbeat' = "sleeping"
        /\ snapshot' = {}
        /\ flushes' = flushes
    BY <1>3 DEF FlushWrite, PartyInv
  <2>2. storedLeader' \in [Players -> OptPlayer] /\ StoredRowsAreFlat'
    BY <2>1, RowsAreFlat DEF PartyInv, TypeOK, StoredRowsAreFlat
  <2>3. ValidSnapshot(snapshot')
    BY <2>1 DEF ValidSnapshot
  <2>4. QED
    BY <1>1, <2>1, <2>2, <2>3 DEF PartyInv, TypeOK
<1>4. QED
  BY <1>2, <1>3

(* After a restart there are no parties until somebody logs in. *)
LEMMA RestartInv == ASSUME PartyInv, Restart PROVE PartyInv'
<1>1. WellFormed(party', online')
  BY NoPartiesWellFormed DEF Restart
<1>2. TypeOK'
  BY <1>1, PlayersAssumption
     DEF Restart, PartyInv, TypeOK, WellFormed, OptPlayer
<1>3. ValidSnapshot(snapshot') /\ StoredRowsAreFlat'
  BY DEF Restart, PartyInv, ValidSnapshot, StoredRowsAreFlat
<1>4. QED
  BY <1>1, <1>2, <1>3 DEF Restart, PartyInv

----------------------------------------------------------------------------
(* Every step of a client, a login, the heartbeat or a restart keeps it. *)
LEMMA NextInv == PartyInv /\ [Next]_vars => PartyInv'
<1> SUFFICES ASSUME PartyInv, [Next]_vars PROVE PartyInv'
  OBVIOUS
<1>1. CASE \E p \in Players : ClientStep(p)
  <2>1. PICK p \in Players : ClientStep(p)
    BY <1>1
  <2>2. CASE \E q \in Players : Invite(p, q)
    BY <2>2, InviteInv
  <2>3. CASE \E q \in Players : Accept(p, q)
    BY <2>3, AcceptInv
  <2>4. CASE \E q \in Players : TransferLeadership(p, q)
    BY <2>4, TransferInv
  <2>5. CASE \E q \in Players : Revoke(p, q)
    BY <2>5, RevokeInv
  <2>6. CASE Leave(p)
    BY <2>6, LeaveInv
  <2>7. CASE (\E wanted \in BOOLEAN : SetSharedExperience(p, wanted))
             \/ RecordActivity(p)
    BY <2>7, RequestAndActivityInv
  <2>8. QED
    BY <2>1, <2>2, <2>3, <2>4, <2>5, <2>6, <2>7 DEF ClientStep
<1>2. CASE \E p \in Players : SessionStep(p)
  <2>1. PICK p \in Players : SessionStep(p)
    BY <1>2
  <2>2. QED
    BY <2>1, LoginInv, HydrateInv, LogoutInv DEF SessionStep
<1>3. CASE FlushRead \/ FlushWrite
  BY <1>3, FlushInv
<1>4. CASE Restart
  BY <1>4, RestartInv
<1>5. CASE UNCHANGED vars
  <2>1. /\ online' = online
        /\ party' = party
        /\ session' = session
        /\ storedLeader' = storedLeader
        /\ hydrating' = hydrating
        /\ heartbeat' = heartbeat
        /\ snapshot' = snapshot
        /\ flushes' = flushes
    BY <1>5 DEF vars, flushVars
  <2>2. QED
    BY <2>1 DEF PartyInv, TypeOK, StoredRowsAreFlat
<1>6. QED
  BY <1>1, <1>2, <1>3, <1>4, <1>5 DEF Next

(* The inductive invariant holds in every reachable state. *)
THEOREM PartyInvariant == Spec => []PartyInv
  BY InitPartyInv, NextInv, PTL DEF Spec

(* The types of the Rust maps and of the player_parties rows are kept. *)
THEOREM PartyTypes == Spec => []TypeOK
<1>1. PartyInv => TypeOK
  BY DEF PartyInv
<1>2. QED
  BY <1>1, PartyInvariant, PTL

(* Every member follows a leader that is in the world and follows nobody,  *)
(* pending invitations come from current leaders, requests belong to them  *)
(* and activity to players of the world, whatever invite, accept, leave,   *)
(* transfer, logout and try_hydrate_persisted_party calls were interleaved *)
(* before.                                                                 *)
THEOREM PartyMapsAlwaysAgree == Spec => []PartyMapsAgree
<1>1. PartyInv => MembersFollowLiveLeaders
  BY DEF PartyInv, WellFormed, MembersFollowLiveLeaders
<1>2. PartyInv => InvitationsBackedByLeaders
  BY DEF PartyInv, WellFormed, InvitationsBackedByLeaders
<1>3. PartyInv => RequestsOwnedByLeaders /\ ActivityOfOnlinePlayers
  BY DEF PartyInv, WellFormed, RequestsOwnedByLeaders, ActivityOfOnlinePlayers
<1>4. PartyInv => PartyMapsAgree
  BY <1>1, <1>2, <1>3 DEF PartyMapsAgree
<1>5. QED
  BY <1>4, PartyInvariant, PTL

(* replace_player_parties never refuses what the heartbeat snapshots, so *)
(* flushing the parties never ends the heartbeat thread.                 *)
THEOREM FlushIsAlwaysAccepted == Spec => []FlushNeverKillsHeartbeat
<1>1. PartyInv => FlushNeverKillsHeartbeat
  BY SnapshotIsValid DEF PartyInv, FlushNeverKillsHeartbeat
<1>2. QED
  BY <1>1, PartyInvariant, PTL

(* The rows of player_parties are one level deep at any time, across  *)
(* flushes and restarts, so hydration never meets a chain of leaders. *)
THEOREM StoredRowsAlwaysFlat == Spec => []StoredRowsAreFlat
<1>1. PartyInv => StoredRowsAreFlat
  BY DEF PartyInv
<1>2. QED
  BY <1>1, PartyInvariant, PTL
----------------------------------------------------------------------------
(* Parties stay together *)

(* What PartyStaysTogether says of a step that turns P into Q. *)
Together(P, Q, on) ==
    /\ \A p, q \in Players :
           SameParty(P, p, q) /\ InParty(Q, p) /\ InParty(Q, q) => SameParty(Q, p, q)
    /\ \A i, m, l \in Players :
           ( /\ P.memberOf[m] = l
             /\ InParty(Q, m)
             /\ LeaderOf(Q, m) # l
             /\ l \in P.invitations[i]
             /\ i \in on ) => LeaderOf(Q, m) \in Q.invitations[i]

(* Whoever stays in a party keeps its leader, save that new succeeds old and *)
(* takes over its invitations.                                               *)
Succession(P, Q, on, old, new) ==
    /\ \A p \in Players : InParty(P, p) /\ InParty(Q, p) =>
           LeaderOf(Q, p) = IF LeaderOf(P, p) = old THEN new ELSE LeaderOf(P, p)
    /\ \A i \in Players : i \in on /\ old \in P.invitations[i] => new \in Q.invitations[i]

LEMMA SuccessionTogether ==
    ASSUME NEW P, NEW Q, NEW on, NEW before, WellFormed(P, before),
           NEW old, NEW new, Succession(P, Q, on, old, new)
    PROVE  Together(P, Q, on)
<1>1. ASSUME NEW p \in Players, NEW q \in Players,
             SameParty(P, p, q), InParty(Q, p), InParty(Q, q)
      PROVE  SameParty(Q, p, q)
  <2>1. InParty(P, p) /\ InParty(P, q) /\ LeaderOf(P, p) = LeaderOf(P, q)
    BY <1>1 DEF SameParty, InParty
  <2>2. LeaderOf(Q, p) = LeaderOf(Q, q)
    BY <1>1, <2>1 DEF Succession
  <2>3. QED
    BY <1>1, <2>2 DEF SameParty
<1>2. ASSUME NEW i \in Players, NEW m \in Players, NEW l \in Players,
             P.memberOf[m] = l, InParty(Q, m), LeaderOf(Q, m) # l,
             l \in P.invitations[i], i \in on
      PROVE  LeaderOf(Q, m) \in Q.invitations[i]
  <2>1. l # NoPlayer
    BY PlayersAssumption
  <2>2. LeaderOf(P, m) = l /\ InParty(P, m)
    BY <1>2, <2>1 DEF WellFormed, LeaderOf, InParty
  <2>3. l = old /\ LeaderOf(Q, m) = new
    BY <1>2, <2>2 DEF Succession
  <2>4. QED
    BY <1>2, <2>3 DEF Succession
<1>3. QED
  BY <1>1, <1>2 DEF Together

(* Who was in a party becomes no leader and follows nobody new: then nobody *)
(* succeeds anybody.                                                        *)
LEMMA LeadersKept ==
    ASSUME NEW P, NEW Q, NEW on, NEW before, WellFormed(P, before),
           \A p \in Players : InParty(P, p) =>
               /\ p \in Q.leaders => p \in P.leaders
               /\ Q.memberOf[p] \in {P.memberOf[p], NoPlayer}
    PROVE  Succession(P, Q, on, NoPlayer, NoPlayer)
<1>1. ASSUME NEW p \in Players, InParty(P, p), InParty(Q, p)
      PROVE  LeaderOf(Q, p) = LeaderOf(P, p)
  <2>1. CASE p \in Q.leaders
    BY <1>1, <2>1 DEF LeaderOf
  <2>2. CASE p \notin Q.leaders
    <3>1. Q.memberOf[p] = P.memberOf[p] /\ P.memberOf[p] # NoPlayer
      BY <1>1, <2>2 DEF InParty, LeaderOf
    <3>2. p \notin P.leaders
      BY <3>1 DEF WellFormed
    <3>3. QED
      BY <2>2, <3>1, <3>2 DEF LeaderOf
  <2>3. QED
    BY <2>1, <2>2
<1>2. \A i \in Players : NoPlayer \notin P.invitations[i]
  BY PlayersAssumption DEF WellFormed, PartyState
<1>3. QED
  BY <1>1, <1>2 DEF Succession, InParty

(* A hand-over is a succession, also when the old leader stays as a member. *)
LEMMA HandOverSucceeds ==
    ASSUME NEW P, NEW on, NEW before \in SUBSET Players, WellFormed(P, before),
           NEW leader \in P.leaders, NEW new \in Players, P.memberOf[new] = leader,
           NEW Q, Q.leaders = HandOver(P, leader, new).leaders,
           Q.invitations = HandOver(P, leader, new).invitations,
           \A p \in Players \ {leader} : Q.memberOf[p] = HandOver(P, leader, new).memberOf[p],
           Q.memberOf[leader] \in {new, NoPlayer}
    PROVE  Succession(P, Q, on, leader, new)
<1> DEFINE H == HandOver(P, leader, new)
<1>1. /\ leader \in Players /\ leader # new /\ new \notin P.leaders
      /\ P.memberOf[leader] = NoPlayer /\ leader # NoPlayer /\ new # NoPlayer
  BY PlayersAssumption DEF WellFormed, PartyState
<1>2. /\ H.leaders = (P.leaders \ {leader}) \cup {new}
      /\ H.memberOf = [m \in Players |-> IF m = new THEN NoPlayer
                                         ELSE IF P.memberOf[m] = leader THEN new
                                         ELSE P.memberOf[m]]
      /\ H.invitations = [i \in Players |-> Rename(P.invitations[i], leader, new)]
  BY DEF HandOver, WellFormed, PartyState
<1> HIDE DEF H
<1>3. Q.leaders = (P.leaders \ {leader}) \cup {new}
  BY <1>2 DEF H
<1>4. \A p \in Players \ {leader, new} :
          Q.memberOf[p] = IF P.memberOf[p] = leader THEN new ELSE P.memberOf[p]
  BY <1>2 DEF H
<1>5. ASSUME NEW p \in Players, InParty(P, p), InParty(Q, p)
      PROVE  LeaderOf(Q, p) = IF LeaderOf(P, p) = leader THEN new ELSE LeaderOf(P, p)
  <2>1. CASE p = leader
    <3>1. LeaderOf(P, p) = leader
      BY <2>1 DEF LeaderOf
    <3>2. LeaderOf(Q, p) = new
      BY <1>1, <1>3, <1>5, <2>1 DEF LeaderOf, InParty
    <3>3. QED
      BY <3>1, <3>2
  <2>2. CASE p = new
    <3>1. LeaderOf(P, p) = leader /\ LeaderOf(Q, p) = new
      BY <1>1, <1>3, <2>2 DEF LeaderOf
    <3>2. QED
      BY <3>1
  <2>3. CASE p \notin {leader, new} /\ p \in P.leaders
    BY <1>3, <2>3 DEF LeaderOf
  <2>4. CASE p \notin {leader, new} /\ p \notin P.leaders
    BY <1>3, <1>4, <2>4 DEF LeaderOf
  <2>5. QED
    BY <2>1, <2>2, <2>3, <2>4
<1>6. ASSUME NEW i \in Players, leader \in P.invitations[i]
      PROVE  new \in Q.invitations[i]
  BY <1>2, <1>6 DEF H, Rename
<1>7. QED
  BY <1>5, <1>6 DEF Succession

(* Whoever is left after a player has gone from its party follows the leader *)
(* it had, or the one that succeeded it.                                     *)
LEMMA RemovalSucceeds ==
    ASSUME NEW P, NEW on, NEW before \in SUBSET Players, WellFormed(P, before),
           NEW p \in Players
    PROVE  \E old, new : Succession(P, RemoveFromParty(P, p), on, old, new)
<1> DEFINE R == RemoveFromParty(P, p)
<1>1. CASE p \in P.leaders /\ MembersOf(P, p) # {}
  <2> DEFINE new == Least(MembersOf(P, p))
  <2>1. new \in Players /\ P.memberOf[new] = p
    BY <1>1, LeastMember DEF MembersOf
  <2>2. R = HandOver(P, p, new)
    BY <1>1 DEF RemoveFromParty, RemoveLeader
  <2> HIDE DEF new, R
  <2>3. R.memberOf[p] = NoPlayer
    BY <1>1, <2>1, <2>2, HandOverWellFormed
  <2>4. Succession(P, R, on, p, new)
    BY <1>1, <2>1, <2>2, <2>3, HandOverSucceeds
  <2>5. QED
    BY <2>4 DEF R
<1>2. CASE p \in P.leaders /\ MembersOf(P, p) = {}
  <2>1. R = Disband(P, p)
    BY <1>2 DEF RemoveFromParty, RemoveLeader
  <2>2. /\ R.leaders = P.leaders \ {p}
        /\ \A q \in Players : R.memberOf[q] \in {P.memberOf[q], NoPlayer}
    BY <2>1 DEF Disband, WellFormed, PartyState
  <2> HIDE DEF R
  <2>3. Succession(P, R, on, NoPlayer, NoPlayer)
    BY <2>2, LeadersKept
  <2>4. QED
    BY <2>3 DEF R
<1>3. CASE p \notin P.leaders
  <2>1. /\ R.leaders \subseteq P.leaders
        /\ \A q \in Players : R.memberOf[q] \in {P.memberOf[q], NoPlayer}
    BY <1>3 DEF RemoveFromParty, RemoveMember, DisbandEmpty, WellFormed, PartyState
  <2> HIDE DEF R
  <2>2. Succession(P, R, on, NoPlayer, NoPlayer)
    BY <2>1, LeadersKept
  <2>3. QED
    BY <2>2 DEF R
<1>4. QED
  BY <1>1, <1>2, <1>3

LEMMA LogoutTogether ==
    ASSUME PartyInv, NEW p \in Players, Logout(p)
    PROVE  Together(party, party', online')
<1> DEFINE A == [party EXCEPT !.active = @ \ {p}]
           R == RemoveFromParty(A, p)
<1>1. /\ online \in SUBSET Players /\ WellFormed(party, online)
      /\ online' = online \ {p} /\ party' = DropInvitations(R, p)
  BY DEF PartyInv, TypeOK, Logout, ClearPlayer
<1>2. /\ WellFormed(A, online) /\ A.leaders = party.leaders
      /\ A.memberOf = party.memberOf /\ A.invitations = party.invitations
  BY <1>1 DEF WellFormed, PartyState
<1> HIDE DEF A
<1>3. PICK old, new : Succession(A, R, online, old, new)
  BY <1>1, <1>2, RemovalSucceeds
<1>4. WellFormed(R, online)
  BY <1>1, <1>2, RemoveFromPartyWellFormed
<1> HIDE DEF R
<1>5. /\ party'.leaders \subseteq R.leaders /\ party'.memberOf = R.memberOf
      /\ \A i \in Players : i # p => party'.invitations[i] = R.invitations[i]
  BY <1>1, <1>4 DEF DropInvitations, DisbandEmpty, WellFormed, PartyState
<1>6. ASSUME NEW q \in Players, InParty(party', q)
      PROVE  InParty(R, q) /\ LeaderOf(party', q) = LeaderOf(R, q)
  BY <1>4, <1>5, <1>6, PlayersAssumption DEF InParty, LeaderOf, WellFormed
<1>7. \A q \in Players : /\ InParty(party, q) <=> InParty(A, q)
                         /\ LeaderOf(party, q) = LeaderOf(A, q)
  BY <1>2 DEF InParty, LeaderOf
<1>8. Succession(party, party', online', old, new)
  BY <1>1, <1>2, <1>3, <1>5, <1>6, <1>7 DEF Succession
<1>9. QED
  BY <1>1, <1>8, SuccessionTogether

(* The requests of a client. *)
LEMMA ClientTogether ==
    ASSUME PartyInv, NEW p \in Players, ClientStep(p)
    PROVE  Together(party, party', online')
<1>1. online \in SUBSET Players /\ WellFormed(party, online) /\ party \in PartyState
  BY DEF PartyInv, TypeOK
<1>2. ASSUME \A q \in Players : InParty(party, q) =>
                 /\ q \in party'.leaders => q \in party.leaders
                 /\ party'.memberOf[q] \in {party.memberOf[q], NoPlayer}
      PROVE  Together(party, party', online')
  BY <1>1, <1>2, LeadersKept, SuccessionTogether
<1>3. CASE \E q \in Players : Invite(p, q)
  <2>1. /\ party.memberOf[p] = NoPlayer /\ party'.memberOf = party.memberOf
        /\ party'.leaders = party.leaders \cup {p}
    BY <1>1, <1>3 DEF Invite, PartyState
  <2>2. QED
    BY <1>2, <2>1 DEF InParty, LeaderOf
<1>4. CASE \E q \in Players : Accept(p, q)
  <2>1. PICK q \in Players : Accept(p, q)
    BY <1>4
  <2>2. /\ ~InParty(party, p) /\ party'.leaders \subseteq party.leaders
        /\ party'.memberOf = [party.memberOf EXCEPT ![p] = q]
    BY <1>1, <2>1 DEF Accept, DisbandEmpty, PartyState
  <2>3. \A r \in Players : r # p => party'.memberOf[r] = party.memberOf[r]
    BY <1>1, <2>2 DEF PartyState
  <2>4. QED
    BY <1>2, <2>2, <2>3
<1>5. CASE \E q \in Players : TransferLeadership(p, q)
  <2>1. PICK q \in Players : TransferLeadership(p, q)
    BY <1>5
  <2> DEFINE H == HandOver(party, p, q)
  <2>2. /\ p \in party.leaders /\ party.memberOf[q] = p
        /\ party' = [H EXCEPT !.memberOf[p] = q]
    BY <2>1 DEF TransferLeadership
  <2>3. WellFormed(H, online)
    BY <1>1, <2>2, HandOverWellFormed
  <2> HIDE DEF H
  <2>4. /\ party'.leaders = H.leaders /\ party'.invitations = H.invitations
        /\ party'.memberOf[p] = q
        /\ \A r \in Players \ {p} : party'.memberOf[r] = H.memberOf[r]
    BY <2>2, <2>3 DEF WellFormed, PartyState
  <2>5. Succession(party, party', online', p, q)
    BY <1>1, <2>2, <2>4, HandOverSucceeds DEF H
  <2>6. QED
    BY <1>1, <2>5, SuccessionTogether
<1>6. CASE \E q \in Players : Revoke(p, q)
  <2>1. party'.leaders \subseteq party.leaders /\ party'.memberOf = party.memberOf
    BY <1>1, <1>6 DEF Revoke, DisbandEmpty, PartyState
  <2>2. QED
    BY <1>2, <2>1
<1>7. CASE Leave(p)
  <2>1. party' = RemoveFromParty(party, p)
    BY <1>7 DEF Leave
  <2>2. QED
    BY <1>1, <2>1, RemovalSucceeds, SuccessionTogether
<1>8. CASE (\E wanted \in BOOLEAN : SetSharedExperience(p, wanted)) \/ RecordActivity(p)
  <2>1. party'.leaders = party.leaders /\ party'.memberOf = party.memberOf
    BY <1>1, <1>8 DEF SetSharedExperience, RecordActivity, PartyState
  <2>2. QED
    BY <1>2, <2>1
<1>9. QED
  BY <1>3, <1>4, <1>5, <1>6, <1>7, <1>8 DEF ClientStep

(* A login lets only a player in that is in no party, and a leader start one *)
(* only if it is in none.                                                    *)
LEMMA HydrateTogether ==
    ASSUME PartyInv, NEW p \in Players, HydrateAttach(p) \/ HydrateRestore(p)
    PROVE  Together(party, party', online')
<1> DEFINE l == hydrating[p]
<1>1. WellFormed(party, online) /\ party \in PartyState
  BY DEF PartyInv, TypeOK
<1>2. \/ party' = party
      \/ ~InParty(party, p) /\ party' = [party EXCEPT !.memberOf[p] = l]
      \/ /\ ~InParty(party, p) /\ ~InParty(party, l)
         /\ party' = [party EXCEPT !.memberOf[p] = l, !.leaders = @ \cup {l}]
  BY DEF HydrateAttach, HydrateRestore
<1>3. \/ ~InParty(party, p) \/ party' = party
  BY <1>2
<1>4. \A q \in Players : q # p => party'.memberOf[q] = party.memberOf[q]
  BY <1>1, <1>2 DEF PartyState
<1>5. \A q \in Players : q \in party'.leaders /\ InParty(party, q) => q \in party.leaders
  <2>1. CASE party'.leaders = party.leaders
    BY <2>1
  <2>2. CASE party'.leaders = party.leaders \cup {l} /\ ~InParty(party, l)
    BY <2>2
  <2>3. \/ party'.leaders = party.leaders
        \/ party'.leaders = party.leaders \cup {l} /\ ~InParty(party, l)
    <3> HIDE DEF l
    <3> QED BY <1>1, <1>2 DEF PartyState
  <2> QED
    BY <2>1, <2>2, <2>3
<1>6. Succession(party, party', online', NoPlayer, NoPlayer)
  BY <1>1, <1>3, <1>4, <1>5, LeadersKept
<1>7. QED
  BY <1>1, <1>6, SuccessionTogether

(* Two players of one party that both stay in a party stay in the same one,   *)
(* whatever leave, transfer_party_leadership, remove_player or login hydration *)
(* comes in between, and the pending invitations of a leader pass with the     *)
(* leadership to the successor the members follow.                             *)
THEOREM PartiesStayTogether == Spec => PartyStaysTogether
<1> DEFINE Step == Together(party, party', online')
<1>1. ASSUME PartyInv, [Next]_vars
      PROVE  [Step]_vars
  <2>1. WellFormed(party, online)
    BY <1>1 DEF PartyInv
  <2>2. CASE \E p \in Players : ClientStep(p)
    BY <1>1, <2>2, ClientTogether
  <2>3. CASE \E p \in Players : HydrateAttach(p) \/ HydrateRestore(p)
    BY <1>1, <2>3, HydrateTogether
  <2>4. CASE \E p \in Players : Logout(p)
    BY <1>1, <2>4, LogoutTogether
  <2>5. CASE party' = party
    <3>1. Succession(party, party', online', NoPlayer, NoPlayer)
      BY <2>1, <2>5, LeadersKept
    <3>2. QED
      BY <2>1, <3>1, SuccessionTogether
  <2>6. CASE Restart
    <3>1. party' = NoParties
      BY <2>6 DEF Restart
    <3>2. \A p \in Players : ~InParty(party', p)
      BY <3>1 DEF NoParties, InParty, LeaderOf
    <3>3. QED
      BY <3>2 DEF Together
  <2>7. CASE UNCHANGED vars
    BY <2>7
  <2>8. QED
    BY <1>1, <2>2, <2>3, <2>4, <2>5, <2>6, <2>7
       DEF Next, SessionStep, Register, HydrateReadRow, HydrateFindLeader, HydrateProbe,
           FlushRead, FlushWrite
<1>2. ASSUME [Step]_vars
      PROVE  [/\ \A p, q \in Players :
                     ( /\ SameParty(party, p, q)
                       /\ InParty(party', p)
                       /\ InParty(party', q) ) => SameParty(party', p, q)
              /\ \A i, m, l \in Players :
                     ( /\ party.memberOf[m] = l
                       /\ InParty(party', m)
                       /\ LeaderOf(party', m) # l
                       /\ l \in party.invitations[i]
                       /\ i \in online' ) => LeaderOf(party', m) \in party'.invitations[i]]_vars
  BY <1>2 DEF Together
<1>3. QED
  BY <1>1, <1>2, PartyInvariant, PTL DEF Spec, PartyStaysTogether

=============================================================================
