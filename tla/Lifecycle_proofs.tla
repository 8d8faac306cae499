-------------------------- MODULE Lifecycle_proofs --------------------------
(****************************************************************************)
(* Lifecycle, in three parts.                                               *)
(*                                                                          *)
(* Types and owners: who is in the world and on whose behalf has to be      *)
(* proved together with the types, since a session works on the life of its *)
(* character without asking whether it is there.                            *)
(*                                                                          *)
(* The accounts of deaths and losses: ChargedOncePerDeath is not inductive. *)
(* A death that is not charged yet is owed a loss, and older lives are on   *)
(* their way in the copies of logins, jobs and the heartbeat.  What each of *)
(* them has lost is bounded by the dues, the deaths and the logins that     *)
(* brought an uncharged death back, and what the world has lost by the dues *)
(* without the one still owed.                                              *)
(*                                                                          *)
(* What becomes of a death: in the rows, and at the client.                 *)
(****************************************************************************)
EXTENDS Lifecycle, FiniteSetTheorems, TLAPS

(* Who is in the world, and on whose behalf: what SoleOwner counts. *)
Owned ==
  /\ \A s \in Sessions : phase[s] \in Inside => Owner[s] \in Online
  /\ \A p \in Online : \E s \in Sessions : Owner[s] = p /\ phase[s] \in Inside
  /\ \A s, r \in Sessions :
       phase[s] \in Inside /\ phase[r] \in Inside /\ Owner[s] = Owner[r] => s = r
  /\ \A s \in Sessions : job[s].at # "none" => phase[s] = "playing"

(* The records, one field at a time. *)
LEMMA AliveType ==
  ASSUME NEW health \in 0..Full, NEW lost \in Nat
  PROVE  Alive(health, lost) \in Life
BY DEF Alive, Life

LEMMA LifeFields ==
  ASSUME NEW life \in Life
  PROVE  /\ life.health \in 0..Full /\ life.dead \in BOOLEAN
         /\ life.charged \in BOOLEAN /\ life.lost \in Nat
BY DEF Life

LEMMA NothingType == Alive(0, 0) \in Life /\ NoJob \in Job /\ Rest \in Beat
<1>1. 0 \in 0..Full /\ 0 \in Nat
  BY LifecycleAssumption
<1>2. Alive(0, 0) \in Life
  BY <1>1, AliveType
<1> QED
  BY <1>2 DEF NoJob, Job, Rest, Beat, Parts, Stages, Nobody

LEMMA OneFieldChanged ==
  ASSUME NEW life \in Life, NEW health \in 0..Full, NEW dead \in BOOLEAN,
         NEW charged \in BOOLEAN, NEW lost \in Nat
  PROVE  /\ [life EXCEPT !.health = health] \in Life
         /\ [life EXCEPT !.dead = dead] \in Life
         /\ [life EXCEPT !.charged = charged] \in Life
         /\ [life EXCEPT !.lost = lost] \in Life
BY DEF Life

(* A hit that is survived leaves the rest; a death is a new one, not charged. *)
LEMMA StruckType ==
  ASSUME NEW life \in Life, life.health > 0
  PROVE  /\ Struck(life) \in Life
         /\ Struck(life).lost = life.lost
         /\ life.health > 1 => Struck(life).dead = life.dead /\ Struck(life).charged = life.charged
         /\ life.health <= 1 => Struck(life).dead /\ ~Struck(life).charged
<1>1. CASE life.health > 1
  <2>1. life.health - 1 \in 0..Full
    BY <1>1, LifeFields, LifecycleAssumption
  <2>2. Struck(life) = [life EXCEPT !.health = life.health - 1]
    BY <1>1 DEF Struck, Hurt
  <2>3. /\ Struck(life) \in Life /\ Struck(life).lost = life.lost
        /\ Struck(life).dead = life.dead /\ Struck(life).charged = life.charged
    BY <2>1, <2>2 DEF Life
  <2>4. ~(life.health <= 1)
    BY <1>1, LifeFields
  <2> QED
    BY <2>3, <2>4
<1>2. CASE ~(life.health > 1)
  <2> DEFINE one == [life EXCEPT !.health = 0]
             two == [one EXCEPT !.dead = TRUE]
             three == [two EXCEPT !.charged = FALSE]
  <2>1. 0 \in 0..Full
    BY LifecycleAssumption
  <2>2. one \in Life /\ one.lost = life.lost
    BY <2>1 DEF Life
  <2>3. two \in Life /\ two.lost = life.lost /\ two.dead
    <3> HIDE DEF one
    <3> QED BY <2>2 DEF Life
  <2>4. three \in Life /\ three.lost = life.lost /\ three.dead /\ ~three.charged
    <3> HIDE DEF two
    <3> QED BY <2>3 DEF Life
  <2>5. Struck(life) = three
    BY <1>2 DEF Struck
  <2> QED
    BY <1>2, <2>4, <2>5
<1> QED
  BY <1>1, <1>2

LEMMA ChargedType ==
  ASSUME NEW life \in Life
  PROVE  /\ Charged(life) \in Life
         /\ Charged(life).lost = life.lost + 1
         /\ Charged(life).charged
         /\ Charged(life).dead = life.dead
<1> DEFINE one == [life EXCEPT !.lost = life.lost + 1]
           two == [one EXCEPT !.charged = TRUE]
<1>1. one \in Life /\ one.lost = life.lost + 1 /\ one.dead = life.dead
  BY DEF Life
<1>2. two \in Life /\ two.lost = life.lost + 1 /\ two.charged /\ two.dead = life.dead
  <2> HIDE DEF one
  <2> QED BY <1>1 DEF Life
<1>3. Charged(life) = two
  BY DEF Charged
<1> QED
  BY <1>2, <1>3

LEMMA StoredType ==
  ASSUME NEW row \in Life, NEW life \in Life, NEW part \in Parts
  PROVE  /\ Stored(row, part, life) \in Life
         /\ part # "loss" => Stored(row, part, life).lost = row.lost
         /\ part = "loss" => Stored(row, part, life) = life
BY DEF Stored, Life, Parts

(* Counters, phases and the frames of Goes and Gone. *)
LEMMA SpendType ==
  ASSUME TypeOK, NEW b \in Bounded, NEW bound, Spend(b, bound)
  PROVE  spent' \in [Bounded -> Nat]
BY DEF Spend, TypeOK

LEMMA Bounds == /\ "hits" \in Bounded /\ "heals" \in Bounded
                /\ "kicks" \in Bounded /\ "logins" \in Bounded
BY DEF Bounded

LEMMA PhaseNames == /\ "off" \in Phases /\ "respawn" \in Phases /\ "enter" \in Phases
                    /\ "restore" \in Phases /\ "reread" \in Phases
                    /\ "town" \in Phases /\ "hydrate" \in Phases
                    /\ "baseline" \in Phases /\ "playing" \in Phases
BY DEF Phases

LEMMA OwnerType == \A s \in Sessions : Owner[s] \in Players
BY LifecycleAssumption

LEMMA GoesType ==
  ASSUME TypeOK, NEW s \in Sessions, NEW next \in Phases, Goes(s, next)
  PROVE  /\ phase' \in [Sessions -> Phases]
         /\ phase'[s] = next
         /\ \A r \in Sessions \ {s} : phase'[r] = phase[r]
BY DEF TypeOK, Goes

LEMMA GoneType ==
  ASSUME TypeOK, NEW s \in Sessions, Gone(s)
  PROVE  /\ Online' = Online \ {Owner[s]}
         /\ world' \in [Online' -> Life]
         /\ \A p \in Online' : world'[p] = world[p]
         /\ phase' \in [Sessions -> Phases]
         /\ job' \in [Sessions -> Job]
         /\ observed' \in [Sessions -> BOOLEAN]
         /\ told' \in [Sessions -> Nat]
         /\ copy' = copy /\ rows' = rows
<1>1. /\ Online' = Online \ {Owner[s]}
      /\ world' \in [Online' -> Life]
      /\ \A p \in Online' : world'[p] = world[p]
  BY DEF Gone, Without, Online, TypeOK
<1>2. phase' \in [Sessions -> Phases]
  BY PhaseNames, GoesType DEF Gone
<1> QED
  BY <1>1, <1>2, NothingType DEF Gone, TypeOK

(* A change of one life that stays a life. *)
LEMMA ChangedType ==
  ASSUME TypeOK, NEW p \in Online, NEW life \in Life, world' = [world EXCEPT ![p] = life]
  PROVE  /\ Online' = Online
         /\ world' \in [Online' -> Life]
         /\ world'[p] = life
         /\ \A q \in Online \ {p} : world'[q] = world[q]
BY DEF TypeOK, Online

LEMMA JobType ==
  ASSUME NEW at \in {"none", "swallow", "charge", "read", "write"}, NEW who \in Players,
         NEW part \in Parts, NEW life \in Life
  PROVE  [at |-> at, who |-> who, part |-> part, life |-> life] \in Job
BY DEF Job

LEMMA TypeInit == Init => TypeOK
<1> SUFFICES ASSUME Init PROVE TypeOK
  OBVIOUS
<1>1. 0 \in 0..Full /\ Full \in 0..Full /\ 0 \in Nat
  BY LifecycleAssumption
<1>2. Alive(0, 0) \in Life /\ Alive(Full, 0) \in Life
  BY <1>1, AliveType
<1>3. Online = {} /\ world \in [Online -> Life]
  BY DEF Init, Online
<1> QED
  BY <1>2, <1>3, NothingType, PhaseNames DEF Init, TypeOK, Bounded

(* The actions of logins and sessions. *)
LEMMA LoginTypes ==
  ASSUME TypeOK, Owned, NEW s \in Sessions, ReadRow(s) \/ Login(s)
  PROVE  TypeOK'
<1> USE PhaseNames, OwnerType, NothingType, Bounds
<1>1. CASE ReadRow(s)
  <2>1. spent' \in [Bounded -> Nat]
    BY <1>1, SpendType DEF ReadRow
  <2>2. copy' \in [Sessions -> Life]
    BY <1>1 DEF ReadRow, TypeOK
  <2>3. phase' \in [Sessions -> Phases]
    BY <1>1, GoesType DEF ReadRow
  <2> QED
    BY <1>1, <2>1, <2>2, <2>3 DEF ReadRow, TypeOK, Online
<1>2. CASE RespawnRead(s) \/ RespawnWrite(s) \/ Reread(s)
  <2>1. phase' \in [Sessions -> Phases]
    BY <1>2, GoesType DEF RespawnRead, RespawnWrite, Reread
  <2>2. rows' \in [Players -> Life]
    <3> DEFINE life == Alive(Full, rows[Owner[s]].lost)
    <3>1. life \in Life
      <4>1. rows[Owner[s]] \in Life
        BY DEF TypeOK
      <4>2. Full \in 0..Full
        BY LifecycleAssumption
      <4> QED
        BY <4>1, <4>2, AliveType, LifeFields
    <3>2. rows' = rows \/ rows' = [rows EXCEPT ![Owner[s]] = life]
      BY <1>2 DEF RespawnRead, RespawnWrite, Reread
    <3> HIDE DEF life
    <3> QED
      BY <3>1, <3>2 DEF TypeOK
  <2>3. copy' \in [Sessions -> Life]
    <3>1. \/ copy' = copy \/ copy' = [copy EXCEPT ![s] = Alive(0, 0)]
          \/ copy' = [copy EXCEPT ![s] = rows[Owner[s]]]
      BY <1>2 DEF RespawnRead, RespawnWrite, Reread
    <3>2. rows[Owner[s]] \in Life
      BY DEF TypeOK
    <3> QED
      BY <3>1, <3>2 DEF TypeOK
  <2>4. UNCHANGED <<world, job, observed, told, kicks, beat, deaths, revived, spent>>
    BY <1>2 DEF RespawnRead, RespawnWrite, Reread
  <2> QED
    BY <2>1, <2>2, <2>3, <2>4 DEF TypeOK, Online
<1>3. CASE Register(s)
  <2> DEFINE life == Alive(copy[s].health, copy[s].lost)
  <2>1. life \in Life
    BY AliveType, LifeFields DEF TypeOK
  <2>2. Online' \subseteq Players /\ world' \in [Online' -> Life]
    <3> HIDE DEF life
    <3>1. world' = With(world, Owner[s], life)
      BY <1>3 DEF Register, life
    <3> QED
      BY <3>1, <2>1 DEF With, TypeOK, Online
  <2>3. phase' \in [Sessions -> Phases]
    BY <1>3, GoesType DEF Register
  <2> QED
    BY <1>3, <2>2, <2>3 DEF Register, TypeOK
<1>4. CASE Refused(s)
  BY <1>4, GoesType DEF Refused, TypeOK, Online
<1>5. CASE GetTown(s)
  BY <1>5, GoesType DEF GetTown, TypeOK, Online
<1>6. CASE Hydrate(s)
  <2>1. phase' \in [Sessions -> Phases]
    BY <1>6, GoesType DEF Hydrate
  <2>2. Online' = Online /\ world' \in [Online -> Life]
    <3> DEFINE one == [world EXCEPT ![Owner[s]].dead = copy[s].dead]
               two == [one EXCEPT ![Owner[s]].charged = copy[s].charged]
    <3>1. copy[s].dead \in BOOLEAN /\ copy[s].charged \in BOOLEAN
      BY LifeFields DEF TypeOK
    <3>2. one \in [Online -> Life]
      BY <3>1 DEF TypeOK, Life
    <3>3. two \in [Online -> Life]
      <4> HIDE DEF one
      <4> QED BY <3>1, <3>2 DEF Life
    <3>4. world' = two
      BY <1>6 DEF Hydrate
    <3> QED
      BY <3>3, <3>4 DEF Online
  <2>3. revived' \in [Players -> Nat]
    <3>1. revived' = revived \/ revived' = [revived EXCEPT ![Owner[s]] = revived[Owner[s]] + 1]
      BY <1>6 DEF Hydrate
    <3> QED BY <3>1 DEF TypeOK
  <2> QED
    BY <1>6, <2>1, <2>2, <2>3 DEF Hydrate, TypeOK
<1>7. CASE Baseline(s)
  <2>1. observed' \in [Sessions -> BOOLEAN]
    <3>1. Owner[s] \in Online
      BY <1>7 DEF Baseline, Owned, Inside
    <3>2. world[Owner[s]].dead \in BOOLEAN
      BY <3>1, LifeFields DEF TypeOK
    <3> QED
      BY <1>7, <3>2 DEF Baseline, TypeOK
  <2> QED
    BY <1>7, <2>1, GoesType DEF Baseline, TypeOK, Online
<1> QED
  BY <1>1, <1>2, <1>3, <1>4, <1>5, <1>6, <1>7 DEF Login

LEMMA EndTypes ==
  ASSUME TypeOK, NEW s \in Sessions, Gone(s), kicks' \subseteq kicks,
         UNCHANGED <<beat, deaths, revived, spent>>
  PROVE  TypeOK'
<1>1. Online' \subseteq Players
  BY GoneType DEF TypeOK
<1> QED
  BY <1>1, GoneType DEF TypeOK

LEMMA PlayingInWorld ==
  ASSUME TypeOK, Owned, NEW s \in Sessions
  PROVE  /\ phase[s] = "playing" => Owner[s] \in Online /\ world[Owner[s]] \in Life
         /\ job[s].at # "none" => Owner[s] \in Online
BY DEF Owned, Inside, TypeOK

(* What a session has to store after a hit or a gain. *)
LEMMA StoreType ==
  ASSUME NEW who \in Players, NEW part \in Parts, world'[who] \in Life
  PROVE  /\ Store(who, part) \in Job
         /\ Store(who, part).at = "write" /\ Store(who, part).who = who
         /\ Store(who, part).life = world'[who]
BY DEF Store, Job

LEMMA ChargeJobType ==
  ASSUME NEW who \in Players
  PROVE  /\ [NoJob EXCEPT !.at = "charge", !.who = who] \in Job
         /\ [NoJob EXCEPT !.at = "charge", !.who = who].at = "charge"
<1> DEFINE one == [NoJob EXCEPT !.at = "charge"]
           two == [one EXCEPT !.who = who]
<1>1. one \in Job /\ one.at = "charge"
  BY NothingType DEF Job
<1>2. two \in Job /\ two.at = "charge"
  <2> HIDE DEF one
  <2> QED BY <1>1 DEF Job
<1> QED
  BY <1>2

LEMMA AfterwardsType ==
  ASSUME TypeOK, NEW s \in Sessions, NEW p \in Players, world'[p] \in Life, Afterwards(s, p)
  PROVE  /\ job' \in [Sessions -> Job]
         /\ \A r \in Sessions \ {s} : job'[r] = job[r]
         /\ job'[s].at \in {"charge", "write"}
         /\ job'[s].at = "write" => job'[s].who = p /\ job'[s].life = world'[p]
<1> DEFINE new == IF ~world'[p].dead THEN Store(p, "vitals")
                  ELSE IF Loss THEN [NoJob EXCEPT !.at = "charge", !.who = p]
                  ELSE Store(p, "death")
<1>1. /\ new \in Job /\ new.at \in {"charge", "write"}
      /\ new.at = "write" => new.who = p /\ new.life = world'[p]
  BY StoreType, ChargeJobType DEF Parts
<1>2. job' = [job EXCEPT ![s] = new]
  BY DEF Afterwards
<1> HIDE DEF new
<1> QED
  BY <1>1, <1>2 DEF TypeOK

LEMMA HitType ==
  ASSUME TypeOK, NEW p \in Online, world[p].health > 0, HitPlayer(p)
  PROVE  /\ Online' = Online
         /\ world' \in [Online' -> Life]
         /\ world'[p] = Struck(world[p])
         /\ \A q \in Online \ {p} : world'[q] = world[q]
         /\ deaths' \in [Players -> Nat]
         /\ \A q \in Players : deaths'[q] >= deaths[q]
         /\ Lethal(p) => deaths'[p] = deaths[p] + 1
<1>1. world[p] \in Life /\ p \in Players
  BY DEF TypeOK
<1>2. Struck(world[p]) \in Life
  BY <1>1, StruckType
<1>3. world' = [world EXCEPT ![p] = Struck(world[p])]
  BY DEF HitPlayer
<1>4. /\ Online' = Online
      /\ world' \in [Online' -> Life]
      /\ world'[p] = Struck(world[p])
      /\ \A q \in Online \ {p} : world'[q] = world[q]
  BY <1>2, <1>3, ChangedType
<1>5. /\ deaths' \in [Players -> Nat]
      /\ \A q \in Players : deaths'[q] >= deaths[q]
      /\ Lethal(p) => deaths'[p] = deaths[p] + 1
  <2>1. CASE Lethal(p)
    <3>1. deaths' = [deaths EXCEPT ![p] = deaths[p] + 1]
      BY <2>1 DEF HitPlayer
    <3> QED BY <3>1, <1>1 DEF TypeOK
  <2>2. CASE ~Lethal(p)
    <3>1. deaths' = deaths
      BY <2>2 DEF HitPlayer
    <3> QED BY <2>2, <3>1 DEF TypeOK
  <2> QED BY <2>1, <2>2
<1> QED
  BY <1>4, <1>5

(* What a session does for itself and to others. *)
LEMMA ActTypes ==
  ASSUME TypeOK, Owned, NEW s \in Sessions,
         \/ SufferCondition(s) \/ Regenerate(s) \/ Drink(s)
         \/ \E q \in Players : HitOther(s, q)
  PROVE  TypeOK'
<1> USE PhaseNames, OwnerType, NothingType, Bounds
<1> DEFINE p == Owner[s]
<1>0. p \in Players /\ p \in Online /\ world[p] \in Life
  <2>1. phase[s] = "playing"
    BY DEF SufferCondition, Regenerate, Drink, HitOther, Ready, Playing
  <2> QED
    BY <2>1, PlayingInWorld
<1>s. spent' \in [Bounded -> Nat]
  BY SpendType DEF SufferCondition, Regenerate, Drink, HitOther
<1> HIDE DEF p
<1>1. CASE SufferCondition(s)
  <2>1. HitPlayer(p) /\ world[p].health > 0 /\ Afterwards(s, p)
    BY <1>1 DEF SufferCondition, p
  <2>2. /\ Online' = Online /\ world' \in [Online' -> Life]
        /\ deaths' \in [Players -> Nat]
    BY <1>0, <2>1, HitType
  <2>3. job' \in [Sessions -> Job]
    BY <1>0, <2>1, <2>2, AfterwardsType
  <2> QED
    BY <1>1, <1>s, <2>2, <2>3 DEF SufferCondition, TypeOK
<1>2. CASE Regenerate(s)
  <2> DEFINE life == [world[p] EXCEPT !.health = world[p].health + 1]
  <2>1. world[p].health + 1 \in 0..Full
    BY <1>0, <1>2, LifeFields, LifecycleAssumption DEF Regenerate, p
  <2>2. life \in Life
    BY <1>0, <2>1, OneFieldChanged, LifeFields
  <2>3. world' = [world EXCEPT ![p] = life]
    BY <1>2 DEF Regenerate, p
  <2> HIDE DEF life
  <2>4. Online' = Online /\ world' \in [Online' -> Life] /\ world'[p] \in Life
    BY <1>0, <2>2, <2>3, ChangedType
  <2>5. Store(p, "vitals") \in Job
    BY <1>0, <2>4, StoreType DEF Parts
  <2>6. job' \in [Sessions -> Job]
    BY <1>2, <2>5 DEF Regenerate, TypeOK, p
  <2> QED
    BY <1>2, <1>s, <2>4, <2>6 DEF Regenerate, TypeOK
<1>3. CASE Drink(s)
  <2> DEFINE health == Topped(world[p].health)
             life == [world[p] EXCEPT !.health = health]
             new == [at |-> "swallow", who |-> p, part |-> "vitals", life |-> life]
  <2>1. health \in 0..Full
    BY <1>0, LifeFields, LifecycleAssumption DEF Topped
  <2>2. life \in Life
    <3> HIDE DEF health
    <3> QED BY <1>0, <2>1, OneFieldChanged, LifeFields
  <2>3. new \in Job
    <3> HIDE DEF life
    <3> QED BY <1>0, <2>2, JobType DEF Parts
  <2>4. job' = [job EXCEPT ![s] = new]
    BY <1>3 DEF Drink, p
  <2>5. job' \in [Sessions -> Job]
    <3> HIDE DEF new
    <3> QED BY <2>3, <2>4 DEF TypeOK
  <2> QED
    BY <1>3, <1>s, <2>5 DEF Drink, TypeOK, Online
<1>4. ASSUME NEW q \in Players, HitOther(s, q) PROVE TypeOK'
  <2>0. q \in Online /\ world[q] \in Life /\ world[q].health > 0
    BY <1>4 DEF HitOther, TypeOK
  <2> DEFINE life == IF world[q].dead THEN Hurt(world[q]) ELSE Struck(world[q])
             new == IF ~Lethal(q) THEN Store(q, "vitals")
                    ELSE IF Loss THEN [NoJob EXCEPT !.at = "charge", !.who = q]
                    ELSE Store(q, "death")
  <2>1. life \in Life
    <3>1. world[q].health - 1 \in 0..Full
      BY <2>0, LifeFields, LifecycleAssumption
    <3>2. Hurt(world[q]) \in Life
      BY <2>0, <3>1, OneFieldChanged, LifeFields DEF Hurt
    <3> QED BY <2>0, <3>2, StruckType
  <2>2. world' = [world EXCEPT ![q] = life]
    BY <1>4 DEF HitOther
  <2>3. Online' = Online /\ world' \in [Online' -> Life] /\ world'[q] \in Life
    <3> HIDE DEF life
    <3> QED BY <2>0, <2>1, <2>2, ChangedType
  <2>4. new \in Job
    BY <2>3, StoreType, ChargeJobType DEF Parts
  <2>5. job' = [job EXCEPT ![s] = new]
    BY <1>4 DEF HitOther
  <2>6. job' \in [Sessions -> Job]
    <3> HIDE DEF new
    <3> QED BY <2>4, <2>5 DEF TypeOK
  <2>7. deaths' \in [Players -> Nat]
    <3>1. deaths' = deaths \/ deaths' = [deaths EXCEPT ![q] = deaths[q] + 1]
      BY <1>4 DEF HitOther
    <3> QED BY <3>1 DEF TypeOK
  <2> QED
    BY <1>4, <1>s, <2>3, <2>6, <2>7 DEF HitOther, TypeOK
<1> QED
  BY <1>1, <1>2, <1>3, <1>4

LEMMA JobFields ==
  ASSUME NEW j \in Job
  PROVE  /\ j.part \in Parts /\ j.life \in Life /\ j.who \in Players \cup {Nobody}
         /\ [j EXCEPT !.at = "read"] \in Job /\ [j EXCEPT !.at = "write"] \in Job
BY DEF Job

(* What a session owes: its jobs, its death, a kick. *)
LEMMA ObligationTypes ==
  ASSUME TypeOK, Owned, NEW s \in Sessions, End(s) \/ Obligations(s)
  PROVE  TypeOK'
<1> USE PhaseNames, OwnerType, NothingType
<1>1. CASE End(s)
  BY <1>1, EndTypes DEF End
<1>2. CASE ObserveDeath(s)
  BY <1>2 DEF ObserveDeath, TypeOK, Online
<1>3. CASE ObeyKick(s)
  BY <1>3, EndTypes DEF ObeyKick
<1>4. CASE Swallow(s)
  <2> DEFINE p == Owner[s]
             life == [world[p] EXCEPT !.health = job[s].life.health]
  <2>1. p \in Online /\ world[p] \in Life
    BY <1>4, PlayingInWorld DEF Swallow, TypeOK
  <2>2. job[s] \in Job /\ job[s].life \in Life
    BY JobFields DEF TypeOK
  <2>3. life \in Life
    BY <2>1, <2>2, OneFieldChanged, LifeFields
  <2>4. world' = [world EXCEPT ![p] = life]
    BY <1>4 DEF Swallow
  <2>5. Online' = Online /\ world' \in [Online' -> Life]
    <3> HIDE DEF life
    <3> QED BY <2>1, <2>3, <2>4, ChangedType
  <2>6. job' \in [Sessions -> Job]
    <3>1. [job[s] EXCEPT !.at = "write"] \in Job
      BY <2>2, JobFields
    <3>2. job' = [job EXCEPT ![s] = [job[s] EXCEPT !.at = "write"]]
      BY <1>4 DEF Swallow
    <3> QED BY <3>1, <3>2 DEF TypeOK
  <2> QED
    BY <1>4, <2>5, <2>6 DEF Swallow, TypeOK
<1>5. CASE ChargeDeath(s)
  <2> DEFINE p == job[s].who
             life == Charged(world[p])
  <2>1. p \in Online /\ world[p] \in Life
    BY <1>5 DEF ChargeDeath, Chargeable, TypeOK
  <2>3. life \in Life
    BY <2>1, ChargedType
  <2>4. world' = [world EXCEPT ![p] = life]
    BY <1>5 DEF ChargeDeath
  <2>5. Online' = Online /\ world' \in [Online' -> Life]
    <3> HIDE DEF life
    <3> QED BY <2>1, <2>3, <2>4, ChangedType
  <2>6. job' \in [Sessions -> Job]
    <3>1. [job[s] EXCEPT !.at = "read"] \in Job
      BY JobFields DEF TypeOK
    <3>2. job' = [job EXCEPT ![s] = [job[s] EXCEPT !.at = "read"]]
      BY <1>5 DEF ChargeDeath
    <3> QED BY <3>1, <3>2 DEF TypeOK
  <2> QED
    BY <1>5, <2>5, <2>6 DEF ChargeDeath, TypeOK
<1>6. CASE ChargeFails(s)
  BY <1>6, EndTypes DEF ChargeFails
<1>7. CASE ReadLoss(s)
  <2> DEFINE new == [at |-> "write", who |-> job[s].who, part |-> "loss",
                     life |-> world[job[s].who]]
  <2>1. job[s].who \in Players /\ world[job[s].who] \in Life
    BY <1>7 DEF ReadLoss, LossStorable, TypeOK
  <2>2. new \in Job
    BY <2>1, JobType DEF Parts
  <2>3. job' = [job EXCEPT ![s] = new]
    BY <1>7 DEF ReadLoss
  <2>4. job' \in [Sessions -> Job]
    <3> HIDE DEF new
    <3> QED BY <2>2, <2>3 DEF TypeOK
  <2> QED
    BY <1>7, <2>4 DEF ReadLoss, TypeOK, Online
<1>8. CASE WriteRow(s)
  <2> DEFINE p == job[s].who
             row == Stored(rows[p], job[s].part, job[s].life)
  <2>1. rows' = [rows EXCEPT ![p] = row]
    BY <1>8 DEF WriteRow
  <2>2. p \in Players => row \in Life
    BY JobFields, StoredType DEF TypeOK
  <2>3. rows' \in [Players -> Life]
    <3> HIDE DEF row
    <3> QED BY <2>1, <2>2 DEF TypeOK
  <2>4. observed' \in [Sessions -> BOOLEAN] /\ told' \in [Sessions -> Nat]
    <3> DEFINE died == job[s].part # "vitals" /\ job[s].who = Owner[s]
    <3>1. observed' = [observed EXCEPT ![s] = observed[s] \/ died]
      BY <1>8 DEF WriteRow, TellDeath
    <3>2. told' = [told EXCEPT ![s] = IF died THEN told[s] + 1 ELSE told[s]]
      BY <1>8 DEF WriteRow, TellDeath
    <3>3. died \in BOOLEAN
      OBVIOUS
    <3> HIDE DEF died
    <3> QED BY <3>1, <3>2, <3>3 DEF TypeOK
  <2>5. job' \in [Sessions -> Job]
    BY <1>8 DEF WriteRow, TypeOK
  <2> QED
    BY <1>8, <2>3, <2>4, <2>5 DEF WriteRow, TypeOK, Online
<1> QED
  BY <1>1, <1>2, <1>3, <1>4, <1>5, <1>6, <1>7, <1>8 DEF Obligations

LEMMA OperatorTypes ==
  ASSUME TypeOK, NEW p \in Players, Kick(p) \/ Heal(p)
  PROVE  TypeOK'
<1>1. CASE Kick(p)
  BY <1>1, SpendType, Bounds DEF Kick, TypeOK, Online, threads
<1>2. CASE Heal(p)
  <2> DEFINE life == [world[p] EXCEPT !.health = Full]
  <2>1. p \in Online /\ world[p] \in Life
    BY <1>2 DEF Heal, TypeOK
  <2>2. life \in Life
    <3>1. Full \in 0..Full
      BY LifecycleAssumption
    <3> QED BY <2>1, <3>1 DEF Life
  <2>3. world' = [world EXCEPT ![p] = life]
    BY <1>2 DEF Heal
  <2>4. Online' = Online /\ world' \in [Online' -> Life]
    <3> HIDE DEF life
    <3> QED BY <2>1, <2>2, <2>3, ChangedType
  <2> QED
    BY <1>2, <2>4, SpendType, Bounds DEF Heal, TypeOK, threads
<1> QED
  BY <1>1, <1>2

(* The heartbeat thread, one field of its state at a time. *)
LEMMA BeatFields ==
  ASSUME NEW b \in Beat, NEW at \in Stages, NEW todo \in SUBSET Players,
         NEW hit \in SUBSET Players, NEW part \in Parts, NEW life \in Life
  PROVE  /\ [b EXCEPT !.at = at] \in Beat /\ [b EXCEPT !.todo = todo] \in Beat
         /\ [b EXCEPT !.hit = hit] \in Beat /\ [b EXCEPT !.part = part] \in Beat
         /\ [b EXCEPT !.life = life] \in Beat
         /\ b.todo \in SUBSET Players /\ b.hit \in SUBSET Players
         /\ b.part \in Parts /\ b.life \in Life
BY DEF Beat

LEMMA StageNames ==
  /\ "attack" \in Stages /\ "check" \in Stages /\ "charge" \in Stages /\ "read" \in Stages
  /\ "vitals" \in Stages /\ "state" \in Stages /\ "write" \in Stages
  /\ "conditions" \in Stages /\ "saveread" \in Stages /\ "savewrite" \in Stages
  /\ "failed" \in Stages
BY DEF Stages

LEMMA StrikeTypes ==
  ASSUME TypeOK, NEW hit \in SUBSET Players, CreaturesStrike(hit)
  PROVE  /\ Online' = Online
         /\ world' \in [Online' -> Life]
         /\ deaths' \in [Players -> Nat]
<1>1. \A p \in hit : p \in Online /\ world[p] \in Life /\ world[p].health > 0
  BY DEF CreaturesStrike, Killable, TypeOK
<1>2. \A p \in hit : Struck(world[p]) \in Life
  BY <1>1, StruckType
<1>3. world' = [p \in Online |-> IF p \in hit THEN Struck(world[p]) ELSE world[p]]
  BY DEF CreaturesStrike
<1>4. Online' = Online /\ world' \in [Online' -> Life]
  BY <1>2, <1>3 DEF TypeOK, Online
<1>5. deaths' \in [Players -> Nat]
  BY DEF CreaturesStrike, TypeOK
<1> QED
  BY <1>4, <1>5

LEMMA DoneType ==
  ASSUME TypeOK, NEW again \in Stages, NEW after \in Stages, Done(again, after)
  PROVE  beat' \in Beat
<1> DEFINE left == beat.todo \ {Next1}
           at == IF left = {} THEN after ELSE again
           one == [Rest EXCEPT !.at = at]
           two == [one EXCEPT !.todo = left]
           three == [two EXCEPT !.hit = beat.hit]
<1>1. left \in SUBSET Players /\ beat.hit \in SUBSET Players /\ at \in Stages
  BY DEF TypeOK, Beat
<1>2. beat' = three
  BY DEF Done
<1> HIDE DEF left, at
<1>3. one \in Beat
  BY <1>1, NothingType DEF Beat
<1>4. two \in Beat
  <2> HIDE DEF one
  <2> QED BY <1>1, <1>3 DEF Beat
<1>5. three \in Beat
  <2> HIDE DEF two
  <2> QED BY <1>1, <1>4 DEF Beat
<1> QED
  BY <1>2, <1>5

(* A change of one life by the heartbeat. *)
LEMMA StageTypes ==
  ASSUME TypeOK, UNCHANGED <<rows, threads, kicks, revived>>,
         Online' = Online, world' \in [Online' -> Life], deaths' \in [Players -> Nat],
         spent' \in [Bounded -> Nat], beat' \in Beat
  PROVE  TypeOK'
BY DEF TypeOK, threads

LEMMA HeartbeatTypes ==
  ASSUME TypeOK, Heartbeat
  PROVE  TypeOK'
<1> USE StageNames, NothingType, Bounds
<1>b. beat \in Beat
  BY DEF TypeOK
<1>o. ASSUME UNCHANGED world PROVE Online' = Online /\ world' \in [Online' -> Life]
  BY <1>o DEF Online, TypeOK
<1>u. UNCHANGED <<deaths, spent>> => deaths' \in [Players -> Nat] /\ spent' \in [Bounded -> Nat]
  BY DEF TypeOK
<1>1. ASSUME NEW hit \in SUBSET Players, CreaturesHit(hit) PROVE TypeOK'
  <2> DEFINE one == [beat EXCEPT !.at = "check"]
             two == [one EXCEPT !.todo = hit]
             three == [two EXCEPT !.hit = hit]
  <2>1. beat' = three
    BY <1>1 DEF CreaturesHit
  <2>2. one \in Beat
    BY <1>b DEF Beat
  <2>3. two \in Beat
    <3> HIDE DEF one
    <3> QED BY <2>2 DEF Beat
  <2>4. three \in Beat
    <3> HIDE DEF two
    <3> QED BY <2>3 DEF Beat
  <2>5. spent' \in [Bounded -> Nat]
    BY <1>1, SpendType DEF CreaturesHit
  <2> HIDE DEF three
  <2> QED
    BY <1>1, <2>1, <2>4, <2>5, StrikeTypes, StageTypes DEF CreaturesHit
<1>2. ASSUME NEW hit \in SUBSET Players, NEW p \in Players, CreaturesFail(hit, p) PROVE TypeOK'
  <2>1. [Rest EXCEPT !.at = "failed"] \in Beat
    BY DEF Beat
  <2>2. spent' \in [Bounded -> Nat]
    BY <1>2, SpendType DEF CreaturesFail
  <2> QED
    BY <1>2, <2>1, <2>2, StrikeTypes, StageTypes DEF CreaturesFail
<1>3. CASE CheckDeath
  <2> DEFINE stage == IF Loss /\ world[Next1].dead THEN "charge" ELSE "vitals"
  <2>1. stage \in Stages /\ beat' = [beat EXCEPT !.at = stage]
    BY <1>3 DEF CheckDeath, Goto
  <2> HIDE DEF stage
  <2>2. beat' \in Beat
    BY <1>b, <2>1 DEF Beat
  <2> QED
    BY <1>3, <1>o, <1>u, <2>2, StageTypes DEF CheckDeath
<1>4. CASE HeartbeatCharges
  <2>1. Next1 \in Online /\ world[Next1] \in Life
    BY <1>4 DEF HeartbeatCharges, Chargeable, TypeOK
  <2>2. Charged(world[Next1]) \in Life
    BY <2>1, ChargedType
  <2>3. world' = [world EXCEPT ![Next1] = Charged(world[Next1])]
    BY <1>4 DEF HeartbeatCharges
  <2>4. Online' = Online /\ world' \in [Online' -> Life]
    BY <2>1, <2>2, <2>3, ChangedType
  <2>5. beat' \in Beat
    BY <1>4, <1>b DEF HeartbeatCharges, Goto, Beat
  <2> QED
    BY <1>4, <1>u, <2>4, <2>5, StageTypes DEF HeartbeatCharges, TypeOK
<1>5. CASE HeartbeatReads
  <2> DEFINE life == world[Next1]
             one == [beat EXCEPT !.at = "write"]
             two == [one EXCEPT !.part = "loss"]
             three == [two EXCEPT !.life = life]
  <2>1. life \in Life
    BY <1>5 DEF HeartbeatReads, LossStorable, TypeOK
  <2>2. beat' = three
    BY <1>5 DEF HeartbeatReads
  <2>3. one \in Beat
    BY <1>b DEF Beat
  <2>4. two \in Beat
    <3> HIDE DEF one
    <3> QED BY <2>3 DEF Beat, Parts
  <2>5. three \in Beat
    <3> HIDE DEF two, life
    <3> QED BY <2>1, <2>4 DEF Beat
  <2> HIDE DEF three
  <2> QED
    BY <1>5, <1>o, <1>u, <2>2, <2>5, StageTypes DEF HeartbeatReads
<1>6. CASE ReadVitals
  <2> DEFINE health == world[Next1].health
             life == [beat.life EXCEPT !.health = health]
             one == [beat EXCEPT !.at = "state"]
             two == [one EXCEPT !.life = life]
  <2>1. health \in 0..Full
    BY <1>6, LifeFields DEF ReadVitals, TypeOK
  <2>2. life \in Life
    <3> HIDE DEF health
    <3> QED BY <1>b, <2>1 DEF Beat, Life
  <2>3. one \in Beat /\ one.life = beat.life
    BY <1>b DEF Beat
  <2>4. beat' = two
    BY <1>6, <1>b DEF ReadVitals, Beat
  <2>5. two \in Beat
    <3> HIDE DEF one, life
    <3> QED BY <2>2, <2>3 DEF Beat
  <2> HIDE DEF two
  <2> QED
    BY <1>6, <1>o, <1>u, <2>4, <2>5, StageTypes DEF ReadVitals
<1>7. CASE ReadState
  <2> DEFINE now == world[Next1]
             part == IF now.dead THEN "death" ELSE "vitals"
             one == [beat EXCEPT !.at = "write"]
             two == [one EXCEPT !.part = part]
             first == [beat.life EXCEPT !.dead = now.dead]
             life == [first EXCEPT !.charged = now.charged]
             three == [two EXCEPT !.life = life]
  <2>1. now.dead \in BOOLEAN /\ now.charged \in BOOLEAN /\ part \in Parts
    BY <1>7, LifeFields DEF ReadState, TypeOK, Parts
  <2>2. beat.life \in Life
    BY <1>b DEF Beat
  <2>3. first \in Life
    <3> HIDE DEF now
    <3> QED BY <2>1, <2>2 DEF Life
  <2>4. life \in Life
    <3> HIDE DEF now, first
    <3> QED BY <2>1, <2>3 DEF Life
  <2>5. one \in Beat
    BY <1>b DEF Beat
  <2>6. two \in Beat
    <3> HIDE DEF one, part
    <3> QED BY <2>1, <2>5 DEF Beat
  <2>7. three \in Beat
    <3> HIDE DEF two, life
    <3> QED BY <2>4, <2>6 DEF Beat
  <2>8. beat' = three
    BY <1>7, <1>b DEF ReadState, Beat
  <2> HIDE DEF three
  <2> QED
    BY <1>7, <1>o, <1>u, <2>7, <2>8, StageTypes DEF ReadState
<1>8. CASE HeartbeatWrites \/ SaveWrites
  <2> DEFINE part == IF HeartbeatWrites THEN beat.part ELSE "vitals"
  <2>1. part \in Parts /\ beat.life \in Life
    BY <1>b DEF Beat, Parts
  <2>2. rows' = [rows EXCEPT ![Next1] = Stored(rows[Next1], part, beat.life)]
    BY <1>8 DEF HeartbeatWrites, SaveWrites
  <2>3. Next1 \in Players => Stored(rows[Next1], part, beat.life) \in Life
    BY <2>1, StoredType DEF TypeOK
  <2>4. rows' \in [Players -> Life]
    BY <2>2, <2>3 DEF TypeOK
  <2>5. beat' \in Beat
    BY <1>8, DoneType DEF HeartbeatWrites, SaveWrites
  <2> QED
    BY <1>8, <1>o, <1>u, <2>4, <2>5 DEF HeartbeatWrites, SaveWrites, TypeOK, threads
<1>9. CASE StoreConditions \/ HeartbeatFails
  <2>1. beat' \in Beat
    <3>1. [Rest EXCEPT !.at = "failed"] \in Beat
      BY DEF Beat
    <3> QED BY <1>9, <3>1 DEF StoreConditions, HeartbeatFails
  <2> QED
    BY <1>9, <1>o, <1>u, <2>1, StageTypes DEF StoreConditions, HeartbeatFails
<1>10. CASE AutosaveDue
  <2> DEFINE one == [Rest EXCEPT !.at = "saveread"]
             two == [one EXCEPT !.todo = SavedPlayers]
  <2>1. beat' = two
    BY <1>10 DEF AutosaveDue
  <2>2. one \in Beat
    BY DEF Beat
  <2>3. SavedPlayers \in SUBSET Players
    BY DEF SavedPlayers, TypeOK
  <2>4. two \in Beat
    <3> HIDE DEF one
    <3> QED BY <2>2, <2>3 DEF Beat
  <2> HIDE DEF two
  <2> QED
    BY <1>10, <1>o, <1>u, <2>1, <2>4, StageTypes DEF AutosaveDue
<1>11. CASE SaveReads
  <2> DEFINE life == world[Next1]
             one == [beat EXCEPT !.at = "savewrite"]
             two == [one EXCEPT !.life = life]
  <2>1. life \in Life
    BY <1>11 DEF SaveReads, TypeOK
  <2>2. beat' = two
    BY <1>11 DEF SaveReads
  <2>3. one \in Beat
    BY <1>b DEF Beat
  <2>4. two \in Beat
    <3> HIDE DEF one, life
    <3> QED BY <2>1, <2>3 DEF Beat
  <2> HIDE DEF two
  <2> QED
    BY <1>11, <1>o, <1>u, <2>2, <2>4, StageTypes DEF SaveReads
<1> QED
  BY <1>1, <1>2, <1>3, <1>4, <1>5, <1>6, <1>7, <1>8, <1>9, <1>10, <1>11 DEF Heartbeat, Persist

LEMMA TypeStep == TypeOK /\ Owned /\ [Next]_vars => TypeOK'
<1> SUFFICES ASSUME TypeOK, Owned, [Next]_vars PROVE TypeOK'
  OBVIOUS
<1>1. ASSUME NEW s \in Sessions, Session(s) PROVE TypeOK'
  BY <1>1, LoginTypes, ObligationTypes, ActTypes DEF Session
<1>2. ASSUME NEW p \in Players, Kick(p) \/ Heal(p) PROVE TypeOK'
  BY <1>2, OperatorTypes
<1>3. CASE Heartbeat
  BY <1>3, HeartbeatTypes
<1>4. CASE UNCHANGED vars
  BY <1>4 DEF vars, threads, TypeOK, Online
<1> QED
  BY <1>1, <1>2, <1>3, <1>4 DEF Next

LEMMA OwnedInit == Init => Owned
BY DEF Init, Owned, Inside, Online, NoJob

(* Steps that neither move a session in or out nor give it its first job. *)
LEMMA OwnedStays ==
  ASSUME TypeOK, Owned, Online' = Online, phase' = phase,
         \A s \in Sessions : job'[s].at # "none" => phase[s] = "playing"
  PROVE  Owned'
BY DEF Owned

(* Steps of a login that stay on their side of the registration. *)
LEMMA OwnedGoes ==
  ASSUME TypeOK, Owned, Online' = Online, job' = job, NEW s \in Sessions, NEW next \in Phases,
         Goes(s, next), phase[s] # "playing", next \in Inside <=> phase[s] \in Inside
  PROVE  Owned'
<1>1. /\ phase'[s] = next
      /\ \A r \in Sessions \ {s} : phase'[r] = phase[r]
  BY GoesType
<1>2. \A r \in Sessions : phase'[r] \in Inside <=> phase[r] \in Inside
  BY <1>1
<1> HIDE DEF Inside
<1> QED
  BY <1>1, <1>2 DEF Owned

LEMMA OwnedGone ==
  ASSUME TypeOK, Owned, NEW s \in Sessions, phase[s] \in Inside, Gone(s)
  PROVE  Owned'
<1>1. Online' = Online \ {Owner[s]}
  BY GoneType
<1>2. "off" \notin Inside
  BY DEF Inside
<1>3. /\ phase'[s] = "off"
      /\ \A r \in Sessions \ {s} : phase'[r] = phase[r]
  BY PhaseNames, GoesType DEF Gone
<1>4. /\ job'[s].at = "none"
      /\ \A r \in Sessions \ {s} : job'[r] = job[r]
  BY DEF Gone, TypeOK, NoJob
<1> QED
  BY <1>1, <1>2, <1>3, <1>4 DEF Owned

LEMMA OwnedStep == TypeOK /\ Owned /\ [Next]_vars => Owned'
<1> SUFFICES ASSUME TypeOK, Owned, [Next]_vars PROVE Owned'
  OBVIOUS
<1> USE PhaseNames
<1>o. /\ "town" \in Inside /\ "hydrate" \in Inside /\ "baseline" \in Inside
      /\ "playing" \in Inside /\ "off" \notin Inside /\ "respawn" \notin Inside
      /\ "enter" \notin Inside /\ "restore" \notin Inside /\ "reread" \notin Inside
  BY DEF Inside
<1>w. world' = world => Online' = Online
  BY DEF Online
<1>j. \A s \in Sessions : job[s].at # "none" => phase[s] = "playing"
  BY DEF Owned
<1>1. ASSUME NEW s \in Sessions, ReadRow(s) \/ Login(s) PROVE Owned'
  <2>1. CASE ReadRow(s)
    <3> DEFINE next == IF copy'[s].dead THEN "respawn" ELSE "enter"
    <3>1. next \in Phases /\ next \notin Inside /\ Goes(s, next)
      BY <1>o, <2>1 DEF ReadRow
    <3> HIDE DEF next
    <3> QED BY <1>o, <1>w, <2>1, <3>1, OwnedGoes DEF ReadRow
  <2>2. CASE RespawnRead(s) \/ RespawnWrite(s) \/ Reread(s)
    <3>1. PICK next \in {"off", "restore", "reread", "enter"} : Goes(s, next)
      BY <2>2 DEF RespawnRead, RespawnWrite, Reread
    <3>2. next \in Phases /\ next \notin Inside
      BY <1>o
    <3>3. phase[s] # "playing" /\ phase[s] \notin Inside /\ world' = world /\ job' = job
      BY <1>o, <2>2 DEF RespawnRead, RespawnWrite, Reread
    <3> QED BY <1>w, <3>1, <3>2, <3>3, OwnedGoes
  <2>3. CASE Register(s)
    <3>1. Online' = Online \cup {Owner[s]} /\ Owner[s] \notin Online
      BY <2>3 DEF Register, With, Online
    <3>2. /\ phase'[s] = "town"
          /\ \A r \in Sessions \ {s} : phase'[r] = phase[r]
      BY <2>3, GoesType DEF Register
    <3>3. phase[s] = "enter" /\ job' = job
      BY <2>3 DEF Register
    <3> QED BY <1>o, <3>1, <3>2, <3>3 DEF Owned
  <2>4. CASE Refused(s)
    BY <1>o, <1>w, <2>4, OwnedGoes DEF Refused
  <2>5. CASE GetTown(s)
    BY <1>o, <1>w, <2>5, OwnedGoes DEF GetTown
  <2>6. CASE Hydrate(s)
    <3>1. Online' = Online
      BY <2>6 DEF Hydrate, Online, TypeOK
    <3> QED BY <1>o, <2>6, <3>1, OwnedGoes DEF Hydrate
  <2>7. CASE Baseline(s)
    BY <1>o, <1>w, <2>7, OwnedGoes DEF Baseline
  <2> QED BY <1>1, <2>1, <2>2, <2>3, <2>4, <2>5, <2>6, <2>7 DEF Login
<1>2. ASSUME NEW s \in Sessions, End(s) \/ ObeyKick(s) \/ ChargeFails(s) PROVE Owned'
  <2>1. phase[s] \in Inside
    BY <1>2, <1>j, <1>o DEF End, ObeyKick, Ready, Playing, ChargeFails
  <2> QED BY <1>2, <2>1, OwnedGone DEF End, ObeyKick, ChargeFails
<1>3. ASSUME NEW s \in Sessions, ObserveDeath(s) PROVE Owned'
  BY <1>3, <1>j, <1>w, OwnedStays DEF ObserveDeath
<1>4. ASSUME NEW s \in Sessions,
             \/ Swallow(s) \/ ChargeDeath(s) \/ ReadLoss(s) \/ WriteRow(s)
             \/ SufferCondition(s) \/ Regenerate(s) \/ Drink(s)
             \/ \E q \in Players : HitOther(s, q)
      PROVE  Owned'
  <2>1. phase' = phase
    BY <1>4 DEF Swallow, ChargeDeath, ReadLoss, WriteRow, SufferCondition, Regenerate,
                Drink, HitOther
  <2>2. phase[s] = "playing"
    BY <1>4, <1>j DEF Swallow, ChargeDeath, ReadLoss, WriteRow, SufferCondition, Regenerate,
                Drink, HitOther, Ready, Playing
  <2>3. \A r \in Sessions \ {s} : job'[r] = job[r]
    <3>1. \E new : job' = [job EXCEPT ![s] = new]
      BY <1>4 DEF Swallow, ChargeDeath, ReadLoss, WriteRow, SufferCondition, Regenerate,
                  Drink, HitOther, Afterwards
    <3> QED BY <3>1 DEF TypeOK
  <2>4. Online' = Online
    <3>1. world' = world \/ \E p \in Players : \E new : world' = [world EXCEPT ![p] = new]
      BY <1>4, OwnerType DEF Swallow, ChargeDeath, ReadLoss, WriteRow, SufferCondition,
                  Regenerate, Drink, HitOther, HitPlayer, Chargeable, TypeOK
    <3> QED BY <1>w, <3>1 DEF Online, TypeOK
  <2> QED BY <1>j, <2>1, <2>2, <2>3, <2>4, OwnedStays
<1>5. ASSUME NEW p \in Players, Kick(p) \/ Heal(p) PROVE Owned'
  <2>1. phase' = phase /\ job' = job
    BY <1>5 DEF Kick, Heal, threads
  <2>2. Online' = Online
    BY <1>5 DEF Kick, Heal, Online, TypeOK
  <2> QED BY <1>j, <2>1, <2>2, OwnedStays
<1>6. CASE Heartbeat
  <2>1. phase' = phase /\ job' = job
    BY <1>6 DEF Heartbeat, Persist, CreaturesHit, CreaturesFail, CheckDeath, HeartbeatCharges,
                HeartbeatReads, ReadVitals, ReadState, HeartbeatWrites, StoreConditions,
                HeartbeatFails, AutosaveDue, SaveReads, SaveWrites, threads
  <2>2. Online' = Online
    <3>1. \/ world' = world
          \/ world' = [world EXCEPT ![Next1] = Charged(world[Next1])]
          \/ \E hit \in SUBSET Players : CreaturesStrike(hit)
      BY <1>6 DEF Heartbeat, Persist, CreaturesHit, CreaturesFail, CheckDeath, HeartbeatCharges,
                HeartbeatReads, ReadVitals, ReadState, HeartbeatWrites, StoreConditions,
                HeartbeatFails, AutosaveDue, SaveReads, SaveWrites
    <3> QED BY <1>w, <3>1, StrikeTypes DEF Online, TypeOK
  <2> QED BY <1>j, <2>1, <2>2, OwnedStays
<1>7. CASE UNCHANGED vars
  BY <1>7, <1>j, <1>w, OwnedStays DEF vars, threads
<1> QED
  BY <1>1, <1>2, <1>3, <1>4, <1>5, <1>6, <1>7 DEF Next, Session, Obligations

(* Every step of logins, sessions, operator and heartbeat keeps the types, and *)
(* a character in the world has a session that registered it and no other.     *)
THEOREM LifecycleOwners == Spec => [](TypeOK /\ Owned)
<1>1. Init => TypeOK /\ Owned
  BY TypeInit, OwnedInit
<1>2. TypeOK /\ Owned /\ [Next]_vars => (TypeOK /\ Owned)'
  BY TypeStep, OwnedStep
<1> QED
  BY <1>1, <1>2, PTL DEF Spec

(* The health never leaves 0..max_health, whoever writes it from whatever he *)
(* has read before, and every other piece of state keeps its type.           *)
THEOREM LifecycleTypes == Spec => []TypeOK
BY LifecycleOwners, PTL

(* The sessions of a character in the world are a singleton. *)
LEMMA OneSession == TypeOK /\ Owned => SoleOwner
<1> SUFFICES ASSUME TypeOK, Owned, NEW p \in Players
             PROVE  Cardinality({s \in Sessions : Owner[s] = p /\ phase[s] \in Inside})
                      = IF p \in Online THEN 1 ELSE 0
  BY DEF SoleOwner
<1> DEFINE its == {s \in Sessions : Owner[s] = p /\ phase[s] \in Inside}
<1>1. CASE p \in Online
  <2>1. PICK s \in Sessions : Owner[s] = p /\ phase[s] \in Inside
    BY <1>1 DEF Owned
  <2>2. its = {s}
    BY <2>1 DEF Owned
  <2> QED
    BY <1>1, <2>2, FS_Singleton
<1>2. CASE p \notin Online
  <2>1. its = {}
    BY <1>2 DEF Owned
  <2> QED
    BY <1>2, <2>1, FS_EmptySet
<1> QED
  BY <1>1, <1>2

(* A character in the world belongs to exactly one session: the guard of no *)
(* session removes the character of another.                                *)
THEOREM LifecycleSoleOwner == Spec => []SoleOwner
BY LifecycleOwners, OneSession, PTL

----------------------------------------------------------------------------
(* The accounts of deaths and losses *)

(* The losses a character may have suffered: one for each death, and one for *)
(* each login that brought an uncharged death back into the world.           *)
Dues == [p \in Players |-> deaths[p] + revived[p]]

(* The accounts of the losses: what a life has lost, and what it has still to *)
(* lose for a death nobody has charged yet.                                   *)
Owed(life) == life.lost + IF life.dead /\ ~life.charged THEN 1 ELSE 0

WorldAccounts == \A p \in Online : Owed(world[p]) <= Dues[p]

RowAccounts == \A p \in Players : rows[p].lost <= Dues[p]

CopyAccounts == \A s \in Sessions : copy[s].lost <= Dues[Owner[s]]

JobAccounts == \A s \in Sessions :
                 job[s].who \in Players => job[s].life.lost <= Dues[job[s].who]

BeatAccounts == beat.at = "write" /\ beat.part = "loss" /\ Next1 \in Players
                  => beat.life.lost <= Dues[Next1]

Accounts == WorldAccounts /\ RowAccounts /\ CopyAccounts /\ JobAccounts /\ BeatAccounts

LEMMA DuesType ==
  /\ TypeOK => Dues \in [Players -> Nat]
  /\ TypeOK' => Dues' \in [Players -> Nat]
BY DEF TypeOK, Dues

LEMMA OwedType ==
  ASSUME NEW life \in Life
  PROVE  /\ Owed(life) \in Nat /\ life.lost \in Nat /\ life.lost <= Owed(life)
         /\ ~life.dead => Owed(life) = life.lost
BY DEF Owed, Life

LEMMA OwedHealth ==
  ASSUME NEW life \in Life, NEW health
  PROVE  /\ Owed([life EXCEPT !.health = health]) = Owed(life)
         /\ [life EXCEPT !.health = health].lost = life.lost
BY DEF Owed, Life

LEMMA OwedStruck ==
  ASSUME NEW life \in Life, life.health > 0, ~life.dead
  PROVE  /\ life.health = 1 => Owed(Struck(life)) = life.lost + 1
         /\ life.health # 1 => Owed(Struck(life)) = life.lost
<1>1. CASE life.health > 1
  <2>1. Struck(life).lost = life.lost /\ ~Struck(life).dead
    BY <1>1, StruckType
  <2>2. Owed(Struck(life)) = life.lost
    BY <2>1, LifeFields DEF Owed
  <2> QED
    BY <1>1, <2>2
<1>2. CASE ~(life.health > 1)
  <2>1. life.health = 1
    BY <1>2, LifeFields, LifecycleAssumption
  <2>2. Struck(life).lost = life.lost /\ Struck(life) \in Life
    BY StruckType
  <2>3. Owed(Struck(life)) <= life.lost + 1
    BY <2>2, LifeFields DEF Owed
  <2>4. Struck(life).dead /\ ~Struck(life).charged
    BY <2>1, StruckType
  <2>5. Owed(Struck(life)) = life.lost + 1
    BY <2>2, <2>4 DEF Owed
  <2> QED
    BY <2>1, <2>5
<1> QED
  BY <1>1, <1>2, LifeFields

(* A charge takes from what is owed and adds to what is lost. *)
LEMMA OwedCharged ==
  ASSUME NEW life \in Life, life.dead, ~life.charged
  PROVE  Owed(Charged(life)) = Owed(life)
<1>1. Charged(life).lost = life.lost + 1 /\ Charged(life).charged
  BY ChargedType
<1> QED
  BY <1>1, LifeFields DEF Owed

LEMMA OneLife ==
  ASSUME TypeOK, WorldAccounts, NEW p \in Online, NEW life \in Life,
         world' = [world EXCEPT ![p] = life], Dues' \in [Players -> Nat],
         \A q \in Players : Dues'[q] >= Dues[q], Owed(life) <= Dues'[p]
  PROVE  WorldAccounts'
<1>1. /\ Online' = Online
      /\ world'[p] = life
      /\ \A q \in Online \ {p} : world'[q] = world[q]
  BY ChangedType
<1> SUFFICES ASSUME NEW q \in Online PROVE Owed(world'[q]) <= Dues'[q]
  BY <1>1 DEF WorldAccounts, Owed
<1>2. CASE q = p
  BY <1>1, <1>2
<1>3. CASE q # p
  <2>1. world'[q] = world[q] /\ world[q] \in Life /\ q \in Players
    BY <1>1, <1>3 DEF TypeOK
  <2>2. Owed(world[q]) <= Dues[q] /\ Owed(world[q]) \in Nat
    BY <2>1, OwedType DEF WorldAccounts
  <2>3. Dues'[q] >= Dues[q] /\ Dues[q] \in Nat /\ Dues'[q] \in Nat
    BY <2>1, DuesType
  <2> QED
    BY <2>1, <2>2, <2>3
<1> QED
  BY <1>2, <1>3

LEMMA DeathsGrow ==
  TypeOK /\ Owned /\ [Next]_vars => \A p \in Players : deaths'[p] >= deaths[p]
<1> SUFFICES ASSUME TypeOK, Owned, [Next]_vars
             PROVE  \A p \in Players : deaths'[p] >= deaths[p]
  OBVIOUS
<1>1. \/ deaths' = deaths
      \/ \E p \in Players : deaths' = [deaths EXCEPT ![p] = deaths[p] + 1]
      \/ \E hit \in SUBSET Players : CreaturesStrike(hit)
  <2>1. ASSUME NEW s \in Sessions, Session(s) PROVE <1>1!1 \/ <1>1!2
    <3>1. CASE SufferCondition(s)
      BY <3>1, OwnerType DEF SufferCondition, HitPlayer
    <3>2. CASE \E q \in Players : HitOther(s, q)
      BY <3>2 DEF HitOther
    <3> QED
      BY <2>1, <3>1, <3>2 DEF Session, ReadRow, Login, RespawnRead, RespawnWrite, Reread,
            Register, Refused, GetTown, Hydrate, Baseline, End, Obligations, ObserveDeath,
            ObeyKick, Swallow, ChargeDeath, ChargeFails, ReadLoss, WriteRow, Regenerate, Drink
  <2>2. ASSUME NEW p \in Players, Kick(p) \/ Heal(p) PROVE <1>1!1
    BY <2>2 DEF Kick, Heal
  <2>3. CASE Heartbeat
    BY <2>3 DEF Heartbeat, Persist, CreaturesHit, CreaturesFail, CheckDeath, HeartbeatCharges,
                HeartbeatReads, ReadVitals, ReadState, HeartbeatWrites, StoreConditions,
                HeartbeatFails, AutosaveDue, SaveReads, SaveWrites
  <2>4. CASE UNCHANGED vars
    BY <2>4 DEF vars
  <2> QED
    BY <2>1, <2>2, <2>3, <2>4 DEF Next
<1>2. CASE deaths' = deaths
  BY <1>2 DEF TypeOK
<1>3. CASE \E p \in Players : deaths' = [deaths EXCEPT ![p] = deaths[p] + 1]
  BY <1>3 DEF TypeOK
<1>4. CASE \E hit \in SUBSET Players : CreaturesStrike(hit)
  BY <1>4 DEF CreaturesStrike, TypeOK
<1> QED
  BY <1>1, <1>2, <1>3, <1>4

(* Only Hydrate changes the other part of the dues. *)
LEMMA RevivedGrow ==
  TypeOK /\ [Next]_vars => \A p \in Players : revived'[p] >= revived[p]
<1> SUFFICES ASSUME TypeOK, [Next]_vars
             PROVE  \A p \in Players : revived'[p] >= revived[p]
  OBVIOUS
<1>1. revived' = revived \/ \E p \in Players : revived' = [revived EXCEPT ![p] = revived[p] + 1]
  <2>1. ASSUME NEW s \in Sessions, Session(s) PROVE <1>1
    <3>1. CASE Hydrate(s)
      BY <3>1, OwnerType DEF Hydrate
    <3> QED
      BY <2>1, <3>1 DEF Session, ReadRow, Login, RespawnRead, RespawnWrite, Reread,
            Register, Refused, GetTown, Baseline, End, Obligations, ObserveDeath, ObeyKick,
            Swallow, ChargeDeath, ChargeFails, ReadLoss, WriteRow, SufferCondition, Regenerate,
            Drink, HitOther
  <2>2. ASSUME NEW p \in Players, Kick(p) \/ Heal(p) PROVE <1>1
    BY <2>2 DEF Kick, Heal
  <2>3. CASE Heartbeat
    BY <2>3 DEF Heartbeat, Persist, CreaturesHit, CreaturesFail, CheckDeath, HeartbeatCharges,
                HeartbeatReads, ReadVitals, ReadState, HeartbeatWrites, StoreConditions,
                HeartbeatFails, AutosaveDue, SaveReads, SaveWrites
  <2>4. CASE UNCHANGED vars
    BY <2>4 DEF vars
  <2> QED
    BY <2>1, <2>2, <2>3, <2>4 DEF Next
<1> QED
  BY <1>1 DEF TypeOK

LEMMA DuesGrow ==
  TypeOK /\ Owned /\ [Next]_vars =>
     Dues' \in [Players -> Nat] /\ \A p \in Players : Dues'[p] >= Dues[p]
<1> SUFFICES ASSUME TypeOK, Owned, [Next]_vars
             PROVE  Dues' \in [Players -> Nat] /\ \A p \in Players : Dues'[p] >= Dues[p]
  OBVIOUS
<1>1. TypeOK'
  BY TypeStep
<1>2. ASSUME NEW p \in Players PROVE Dues'[p] >= Dues[p]
  <2>1. /\ deaths[p] \in Nat /\ deaths'[p] \in Nat
        /\ revived[p] \in Nat /\ revived'[p] \in Nat
    BY <1>1 DEF TypeOK
  <2>2. deaths'[p] >= deaths[p] /\ revived'[p] >= revived[p]
    BY DeathsGrow, RevivedGrow
  <2>3. Dues[p] = deaths[p] + revived[p] /\ Dues'[p] = deaths'[p] + revived'[p]
    BY DEF Dues
  <2> QED
    BY <2>1, <2>2, <2>3
<1> QED
  BY <1>1, <1>2, DuesType

(* A new death, and no life brought back. *)
LEMMA DuesOfDeath ==
  ASSUME TypeOK, NEW p \in Players, deaths'[p] = deaths[p] + 1, revived' = revived
  PROVE  Dues'[p] = Dues[p] + 1
BY DEF TypeOK, Dues

LEMMA WorldStays ==
  ASSUME TypeOK, WorldAccounts, Dues' \in [Players -> Nat],
         \A q \in Players : Dues'[q] >= Dues[q],
         Online' \subseteq Online, \A p \in Online' : world'[p] = world[p]
  PROVE  WorldAccounts'
<1> SUFFICES ASSUME NEW q \in Online' PROVE Owed(world'[q]) <= Dues'[q]
  BY DEF WorldAccounts, Owed
<1>1. world'[q] = world[q] /\ world[q] \in Life /\ q \in Players /\ q \in Online
  BY DEF TypeOK
<1>2. Owed(world[q]) <= Dues[q] /\ Owed(world[q]) \in Nat
  BY <1>1, OwedType DEF WorldAccounts
<1>3. Dues'[q] >= Dues[q] /\ Dues[q] \in Nat /\ Dues'[q] \in Nat
  BY <1>1, DuesType
<1> QED
  BY <1>1, <1>2, <1>3

(* Health alone owes nothing. *)
LEMMA WorldHealth ==
  ASSUME TypeOK, WorldAccounts, Dues' \in [Players -> Nat],
         \A q \in Players : Dues'[q] >= Dues[q],
         NEW p \in Online, NEW health \in 0..Full,
         world' = [world EXCEPT ![p] = [world[p] EXCEPT !.health = health]]
  PROVE  WorldAccounts'
<1> DEFINE life == [world[p] EXCEPT !.health = health]
<1>1. world[p] \in Life /\ p \in Players
  BY DEF TypeOK
<1>2. Owed(life) = Owed(world[p]) /\ Owed(world[p]) \in Nat
  BY <1>1, OwedHealth, OwedType
<1>3. life \in Life
  BY <1>1 DEF Life
<1>4. Owed(world[p]) <= Dues[p] /\ Dues'[p] >= Dues[p]
      /\ Dues[p] \in Nat /\ Dues'[p] \in Nat
  BY <1>1, DuesType DEF WorldAccounts
<1>5. world' = [world EXCEPT ![p] = life]
  OBVIOUS
<1> HIDE DEF life
<1>6. Owed(life) <= Dues'[p]
  BY <1>2, <1>4
<1> QED
  BY <1>3, <1>5, <1>6, OneLife

LEMMA WorldStruck ==
  ASSUME TypeOK, WorldAccounts, Dues' \in [Players -> Nat],
         \A q \in Players : Dues'[q] >= Dues[q],
         NEW p \in Online, world[p].health > 0, ~world[p].dead,
         Lethal(p) => Dues'[p] = Dues[p] + 1
  PROVE  Struck(world[p]) \in Life /\ Owed(Struck(world[p])) <= Dues'[p]
<1>1. world[p] \in Life /\ p \in Players
  BY DEF TypeOK
<1>2. world[p].lost <= Dues[p] /\ world[p].lost \in Nat
  BY <1>1, OwedType DEF WorldAccounts
<1>3. Dues'[p] >= Dues[p] /\ Dues[p] \in Nat /\ Dues'[p] \in Nat
  BY <1>1, DuesType
<1>4. CASE Lethal(p)
  <2>1. Owed(Struck(world[p])) = world[p].lost + 1
    BY <1>1, <1>4, OwedStruck DEF Lethal
  <2> QED
    BY <1>1, <1>2, <1>3, <1>4, <2>1, StruckType
<1>5. CASE ~Lethal(p)
  <2>1. Owed(Struck(world[p])) = world[p].lost
    BY <1>1, <1>5, OwedStruck DEF Lethal
  <2> QED
    BY <1>1, <1>2, <1>3, <2>1, StruckType
<1> QED
  BY <1>4, <1>5

LEMMA WorldCharged ==
  ASSUME TypeOK, WorldAccounts, Dues' \in [Players -> Nat],
         \A q \in Players : Dues'[q] >= Dues[q],
         NEW p, Chargeable(p), world' = [world EXCEPT ![p] = Charged(world[p])]
  PROVE  WorldAccounts'
<1>1. p \in Online /\ p \in Players /\ world[p] \in Life /\ world[p].dead /\ ~world[p].charged
  BY DEF Chargeable, TypeOK
<1>2. Charged(world[p]) \in Life
  BY <1>1, ChargedType
<1>3. Owed(Charged(world[p])) = Owed(world[p]) /\ Owed(world[p]) \in Nat
  BY <1>1, OwedCharged, OwedType
<1>4. Owed(world[p]) <= Dues[p] /\ Dues'[p] >= Dues[p]
      /\ Dues[p] \in Nat /\ Dues'[p] \in Nat
  BY <1>1, DuesType DEF WorldAccounts
<1>5. Owed(Charged(world[p])) <= Dues'[p]
  BY <1>3, <1>4
<1> QED
  BY <1>1, <1>2, <1>5, OneLife

LEMMA WorldStep == TypeOK /\ Owned /\ Accounts /\ [Next]_vars => WorldAccounts'
<1> SUFFICES ASSUME TypeOK, Owned, Accounts, [Next]_vars PROVE WorldAccounts'
  OBVIOUS
<1>0. /\ WorldAccounts
      /\ Dues \in [Players -> Nat] /\ Dues' \in [Players -> Nat]
      /\ \A q \in Players : Dues'[q] >= Dues[q]
  BY DuesType, DuesGrow DEF Accounts
<1>u. ASSUME UNCHANGED world PROVE WorldAccounts'
  BY <1>0, <1>u, WorldStays DEF Online
<1>1. ASSUME NEW s \in Sessions, Session(s) PROVE WorldAccounts'
  <2> DEFINE p == Owner[s]
  <2>0. p \in Players
    BY OwnerType
  <2>1. CASE Register(s)
    <3> DEFINE life == Alive(copy[s].health, copy[s].lost)
    <3>1. world' = With(world, p, life) /\ p \notin Online
      BY <2>1 DEF Register
    <3>2. Online' = Online \cup {p} /\ world'[p] = life
          /\ \A q \in Online : world'[q] = world[q]
      BY <3>1 DEF With, Online
    <3>3. copy[s].lost <= Dues[p] /\ copy[s].lost \in Nat
      BY LifeFields DEF Accounts, CopyAccounts, TypeOK
    <3>4. Owed(life) = copy[s].lost
      BY <3>3 DEF Owed, Alive
    <3>5. Owed(world'[p]) <= Dues'[p]
      BY <1>0, <2>0, <3>2, <3>3, <3>4 DEF TypeOK
    <3>6. ASSUME NEW q \in Online PROVE Owed(world'[q]) <= Dues'[q]
      <4>1. world'[q] = world[q] /\ world[q] \in Life /\ q \in Players
        BY <3>2 DEF TypeOK
      <4>2. Owed(world[q]) <= Dues[q] /\ Owed(world[q]) \in Nat
        BY <1>0, <4>1, OwedType DEF WorldAccounts
      <4> QED
        BY <1>0, <4>1, <4>2 DEF TypeOK
    <3> HIDE DEF life
    <3> QED
      BY <3>2, <3>5, <3>6 DEF WorldAccounts, Owed
  <2>2. CASE Hydrate(s)
    <3> DEFINE one == [world[p] EXCEPT !.dead = copy[s].dead]
               life == [one EXCEPT !.charged = copy[s].charged]
    <3>1. p \in Online /\ world[p] \in Life
      BY <2>2 DEF Hydrate, Owned, Inside, TypeOK
    <3>2. copy[s].dead \in BOOLEAN /\ copy[s].charged \in BOOLEAN
      BY LifeFields DEF TypeOK
    <3>3. one \in Life /\ one.lost = world[p].lost /\ one.dead = copy[s].dead
      BY <3>1, <3>2 DEF Life
    <3>4. /\ life \in Life /\ life.lost = world[p].lost
          /\ life.dead = copy[s].dead /\ life.charged = copy[s].charged
      <4> HIDE DEF one
      <4> QED BY <3>2, <3>3 DEF Life
    <3>5. world' = [world EXCEPT ![p] = life]
      BY <2>2, <3>1 DEF Hydrate, TypeOK, Life
    <3>6. Owed(life) <= Dues'[p]
      <4>1. world[p].lost <= Dues[p] /\ world[p].lost \in Nat
        BY <1>0, <2>0, <3>1, OwedType DEF WorldAccounts
      <4>2. Dues'[p] >= Dues[p] /\ Dues[p] \in Nat /\ Dues'[p] \in Nat
        BY <1>0, <2>0
      <4>3. CASE copy[s].dead /\ ~copy[s].charged
        <5>1. revived' = [revived EXCEPT ![p] = revived[p] + 1] /\ deaths' = deaths
          BY <2>2, <4>3 DEF Hydrate
        <5>2. Dues'[p] = Dues[p] + 1
          BY <2>0, <5>1 DEF TypeOK, Dues
        <5>3. Owed(life) = world[p].lost + 1
          <6> HIDE DEF life
          <6> QED BY <3>4, <4>3 DEF Owed
        <5> HIDE DEF life
        <5> QED BY <4>1, <4>2, <5>2, <5>3
      <4>4. CASE ~(copy[s].dead /\ ~copy[s].charged)
        <5>1. Owed(life) = world[p].lost
          <6> HIDE DEF life
          <6> QED BY <3>4, <4>1, <4>4 DEF Owed
        <5> HIDE DEF life
        <5> QED BY <4>1, <4>2, <5>1
      <4> QED BY <4>3, <4>4
    <3> HIDE DEF life
    <3> QED
      BY <1>0, <3>1, <3>4, <3>5, <3>6, OneLife
  <2>3. CASE End(s) \/ ObeyKick(s) \/ ChargeFails(s)
    <3>1. Gone(s)
      BY <2>3 DEF End, ObeyKick, ChargeFails
    <3> QED
      BY <1>0, <3>1, GoneType, WorldStays
  <2>4. CASE SufferCondition(s)
    <3>1. p \in Online /\ world[p].health > 0 /\ ~world[p].dead /\ HitPlayer(p)
      BY <2>4, PlayingInWorld DEF SufferCondition, Ready, Playing
    <3>2. world' = [world EXCEPT ![p] = Struck(world[p])]
      BY <3>1 DEF HitPlayer
    <3>3. Lethal(p) => Dues'[p] = Dues[p] + 1
      <4>1. Lethal(p) => deaths'[p] = deaths[p] + 1
        BY <3>1, HitType
      <4> QED
        BY <2>0, <2>4, <4>1, DuesOfDeath DEF SufferCondition
    <3> QED
      BY <1>0, <3>1, <3>2, <3>3, WorldStruck, OneLife
  <2>5. CASE Regenerate(s)
    <3>1. p \in Online /\ world[p] \in Life
      BY <2>5, PlayingInWorld DEF Regenerate, Ready, Playing
    <3>2. world[p].health + 1 \in 0..Full
      BY <2>5, <3>1, LifeFields, LifecycleAssumption DEF Regenerate
    <3>3. world' = [world EXCEPT ![p] = [world[p] EXCEPT !.health = world[p].health + 1]]
      BY <2>5 DEF Regenerate
    <3> QED
      BY <1>0, <3>1, <3>2, <3>3, WorldHealth
  <2>6. CASE Swallow(s)
    <3>1. p \in Online
      BY <2>6, PlayingInWorld DEF Swallow
    <3>2. job[s].life.health \in 0..Full
      BY JobFields, LifeFields DEF TypeOK
    <3>3. world' = [world EXCEPT ![p] = [world[p] EXCEPT !.health = job[s].life.health]]
      BY <2>6 DEF Swallow
    <3> QED
      BY <1>0, <3>1, <3>2, <3>3, WorldHealth
  <2>7. CASE \E q \in Players : HitOther(s, q)
    <3> PICK q \in Players : HitOther(s, q)
      BY <2>7
    <3>1. q \in Online /\ world[q].health > 0 /\ world[q] \in Life
      BY DEF HitOther, TypeOK
    <3>2. CASE world[q].dead
      <4>1. world[q].health - 1 \in 0..Full
        BY <3>1, LifeFields, LifecycleAssumption
      <4>2. world' = [world EXCEPT ![q] = [world[q] EXCEPT !.health = world[q].health - 1]]
        BY <3>2 DEF HitOther, Hurt
      <4> QED
        BY <1>0, <3>1, <4>1, <4>2, WorldHealth
    <3>3. CASE ~world[q].dead
      <4>1. world' = [world EXCEPT ![q] = Struck(world[q])]
        BY <3>3 DEF HitOther
      <4>2. Lethal(q) => Dues'[q] = Dues[q] + 1
        <5>1. Lethal(q) => deaths'[q] = deaths[q] + 1
          BY <3>3 DEF HitOther, TypeOK
        <5> QED
          BY <5>1, DuesOfDeath DEF HitOther
      <4> QED
        BY <1>0, <3>1, <3>3, <4>1, <4>2, WorldStruck, OneLife
    <3> QED
      BY <3>2, <3>3
  <2>8. CASE ChargeDeath(s)
    BY <1>0, <2>8, WorldCharged DEF ChargeDeath
  <2>9. CASE ReadRow(s) \/ RespawnRead(s) \/ RespawnWrite(s) \/ Reread(s) \/ Refused(s)
             \/ GetTown(s) \/ Baseline(s) \/ ObserveDeath(s) \/ ReadLoss(s) \/ WriteRow(s)
             \/ Drink(s)
    BY <1>u, <2>9 DEF ReadRow, RespawnRead, RespawnWrite, Reread, Refused, GetTown, Baseline,
                      ObserveDeath, ReadLoss, WriteRow, Drink
  <2> QED
    BY <1>1, <2>1, <2>2, <2>3, <2>4, <2>5, <2>6, <2>7, <2>8, <2>9
       DEF Session, Login, Obligations
<1>2. ASSUME NEW p \in Players, Kick(p) \/ Heal(p) PROVE WorldAccounts'
  <2>1. CASE Kick(p)
    BY <1>u, <2>1 DEF Kick
  <2>2. CASE Heal(p)
    <3>1. p \in Online /\ Full \in 0..Full
      BY <2>2, LifecycleAssumption DEF Heal
    <3>2. world' = [world EXCEPT ![p] = [world[p] EXCEPT !.health = Full]]
      BY <2>2 DEF Heal
    <3> QED
      BY <1>0, <3>1, <3>2, WorldHealth
  <2> QED
    BY <1>2, <2>1, <2>2
<1>3. CASE Heartbeat
  <2>1. ASSUME NEW hit \in SUBSET Players, CreaturesStrike(hit), revived' = revived
        PROVE  WorldAccounts'
    <3>1. Online' = Online
      BY <2>1, StrikeTypes
    <3>2. ASSUME NEW q \in Online PROVE Owed(world'[q]) <= Dues'[q]
      <4>1. q \in Players /\ world[q] \in Life
        BY DEF TypeOK
      <4>2. CASE q \in hit
        <5>1. world'[q] = Struck(world[q]) /\ world[q].health > 0 /\ ~world[q].dead
          BY <2>1, <4>2 DEF CreaturesStrike, Killable
        <5>2. Lethal(q) => Dues'[q] = Dues[q] + 1
          <6>1. Lethal(q) => deaths'[q] = deaths[q] + 1
            BY <2>1, <4>1, <4>2 DEF CreaturesStrike
          <6> QED
            BY <2>1, <4>1, <6>1, DuesOfDeath
        <5> QED
          BY <1>0, <5>1, <5>2, WorldStruck
      <4>3. CASE q \notin hit
        <5>1. world'[q] = world[q]
          BY <2>1, <4>3 DEF CreaturesStrike
        <5>2. Owed(world[q]) <= Dues[q] /\ Owed(world[q]) \in Nat
          BY <1>0, <4>1, OwedType DEF WorldAccounts
        <5> QED
          BY <1>0, <4>1, <5>1, <5>2 DEF TypeOK
      <4> QED
        BY <4>2, <4>3
    <3> QED
      BY <3>1, <3>2 DEF WorldAccounts, Owed
  <2>2. CASE HeartbeatCharges
    <3>1. Chargeable(Next1) /\ world' = [world EXCEPT ![Next1] = Charged(world[Next1])]
      BY <2>2 DEF HeartbeatCharges
    <3> QED
      BY <1>0, <3>1, WorldCharged
  <2> QED
    BY <1>3, <1>u, <2>1, <2>2 DEF Heartbeat, Persist, CreaturesHit, CreaturesFail, CheckDeath,
            HeartbeatReads, ReadVitals, ReadState, HeartbeatWrites, StoreConditions,
            HeartbeatFails, AutosaveDue, SaveReads, SaveWrites
<1>4. CASE UNCHANGED vars
  BY <1>4, <1>u DEF vars
<1> QED
  BY <1>1, <1>2, <1>3, <1>4 DEF Next

LEMMA OneRow ==
  ASSUME TypeOK, RowAccounts, Dues' \in [Players -> Nat],
         \A q \in Players : Dues'[q] >= Dues[q],
         NEW p, NEW row, p \in Players => row \in Life /\ row.lost <= Dues[p],
         rows' = [rows EXCEPT ![p] = row]
  PROVE  RowAccounts'
<1> SUFFICES ASSUME NEW q \in Players PROVE rows'[q].lost <= Dues'[q]
  BY DEF RowAccounts
<1>1. rows[q].lost <= Dues[q] /\ rows[q] \in Life
  BY DEF RowAccounts, TypeOK
<1>2. rows'[q] = IF q = p THEN row ELSE rows[q]
  BY DEF TypeOK
<1>3. rows'[q].lost <= Dues[q] /\ rows'[q].lost \in Nat
  BY <1>1, <1>2, LifeFields
<1> QED
  BY <1>3, DuesType

LEMMA RowStep == TypeOK /\ Owned /\ Accounts /\ [Next]_vars => RowAccounts'
<1> SUFFICES ASSUME TypeOK, Owned, Accounts, [Next]_vars PROVE RowAccounts'
  OBVIOUS
<1>0. /\ RowAccounts
      /\ Dues \in [Players -> Nat] /\ Dues' \in [Players -> Nat]
      /\ \A q \in Players : Dues'[q] >= Dues[q]
  BY DuesType, DuesGrow DEF Accounts
<1>u. ASSUME UNCHANGED rows PROVE RowAccounts'
  <2> SUFFICES ASSUME NEW q \in Players PROVE rows'[q].lost <= Dues'[q]
    BY DEF RowAccounts
  <2>1. rows[q].lost <= Dues[q] /\ rows[q].lost \in Nat
    BY <1>0, LifeFields DEF RowAccounts, TypeOK
  <2> QED
    BY <1>0, <1>u, <2>1 DEF TypeOK
<1>w. ASSUME NEW p, NEW part \in Parts, NEW life \in Life,
             p \in Players /\ part = "loss" => life.lost <= Dues[p],
             rows' = [rows EXCEPT ![p] = Stored(rows[p], part, life)]
      PROVE  RowAccounts'
  <2> DEFINE row == Stored(rows[p], part, life)
  <2>1. ASSUME p \in Players PROVE row \in Life /\ row.lost <= Dues[p]
    <3>1. rows[p] \in Life /\ rows[p].lost <= Dues[p]
      BY <1>0, <2>1 DEF RowAccounts, TypeOK
    <3>2. CASE part = "loss"
      <4>1. row = life
        BY <3>1, <3>2, StoredType
      <4> HIDE DEF row
      <4> QED BY <1>w, <2>1, <3>2, <4>1
    <3>3. CASE part # "loss"
      <4>1. row \in Life /\ row.lost = rows[p].lost
        BY <3>1, <3>3, StoredType
      <4> HIDE DEF row
      <4> QED BY <3>1, <4>1
    <3> QED
      BY <3>2, <3>3
  <2>2. rows' = [rows EXCEPT ![p] = row]
    BY <1>w
  <2> HIDE DEF row
  <2> QED
    BY <1>0, <2>1, <2>2, OneRow
<1>1. ASSUME NEW s \in Sessions, Session(s) PROVE RowAccounts'
  <2>1. CASE RespawnWrite(s)
    <3> DEFINE p == Owner[s]
               row == Alive(Full, rows[p].lost)
    <3>1. rows' = [rows EXCEPT ![p] = row]
      BY <2>1 DEF RespawnWrite
    <3>2. p \in Players /\ rows[p].lost <= Dues[p] /\ rows[p].lost \in Nat
      BY <1>0, OwnerType, LifeFields DEF RowAccounts, TypeOK
    <3>3. Full \in 0..Full
      BY LifecycleAssumption
    <3>4. row \in Life /\ row.lost = rows[p].lost
      BY <3>2, <3>3, AliveType DEF Alive
    <3> HIDE DEF row, p
    <3> QED
      BY <1>0, <3>1, <3>2, <3>4, OneRow
  <2>2. CASE WriteRow(s)
    <3>1. job[s].part \in Parts /\ job[s].life \in Life
      BY JobFields DEF TypeOK
    <3>2. job[s].who \in Players => job[s].life.lost <= Dues[job[s].who]
      BY DEF Accounts, JobAccounts
    <3>3. rows' = [rows EXCEPT ![job[s].who] = Stored(rows[job[s].who], job[s].part, job[s].life)]
      BY <2>2 DEF WriteRow
    <3> QED
      BY <1>w, <3>1, <3>2, <3>3
  <2>3. CASE ~RespawnWrite(s) /\ ~WriteRow(s)
    BY <1>1, <1>u, <2>3 DEF Session, Login, Obligations, ReadRow, RespawnRead, Reread, Register,
         Refused, GetTown, Hydrate, Baseline, End, ObserveDeath, ObeyKick, ChargeFails, Gone,
         Swallow, ChargeDeath, ReadLoss, SufferCondition, Regenerate, Drink, HitOther
  <2> QED
    BY <2>1, <2>2, <2>3
<1>2. ASSUME NEW p \in Players, Kick(p) \/ Heal(p) PROVE RowAccounts'
  BY <1>2, <1>u DEF Kick, Heal
<1>3. CASE Heartbeat
  <2>0. beat.part \in Parts /\ beat.life \in Life
    BY DEF TypeOK, Beat
  <2>1. CASE HeartbeatWrites
    <3>1. rows' = [rows EXCEPT ![Next1] = Stored(rows[Next1], beat.part, beat.life)]
      BY <2>1 DEF HeartbeatWrites
    <3>2. Next1 \in Players /\ beat.part = "loss" => beat.life.lost <= Dues[Next1]
      BY <2>1 DEF HeartbeatWrites, Beats, Accounts, BeatAccounts
    <3> QED
      BY <1>w, <2>0, <3>1, <3>2
  <2>2. CASE SaveWrites
    <3>1. rows' = [rows EXCEPT ![Next1] = Stored(rows[Next1], "vitals", beat.life)]
      BY <2>2 DEF SaveWrites
    <3> QED
      BY <1>w, <2>0, <3>1 DEF Parts
  <2> QED
    BY <1>3, <1>u, <2>1, <2>2 DEF Heartbeat, Persist, CreaturesHit, CreaturesFail, CheckDeath,
            HeartbeatCharges, HeartbeatReads, ReadVitals, ReadState, StoreConditions,
            HeartbeatFails, AutosaveDue, SaveReads
<1>4. CASE UNCHANGED vars
  BY <1>4, <1>u DEF vars
<1> QED
  BY <1>1, <1>2, <1>3, <1>4 DEF Next

LEMMA CopyStep == TypeOK /\ Owned /\ Accounts /\ [Next]_vars => CopyAccounts'
<1> SUFFICES ASSUME TypeOK, Owned, Accounts, [Next]_vars PROVE CopyAccounts'
  OBVIOUS
<1>0. /\ CopyAccounts /\ RowAccounts
      /\ Dues \in [Players -> Nat] /\ Dues' \in [Players -> Nat]
      /\ \A q \in Players : Dues'[q] >= Dues[q]
  BY DuesType, DuesGrow DEF Accounts
<1>k. ASSUME NEW r \in Sessions, copy'[r] = copy[r] PROVE copy'[r].lost <= Dues'[Owner[r]]
  <2>1. copy[r].lost <= Dues[Owner[r]] /\ copy[r].lost \in Nat /\ Owner[r] \in Players
    BY <1>0, OwnerType, LifeFields DEF CopyAccounts, TypeOK
  <2> QED
    BY <1>0, <1>k, <2>1 DEF TypeOK
<1>u. ASSUME UNCHANGED copy PROVE CopyAccounts'
  BY <1>0, <1>k, <1>u DEF CopyAccounts
(* One session gets another copy. *)
<1>m. ASSUME NEW s \in Sessions, NEW life \in Life,
             copy' = [copy EXCEPT ![s] = life], life.lost <= Dues[Owner[s]]
      PROVE  CopyAccounts'
  <2> SUFFICES ASSUME NEW r \in Sessions PROVE copy'[r].lost <= Dues'[Owner[r]]
    BY DEF CopyAccounts
  <2>1. CASE r = s
    <3>1. copy'[r] = life
      BY <1>m, <2>1 DEF TypeOK
    <3>2. life.lost \in Nat /\ Owner[s] \in Players
      BY <1>m, LifeFields, OwnerType
    <3> QED
      BY <1>0, <1>m, <2>1, <3>1, <3>2
  <2>2. CASE r # s
    <3>1. copy'[r] = copy[r]
      BY <1>m, <2>2 DEF TypeOK
    <3> QED
      BY <1>k, <3>1
  <2> QED
    BY <2>1, <2>2
<1>1. ASSUME NEW s \in Sessions, Session(s) PROVE CopyAccounts'
  <2>1. CASE ReadRow(s) \/ Reread(s)
    <3>1. copy' = [copy EXCEPT ![s] = rows[Owner[s]]]
      BY <2>1 DEF ReadRow, Reread
    <3>2. rows[Owner[s]] \in Life /\ rows[Owner[s]].lost <= Dues[Owner[s]]
      BY <1>0, OwnerType DEF RowAccounts, TypeOK
    <3> QED
      BY <1>m, <3>1, <3>2
  <2>2. CASE RespawnRead(s) \/ Refused(s) \/ Hydrate(s)
    <3>1. copy' = [copy EXCEPT ![s] = Alive(0, 0)]
      BY <2>2 DEF RespawnRead, Refused, Hydrate
    <3>2. Alive(0, 0) \in Life /\ Alive(0, 0).lost = 0
      BY NothingType DEF Alive
    <3>3. Alive(0, 0).lost <= Dues[Owner[s]]
      <4>1. Dues[Owner[s]] \in Nat
        BY <1>0, OwnerType
      <4> QED
        BY <3>2, <4>1
    <3> QED
      BY <1>m, <3>1, <3>2, <3>3
  <2> QED
    BY <1>1, <1>u, <2>1, <2>2 DEF Session, Login, Obligations, RespawnWrite, Register, GetTown,
         Baseline, End, ObserveDeath, ObeyKick, ChargeFails, Gone, Swallow, ChargeDeath, ReadLoss,
         WriteRow, SufferCondition, Regenerate, Drink, HitOther
<1>2. ASSUME NEW p \in Players, Kick(p) \/ Heal(p) PROVE CopyAccounts'
  BY <1>2, <1>u DEF Kick, Heal, threads
<1>3. CASE Heartbeat
  BY <1>3, <1>u DEF Heartbeat, Persist, CreaturesHit, CreaturesFail, CheckDeath, threads,
            HeartbeatCharges, HeartbeatReads, ReadVitals, ReadState, HeartbeatWrites,
            StoreConditions, HeartbeatFails, AutosaveDue, SaveReads, SaveWrites
<1>4. CASE UNCHANGED vars
  BY <1>4, <1>u DEF vars, threads
<1> QED
  BY <1>1, <1>2, <1>3, <1>4 DEF Next

LEMMA WorldLost ==
  ASSUME TypeOK, WorldAccounts, NEW p \in Online
  PROVE  world[p].lost <= Dues[p] /\ world[p].lost \in Nat /\ p \in Players
<1>1. world[p] \in Life /\ p \in Players
  BY DEF TypeOK
<1>2. Owed(world[p]) <= Dues[p] /\ Dues[p] \in Nat
  BY <1>1, DuesType DEF WorldAccounts
<1> QED
  BY <1>1, <1>2, OwedType

LEMMA WorldLostNext ==
  ASSUME TypeOK', WorldAccounts', NEW p \in Online'
  PROVE  world'[p].lost <= Dues'[p] /\ world'[p].lost \in Nat /\ p \in Players
<1>1. world'[p] \in Life /\ p \in Players
  BY DEF TypeOK
<1>2. Owed(world'[p]) <= Dues'[p] /\ Dues'[p] \in Nat
  BY <1>1, DuesType DEF WorldAccounts, Owed
<1> QED
  BY <1>1, <1>2, OwedType

LEMMA JobStep == TypeOK /\ Owned /\ Accounts /\ [Next]_vars => JobAccounts'
<1> SUFFICES ASSUME TypeOK, Owned, Accounts, [Next]_vars PROVE JobAccounts'
  OBVIOUS
<1>0. /\ JobAccounts /\ WorldAccounts
      /\ Dues \in [Players -> Nat] /\ Dues' \in [Players -> Nat]
      /\ \A q \in Players : Dues'[q] >= Dues[q]
  BY DuesType, DuesGrow DEF Accounts
<1>t. TypeOK' /\ WorldAccounts'
  BY TypeStep, WorldStep
<1>n. 0 \notin Players /\ NoJob.who \notin Players
  BY LifecycleAssumption DEF NoJob, Nobody
<1>k. ASSUME NEW r \in Sessions, job[r].who \in Players
      PROVE  job[r].life.lost <= Dues'[job[r].who]
  <2>1. job[r].life.lost <= Dues[job[r].who] /\ job[r].life.lost \in Nat
    BY <1>0, <1>k, JobFields, LifeFields DEF JobAccounts, TypeOK
  <2> QED
    BY <1>0, <1>k, <2>1 DEF TypeOK
<1>u. ASSUME UNCHANGED job PROVE JobAccounts'
  BY <1>k, <1>u DEF JobAccounts
(* One session gets another job. *)
<1>m. ASSUME NEW s \in Sessions, NEW new, job' = [job EXCEPT ![s] = new],
             new.who \in Players => new.life.lost <= Dues'[new.who]
      PROVE  JobAccounts'
  <2> SUFFICES ASSUME NEW r \in Sessions, job'[r].who \in Players
               PROVE  job'[r].life.lost <= Dues'[job'[r].who]
    BY DEF JobAccounts
  <2>1. job'[r] = IF r = s THEN new ELSE job[r]
    BY <1>m DEF TypeOK
  <2> QED
    BY <1>k, <1>m, <2>1
<1>s. ASSUME NEW s \in Sessions, NEW p \in Online', NEW part,
             job' = [job EXCEPT ![s] = Store(p, part)]
      PROVE  JobAccounts'
  <2>1. Store(p, part).who = p /\ Store(p, part).life.lost <= Dues'[p]
    BY <1>t, WorldLostNext DEF Store
  <2> HIDE DEF Store
  <2> QED
    BY <1>m, <1>s, <2>1
<1>c. ASSUME NEW s \in Sessions, NEW p \in Players,
             job' = [job EXCEPT ![s] = [NoJob EXCEPT !.at = "charge", !.who = p]]
      PROVE  JobAccounts'
  <2> DEFINE one == [NoJob EXCEPT !.at = "charge"]
             new == [one EXCEPT !.who = p]
  <2>1. one.life.lost = 0 /\ one \in Job
    BY NothingType DEF NoJob, Alive, Job
  <2>2. new.life.lost = 0 /\ new.who = p
    <3> HIDE DEF one
    <3> QED BY <2>1 DEF Job
  <2>3. job' = [job EXCEPT ![s] = new]
    BY <1>c
  <2> HIDE DEF new
  <2>4. new.life.lost <= Dues'[new.who]
    BY <1>0, <2>2
  <2> QED
    BY <1>m, <2>3, <2>4
<1>1. ASSUME NEW s \in Sessions, Session(s) PROVE JobAccounts'
  <2> DEFINE p == Owner[s]
  <2>1. CASE End(s) \/ ObeyKick(s) \/ ChargeFails(s) \/ WriteRow(s)
    <3>1. job' = [job EXCEPT ![s] = NoJob]
      BY <2>1 DEF End, ObeyKick, ChargeFails, Gone, WriteRow
    <3> QED
      BY <1>m, <1>n, <3>1
  <2>2. CASE SufferCondition(s)
    <3>1. p \in Online /\ world[p].health > 0 /\ HitPlayer(p) /\ Afterwards(s, p)
      BY <2>2, PlayingInWorld DEF SufferCondition, Ready, Playing
    <3>2. p \in Online'
      BY <3>1, HitType
    <3>3. \/ job' = [job EXCEPT ![s] = Store(p, "vitals")]
          \/ job' = [job EXCEPT ![s] = Store(p, "death")]
          \/ job' = [job EXCEPT ![s] = [NoJob EXCEPT !.at = "charge", !.who = p]]
      BY <3>1 DEF Afterwards
    <3> QED
      BY <1>s, <1>c, <3>2, <3>3, OwnerType
  <2>3. CASE Regenerate(s)
    <3>1. p \in Online /\ Online' = Online
      BY <2>3, PlayingInWorld DEF Regenerate, Ready, Playing, Online, TypeOK
    <3>2. job' = [job EXCEPT ![s] = Store(p, "vitals")]
      BY <2>3 DEF Regenerate
    <3> QED
      BY <1>s, <3>1, <3>2
  <2>4. CASE Drink(s)
    <3> DEFINE health == Topped(world[p].health)
               life == [world[p] EXCEPT !.health = health]
               new == [at |-> "swallow", who |-> p, part |-> "vitals", life |-> life]
    <3>1. p \in Online /\ world[p] \in Life
      BY <2>4, PlayingInWorld DEF Drink, Ready, Playing
    <3>2. life.lost = world[p].lost
      <4> HIDE DEF health
      <4> QED BY <3>1, OwedHealth
    <3>3. world[p].lost <= Dues'[p]
      <4>1. world[p].lost <= Dues[p] /\ world[p].lost \in Nat /\ p \in Players
        BY <1>0, <3>1, WorldLost
      <4> QED BY <1>0, <4>1 DEF TypeOK
    <3>4. job' = [job EXCEPT ![s] = new]
      BY <2>4 DEF Drink
    <3>5. new.who = p /\ new.life.lost <= Dues'[p]
      <4> HIDE DEF life
      <4> QED BY <3>2, <3>3
    <3> HIDE DEF new
    <3> QED
      BY <1>m, <3>4, <3>5
  <2>5. CASE \E q \in Players : HitOther(s, q)
    <3> PICK q \in Players : HitOther(s, q)
      BY <2>5
    <3>1. q \in Online'
      BY DEF HitOther, Online, TypeOK
    <3>2. \/ job' = [job EXCEPT ![s] = Store(q, "vitals")]
          \/ job' = [job EXCEPT ![s] = Store(q, "death")]
          \/ job' = [job EXCEPT ![s] = [NoJob EXCEPT !.at = "charge", !.who = q]]
      BY DEF HitOther
    <3> QED
      BY <1>s, <1>c, <3>1, <3>2
  <2>6. CASE Swallow(s) \/ ChargeDeath(s)
    <3> DEFINE at == IF Swallow(s) THEN "write" ELSE "read"
               new == [job[s] EXCEPT !.at = at]
    <3>1. job' = [job EXCEPT ![s] = new]
      BY <2>6 DEF Swallow, ChargeDeath
    <3>2. new.who = job[s].who /\ new.life = job[s].life
      <4> HIDE DEF at
      <4> QED BY DEF TypeOK, Job
    <3> HIDE DEF new
    <3> QED
      BY <1>k, <1>m, <3>1, <3>2
  <2>7. CASE ReadLoss(s)
    <3> DEFINE q == job[s].who
               new == [at |-> "write", who |-> q, part |-> "loss", life |-> world[q]]
    <3>1. q \in Online /\ job' = [job EXCEPT ![s] = new]
      BY <2>7 DEF ReadLoss, LossStorable
    <3>2. world[q].lost <= Dues[q] /\ world[q].lost \in Nat /\ q \in Players
      BY <1>0, <3>1, WorldLost
    <3>3. new.who = q /\ new.life.lost <= Dues'[q]
      BY <1>0, <3>2 DEF TypeOK
    <3> HIDE DEF new
    <3> QED
      BY <1>m, <3>1, <3>3
  <2> QED
    BY <1>1, <1>u, <2>1, <2>2, <2>3, <2>4, <2>5, <2>6, <2>7 DEF Session, Login, Obligations,
         ReadRow, RespawnRead, RespawnWrite, Reread,
       Register, Refused, GetTown, Hydrate, Baseline, ObserveDeath
<1>2. ASSUME NEW p \in Players, Kick(p) \/ Heal(p) PROVE JobAccounts'
  BY <1>2, <1>u DEF Kick, Heal, threads
<1>3. CASE Heartbeat
  BY <1>3, <1>u DEF Heartbeat, Persist, CreaturesHit, CreaturesFail, CheckDeath, threads,
            HeartbeatCharges, HeartbeatReads, ReadVitals, ReadState, HeartbeatWrites,
            StoreConditions, HeartbeatFails, AutosaveDue, SaveReads, SaveWrites
<1>4. CASE UNCHANGED vars
  BY <1>4, <1>u DEF vars, threads
<1> QED
  BY <1>1, <1>2, <1>3, <1>4 DEF Next

LEMMA BeatStep == TypeOK /\ Owned /\ Accounts /\ [Next]_vars => BeatAccounts'
<1> SUFFICES ASSUME TypeOK, Owned, Accounts, [Next]_vars PROVE BeatAccounts'
  OBVIOUS
<1>0. /\ BeatAccounts /\ WorldAccounts
      /\ Dues \in [Players -> Nat] /\ Dues' \in [Players -> Nat]
      /\ \A q \in Players : Dues'[q] >= Dues[q]
  BY DuesType, DuesGrow DEF Accounts
<1>b. beat \in Beat /\ beat.life \in Life
  BY DEF TypeOK, Beat
<1>r. Rest \in Beat
  BY NothingType
<1>u. ASSUME UNCHANGED beat PROVE BeatAccounts'
  <2>1. beat.life.lost \in Nat
    BY <1>b, LifeFields
  <2>2. (Next1)' = Next1
    BY <1>u DEF Next1
  <2> QED
    BY <1>0, <1>u, <2>1, <2>2 DEF BeatAccounts, TypeOK
<1>n. ASSUME beat'.at # "write" \/ beat'.part # "loss" PROVE BeatAccounts'
  BY <1>n DEF BeatAccounts
<1>1. ASSUME NEW s \in Sessions, Session(s) PROVE BeatAccounts'
  BY <1>1, <1>u DEF Session, Login, Obligations, ReadRow, RespawnRead, RespawnWrite, Reread,
       Register, Refused, GetTown,
       Hydrate, Baseline, End, ObserveDeath, ObeyKick, ChargeFails, Swallow, ChargeDeath,
       ReadLoss, WriteRow, SufferCondition, Regenerate, Drink, HitOther
<1>2. ASSUME NEW p \in Players, Kick(p) \/ Heal(p) PROVE BeatAccounts'
  BY <1>2, <1>u DEF Kick, Heal
<1>3. CASE Heartbeat
  <2>1. CASE HeartbeatReads
    <3> DEFINE life == world[Next1]
               one == [beat EXCEPT !.at = "write"]
               two == [one EXCEPT !.part = "loss"]
               three == [two EXCEPT !.life = life]
    <3>1. beat' = three /\ Next1 \in Online
      BY <2>1 DEF HeartbeatReads, LossStorable
    <3>2. one \in Beat /\ one.todo = beat.todo
      BY <1>b, StageNames DEF Beat
    <3>3. two \in Beat /\ two.todo = beat.todo
      <4> HIDE DEF one
      <4> QED BY <3>2 DEF Beat, Parts
    <3>4. three.life = life /\ three.todo = beat.todo
      <4> HIDE DEF two, life
      <4> QED BY <3>3 DEF Beat
    <3>5. (Next1)' = Next1
      <4> HIDE DEF three
      <4> QED BY <3>1, <3>4 DEF Next1
    <3>6. life.lost <= Dues[Next1] /\ life.lost \in Nat /\ Next1 \in Players
      BY <1>0, <3>1, WorldLost
    <3> HIDE DEF three, life
    <3>7. beat'.life.lost <= Dues'[Next1]
      BY <1>0, <3>1, <3>4, <3>6 DEF TypeOK
    <3> QED
      BY <3>5, <3>7 DEF BeatAccounts
  <2>2. CASE ReadState
    <3> DEFINE now == world[Next1]
               part == IF now.dead THEN "death" ELSE "vitals"
               one == [beat EXCEPT !.at = "write"]
               two == [one EXCEPT !.part = part]
               life == [[beat.life EXCEPT !.dead = now.dead] EXCEPT !.charged = now.charged]
               three == [two EXCEPT !.life = life]
    <3>1. beat' = three
      BY <1>b, <2>2 DEF ReadState, Beat
    <3>2. part \in Parts /\ part # "loss"
      BY DEF Parts
    <3>3. one \in Beat
      BY <1>b, StageNames DEF Beat
    <3>4. two \in Beat /\ two.part = part
      <4> HIDE DEF one, part
      <4> QED BY <3>2, <3>3 DEF Beat
    <3>5. three.part = part
      <4> HIDE DEF two, life, part
      <4> QED BY <3>4 DEF Beat
    <3> HIDE DEF three, part
    <3> QED
      BY <1>n, <3>1, <3>2, <3>5
  <2>3. ASSUME NEW hit \in SUBSET Players, CreaturesHit(hit) PROVE BeatAccounts'
    <3> DEFINE one == [beat EXCEPT !.at = "check"]
               two == [one EXCEPT !.todo = hit]
               three == [two EXCEPT !.hit = hit]
    <3>1. beat' = three
      BY <2>3 DEF CreaturesHit
    <3>2. one \in Beat /\ one.at = "check"
      BY <1>b, StageNames DEF Beat
    <3>3. two \in Beat /\ two.at = "check"
      <4> HIDE DEF one
      <4> QED BY <3>2 DEF Beat
    <3>4. three.at = "check"
      <4> HIDE DEF two
      <4> QED BY <3>3 DEF Beat
    <3> HIDE DEF three
    <3> QED
      BY <1>n, <3>1, <3>4
  <2>4. CASE ReadVitals \/ SaveReads
    <3> DEFINE at == IF ReadVitals THEN "state" ELSE "savewrite"
               life == IF ReadVitals THEN [beat.life EXCEPT !.health = world[Next1].health]
                       ELSE world[Next1]
               one == [beat EXCEPT !.at = at]
               two == [one EXCEPT !.life = life]
    <3>1. beat' = two
      BY <1>b, <2>4 DEF ReadVitals, SaveReads, Beats, Beat
    <3>2. at # "write" /\ at \in Stages
      BY StageNames
    <3>3. one \in Beat /\ one.at = at
      <4> HIDE DEF at
      <4> QED BY <1>b, <3>2 DEF Beat
    <3>4. two.at = at
      <4> HIDE DEF one, life, at
      <4> QED BY <3>3 DEF Beat
    <3> HIDE DEF two, at
    <3> QED
      BY <1>n, <3>1, <3>2, <3>4
  <2>5. CASE HeartbeatWrites \/ SaveWrites \/ AutosaveDue
    <3>1. beat'.at # "write"
      <4>1. CASE HeartbeatWrites
        <5>1. beat'.at \in {"check", "conditions"}
          BY <4>1 DEF HeartbeatWrites, Done, Rest
        <5> QED BY <5>1
      <4>2. CASE SaveWrites
        <5>1. beat'.at \in {"saveread", "attack"}
          BY <4>2 DEF SaveWrites, Done, Rest
        <5> QED BY <5>1
      <4>3. CASE AutosaveDue
        BY <4>3 DEF AutosaveDue, Rest
      <4> QED
        BY <2>5, <4>1, <4>2, <4>3
    <3> QED
      BY <1>n, <3>1
  <2>6. CASE CheckDeath \/ HeartbeatCharges
    <3> DEFINE at == IF HeartbeatCharges THEN "read"
                     ELSE IF Loss /\ world[Next1].dead THEN "charge" ELSE "vitals"
    <3>1. beat' = [beat EXCEPT !.at = at] /\ at # "write"
      BY <2>6 DEF CheckDeath, HeartbeatCharges, Goto, Beats
    <3> HIDE DEF at
    <3> QED
      BY <1>b, <1>n, <3>1 DEF Beat
  <2>7. CASE StoreConditions \/ HeartbeatFails
            \/ \E hit \in SUBSET Players, p \in Players : CreaturesFail(hit, p)
    <3>1. beat' = Rest \/ beat' = [Rest EXCEPT !.at = "failed"]
      BY <2>7 DEF StoreConditions, HeartbeatFails, CreaturesFail
    <3> QED
      BY <1>n, <3>1 DEF Rest
  <2> QED
    BY <1>3, <2>1, <2>2, <2>3, <2>4, <2>5, <2>6, <2>7 DEF Heartbeat, Persist
<1>4. CASE UNCHANGED vars
  BY <1>4, <1>u DEF vars
<1> QED
  BY <1>1, <1>2, <1>3, <1>4 DEF Next

LEMMA AccountsInit == Init => Accounts
<1> SUFFICES ASSUME Init PROVE Accounts
  OBVIOUS
<1>0. \A p \in Players : Dues[p] = 0
  BY DEF Init, Dues
<1>1. WorldAccounts
  BY DEF Init, WorldAccounts, Online
<1>2. RowAccounts
  BY <1>0 DEF Init, RowAccounts, Alive
<1>3. CopyAccounts
  BY <1>0, OwnerType DEF Init, CopyAccounts, Alive
<1>4. JobAccounts
  BY <1>0 DEF Init, JobAccounts, NoJob, Alive
<1>5. BeatAccounts
  BY DEF Init, BeatAccounts, Rest
<1> QED
  BY <1>1, <1>2, <1>3, <1>4, <1>5 DEF Accounts

(* World, rows, the copies of logins, the jobs of sessions and the heartbeat  *)
(* never hold more losses than the character has died, but for the logins     *)
(* that brought a death back into the world before it was charged.            *)
THEOREM LifecycleAccounts == Spec => [](TypeOK /\ Owned /\ Accounts)
<1>1. Init => Accounts
  BY AccountsInit
<1>2. TypeOK /\ Owned /\ Accounts /\ [Next]_vars => Accounts'
  BY WorldStep, RowStep, CopyStep, JobStep, BeatStep DEF Accounts
<1> QED
  BY <1>1, <1>2, LifecycleOwners, PTL DEF Spec

LEMMA NoneChargedTwice == TypeOK /\ Accounts => ChargedOncePerDeath
<1> SUFFICES ASSUME TypeOK, Accounts PROVE ChargedOncePerDeath
  OBVIOUS
<1>1. ASSUME NEW p \in Online PROVE world[p].lost <= deaths[p] + revived[p]
  <2>1. world[p].lost <= Dues[p] /\ p \in Players
    BY WorldLost DEF Accounts
  <2> QED
    BY <2>1 DEF Dues
<1>2. ASSUME NEW p \in Players PROVE rows[p].lost <= deaths[p] + revived[p]
  BY DEF Accounts, RowAccounts, Dues
<1> QED
  BY <1>1, <1>2 DEF ChargedOncePerDeath

(* A death is charged at most once, whoever charges and stores it, as long as *)
(* no login brings it back into the world uncharged; then once more.          *)
THEOREM LifecycleCharges == Spec => []ChargedOncePerDeath
BY LifecycleAccounts, NoneChargedTwice, PTL

----------------------------------------------------------------------------
(* What becomes of a death *)

(* What is on its way to a row as a death is the life of somebody dead. *)
JobOfDeath(s) ==
  /\ job[s].at = "swallow" => job[s].part = "vitals"
  /\ job[s].at = "write" /\ job[s].part # "vitals" => job[s].life.dead

BeatOfDeath == beat.at = "write" /\ beat.part # "vitals" => beat.life.dead

StoredDeaths == (\A s \in Sessions : JobOfDeath(s)) /\ BeatOfDeath

LEMMA StoredDead ==
  ASSUME NEW row \in Life, NEW life \in Life, NEW part \in Parts,
         row.dead, part # "vitals" => life.dead
  PROVE  Stored(row, part, life).dead
<1>1. CASE part = "vitals"
  BY <1>1 DEF Stored, Life
<1>2. CASE part = "death"
  BY <1>2 DEF Stored, Life
<1>3. CASE part = "loss"
  BY <1>3 DEF Stored
<1> QED
  BY <1>1, <1>2, <1>3 DEF Parts

LEMMA StoredDeathsInit == Init => StoredDeaths
BY DEF Init, StoredDeaths, JobOfDeath, BeatOfDeath, NoJob, Rest

(* The death of a player that is hit dead. *)
LEMMA HitOtherDead ==
  ASSUME TypeOK, NEW s \in Sessions, NEW q \in Players, HitOther(s, q),
         Lethal(q) \/ world[q].dead
  PROVE  world'[q].dead /\ q \in Online
<1>1. q \in Online /\ world[q] \in Life /\ world[q].health > 0
  BY DEF HitOther, TypeOK
<1>2. world'[q] = IF world[q].dead THEN Hurt(world[q]) ELSE Struck(world[q])
  BY <1>1 DEF HitOther, TypeOK
<1>3. CASE world[q].dead
  BY <1>1, <1>2, <1>3 DEF Hurt, Life
<1>4. CASE ~world[q].dead
  <2>1. Struck(world[q]).dead
    BY <1>1, <1>4, StruckType DEF Lethal
  <2> QED
    BY <1>1, <1>2, <1>4, <2>1
<1> QED
  BY <1>1, <1>3, <1>4

LEMMA JobOfDeathStep ==
  ASSUME TypeOK, Owned, StoredDeaths, [Next]_vars, NEW r \in Sessions
  PROVE  JobOfDeath(r)'
<1>0. JobOfDeath(r)
  BY DEF StoredDeaths
<1>u. ASSUME job'[r] = job[r] PROVE JobOfDeath(r)'
  BY <1>0, <1>u DEF JobOfDeath
<1>v. ASSUME NEW new, job'[r] = new, new.at \in {"none", "charge", "read"} PROVE JobOfDeath(r)'
  BY <1>v DEF JobOfDeath
<1>s. ASSUME NEW q, NEW part, job'[r] = Store(q, part), part = "vitals" \/ world'[q].dead
      PROVE  JobOfDeath(r)'
  <2>1. job'[r].at = "write" /\ job'[r].part = part /\ job'[r].life = world'[q]
    BY <1>s DEF Store
  <2> QED
    BY <1>s, <2>1 DEF JobOfDeath
<1>1. ASSUME NEW s \in Sessions, Session(s) PROVE JobOfDeath(r)'
  <2>1. CASE s # r
    <3>1. job'[r] = job[r]
      <4>1. job' = job \/ \E new : job' = [job EXCEPT ![s] = new]
        BY <1>1 DEF Session, Login, Obligations, ReadRow, RespawnRead, RespawnWrite, Reread,
       Register, Refused, GetTown,
           Hydrate, Baseline, End, ObserveDeath, ObeyKick, ChargeFails, Gone, Swallow,
           ChargeDeath, ReadLoss, WriteRow, SufferCondition, Regenerate, Drink, HitOther,
           Afterwards
      <4> QED BY <2>1, <4>1 DEF TypeOK
    <3> QED BY <1>u, <3>1
  <2>2. CASE s = r
    <3> DEFINE p == Owner[r]
    <3>1. CASE End(r) \/ ObeyKick(r) \/ ChargeFails(r) \/ WriteRow(r)
      <4>1. job'[r] = NoJob
        BY <3>1 DEF End, ObeyKick, ChargeFails, Gone, WriteRow, TypeOK
      <4> QED BY <1>v, <4>1 DEF NoJob
    <3>2. CASE SufferCondition(r)
      <4>1. \/ job'[r] = Store(p, "vitals")
            \/ job'[r] = Store(p, "death") /\ world'[p].dead
            \/ job'[r] = [NoJob EXCEPT !.at = "charge", !.who = p]
        BY <3>2 DEF SufferCondition, Afterwards, TypeOK
      <4>2. [NoJob EXCEPT !.at = "charge", !.who = p].at = "charge"
        BY ChargeJobType, OwnerType
      <4> QED
        BY <1>s, <1>v, <4>1, <4>2
    <3>3. CASE Regenerate(r)
      <4>1. job'[r] = Store(p, "vitals")
        BY <3>3 DEF Regenerate, TypeOK
      <4> QED
        BY <4>1 DEF JobOfDeath, Store
    <3>4. CASE Drink(r)
      <4>1. job'[r].at = "swallow" /\ job'[r].part = "vitals"
        BY <3>4 DEF Drink, TypeOK
      <4> QED
        BY <4>1 DEF JobOfDeath
    <3>5. CASE \E q \in Players : HitOther(r, q)
      <4> PICK q \in Players : HitOther(r, q)
        BY <3>5
      <4>1. \/ job'[r] = Store(q, "vitals")
            \/ job'[r] = Store(q, "death") /\ Lethal(q)
            \/ job'[r] = [NoJob EXCEPT !.at = "charge", !.who = q]
        BY DEF HitOther, TypeOK
      <4>2. [NoJob EXCEPT !.at = "charge", !.who = q].at = "charge"
        BY ChargeJobType
      <4>3. Lethal(q) => world'[q].dead
        BY HitOtherDead
      <4> QED
        BY <1>s, <1>v, <4>1, <4>2, <4>3
    <3>6. CASE Swallow(r)
      <4>1. job' = [job EXCEPT ![r] = [job[r] EXCEPT !.at = "write"]] /\ job[r].at = "swallow"
        BY <3>6 DEF Swallow
      <4>2. job'[r].at = "write" /\ job'[r].part = job[r].part
        BY <4>1 DEF TypeOK, Job
      <4> QED
        BY <1>0, <4>1, <4>2 DEF JobOfDeath
    <3>7. CASE ChargeDeath(r)
      <4>1. job' = [job EXCEPT ![r] = [job[r] EXCEPT !.at = "read"]]
        BY <3>7 DEF ChargeDeath
      <4>2. job'[r].at = "read"
        BY <4>1 DEF TypeOK, Job
      <4> QED
        BY <4>2 DEF JobOfDeath
    <3>8. CASE ReadLoss(r)
      <4>1. job'[r].at = "write" /\ job'[r].life = world[job[r].who] /\ world[job[r].who].dead
        BY <3>8 DEF ReadLoss, LossStorable, TypeOK
      <4> QED
        BY <4>1 DEF JobOfDeath
    <3> QED
      BY <1>1, <1>u, <2>2, <3>1, <3>2, <3>3, <3>4, <3>5, <3>6, <3>7, <3>8 DEF Session, Login,
         Obligations, ReadRow, RespawnRead, RespawnWrite, Reread,
       Register, Refused, GetTown, Hydrate, Baseline,
         ObserveDeath
  <2> QED
    BY <2>1, <2>2
<1>2. ASSUME NEW p \in Players, Kick(p) \/ Heal(p) PROVE JobOfDeath(r)'
  BY <1>2, <1>u DEF Kick, Heal, threads
<1>3. CASE Heartbeat
  BY <1>3, <1>u DEF Heartbeat, Persist, CreaturesHit, CreaturesFail, CheckDeath, threads,
            HeartbeatCharges, HeartbeatReads, ReadVitals, ReadState, HeartbeatWrites,
            StoreConditions, HeartbeatFails, AutosaveDue, SaveReads, SaveWrites
<1>4. CASE UNCHANGED vars
  BY <1>4, <1>u DEF vars, threads
<1> QED
  BY <1>1, <1>2, <1>3, <1>4 DEF Next

LEMMA BeatOfDeathStep ==
  ASSUME TypeOK, Owned, StoredDeaths, [Next]_vars
  PROVE  BeatOfDeath'
<1>0. BeatOfDeath
  BY DEF StoredDeaths
<1>b. beat \in Beat /\ beat.life \in Life
  BY DEF TypeOK, Beat
<1>u. ASSUME UNCHANGED beat PROVE BeatOfDeath'
  BY <1>0, <1>u DEF BeatOfDeath
<1>n. ASSUME beat'.at # "write" \/ beat'.part = "vitals" \/ beat'.life.dead PROVE BeatOfDeath'
  BY <1>n DEF BeatOfDeath
<1>1. ASSUME NEW s \in Sessions, Session(s) PROVE BeatOfDeath'
  BY <1>1, <1>u DEF Session, Login, Obligations, ReadRow, RespawnRead, RespawnWrite, Reread,
       Register, Refused, GetTown,
       Hydrate, Baseline, End, ObserveDeath, ObeyKick, ChargeFails, Swallow, ChargeDeath,
       ReadLoss, WriteRow, SufferCondition, Regenerate, Drink, HitOther
<1>2. ASSUME NEW p \in Players, Kick(p) \/ Heal(p) PROVE BeatOfDeath'
  BY <1>2, <1>u DEF Kick, Heal
<1>3. CASE Heartbeat
  <2>1. CASE HeartbeatReads
    <3> DEFINE life == world[Next1]
               one == [beat EXCEPT !.at = "write"]
               two == [one EXCEPT !.part = "loss"]
               three == [two EXCEPT !.life = life]
    <3>1. beat' = three /\ life.dead
      BY <2>1 DEF HeartbeatReads, LossStorable
    <3>2. one \in Beat
      BY <1>b, StageNames DEF Beat
    <3>3. two \in Beat
      <4> HIDE DEF one
      <4> QED BY <3>2 DEF Beat, Parts
    <3>4. three.life = life
      <4> HIDE DEF two, life
      <4> QED BY <3>3 DEF Beat
    <3> HIDE DEF three, life
    <3> QED
      BY <1>n, <3>1, <3>4
  <2>2. CASE ReadState
    <3> DEFINE now == world[Next1]
               part == IF now.dead THEN "death" ELSE "vitals"
               one == [beat EXCEPT !.at = "write"]
               two == [one EXCEPT !.part = part]
               first == [beat.life EXCEPT !.dead = now.dead]
               life == [first EXCEPT !.charged = now.charged]
               three == [two EXCEPT !.life = life]
    <3>1. beat' = three
      BY <1>b, <2>2 DEF ReadState, Beat
    <3>2. part \in Parts /\ now.dead \in BOOLEAN /\ now.charged \in BOOLEAN
      BY <2>2, LifeFields DEF ReadState, TypeOK, Parts
    <3>3. one \in Beat
      BY <1>b, StageNames DEF Beat
    <3>4. two \in Beat /\ two.part = part
      <4> HIDE DEF one, part
      <4> QED BY <3>2, <3>3 DEF Beat
    <3>5. first \in Life /\ first.dead = now.dead
      <4> HIDE DEF now
      <4> QED BY <1>b, <3>2 DEF Life
    <3>6. life.dead = now.dead
      <4> HIDE DEF first, now
      <4> QED BY <3>5 DEF Life
    <3>7. three.part = part /\ three.life = life
      <4> HIDE DEF two, life, part
      <4> QED BY <3>4 DEF Beat
    <3>8. part = "vitals" \/ now.dead
      BY <3>2
    <3> HIDE DEF three, part, life, now
    <3> QED
      BY <1>n, <3>1, <3>6, <3>7, <3>8
  <2>3. ASSUME NEW hit \in SUBSET Players, CreaturesHit(hit) PROVE BeatOfDeath'
    <3> DEFINE one == [beat EXCEPT !.at = "check"]
               two == [one EXCEPT !.todo = hit]
               three == [two EXCEPT !.hit = hit]
    <3>1. beat' = three
      BY <2>3 DEF CreaturesHit
    <3>2. one \in Beat /\ one.at = "check"
      BY <1>b, StageNames DEF Beat
    <3>3. two \in Beat /\ two.at = "check"
      <4> HIDE DEF one
      <4> QED BY <3>2 DEF Beat
    <3>4. three.at = "check"
      <4> HIDE DEF two
      <4> QED BY <3>3 DEF Beat
    <3> HIDE DEF three
    <3> QED
      BY <1>n, <3>1, <3>4
  <2>4. CASE ReadVitals \/ SaveReads
    <3> DEFINE at == IF ReadVitals THEN "state" ELSE "savewrite"
               life == IF ReadVitals THEN [beat.life EXCEPT !.health = world[Next1].health]
                       ELSE world[Next1]
               one == [beat EXCEPT !.at = at]
               two == [one EXCEPT !.life = life]
    <3>1. beat' = two
      BY <1>b, <2>4 DEF ReadVitals, SaveReads, Beats, Beat
    <3>2. at # "write" /\ at \in Stages
      BY StageNames
    <3>3. one \in Beat /\ one.at = at
      <4> HIDE DEF at
      <4> QED BY <1>b, <3>2 DEF Beat
    <3>4. two.at = at
      <4> HIDE DEF one, life, at
      <4> QED BY <3>3 DEF Beat
    <3> HIDE DEF two, at
    <3> QED
      BY <1>n, <3>1, <3>2, <3>4
  <2>5. CASE HeartbeatWrites \/ SaveWrites \/ AutosaveDue
    <3>1. CASE HeartbeatWrites
      <4>1. beat'.at \in {"check", "conditions"}
        BY <3>1 DEF HeartbeatWrites, Done, Rest
      <4> QED BY <1>n, <4>1
    <3>2. CASE SaveWrites
      <4>1. beat'.at \in {"saveread", "attack"}
        BY <3>2 DEF SaveWrites, Done, Rest
      <4> QED BY <1>n, <4>1
    <3>3. CASE AutosaveDue
      <4>1. beat'.at # "write"
        BY <3>3 DEF AutosaveDue, Rest
      <4> QED BY <1>n, <4>1
    <3> QED
      BY <2>5, <3>1, <3>2, <3>3
  <2>6. CASE CheckDeath \/ HeartbeatCharges
    <3> DEFINE at == IF HeartbeatCharges THEN "read"
                     ELSE IF Loss /\ world[Next1].dead THEN "charge" ELSE "vitals"
    <3>1. beat' = [beat EXCEPT !.at = at] /\ at # "write"
      BY <2>6 DEF CheckDeath, HeartbeatCharges, Goto, Beats
    <3> HIDE DEF at
    <3> QED
      BY <1>b, <1>n, <3>1 DEF Beat
  <2>7. CASE StoreConditions \/ HeartbeatFails
            \/ \E hit \in SUBSET Players, p \in Players : CreaturesFail(hit, p)
    <3>1. beat' = Rest \/ beat' = [Rest EXCEPT !.at = "failed"]
      BY <2>7 DEF StoreConditions, HeartbeatFails, CreaturesFail
    <3> QED
      BY <1>n, <3>1 DEF Rest
  <2> QED
    BY <1>3, <2>1, <2>2, <2>3, <2>4, <2>5, <2>6, <2>7 DEF Heartbeat, Persist
<1>4. CASE UNCHANGED vars
  BY <1>4, <1>u DEF vars
<1> QED
  BY <1>1, <1>2, <1>3, <1>4 DEF Next

LEMMA StoredDeathsStep == TypeOK /\ Owned /\ StoredDeaths /\ [Next]_vars => StoredDeaths'
<1> SUFFICES ASSUME TypeOK, Owned, StoredDeaths, [Next]_vars PROVE StoredDeaths'
  OBVIOUS
<1>1. ASSUME NEW r \in Sessions PROVE JobOfDeath(r)'
  BY JobOfDeathStep
<1> QED
  BY <1>1, BeatOfDeathStep DEF StoredDeaths, JobOfDeath

(* Only a login takes a death out of a row. *)
LEMMA RowsStayDead ==
  ASSUME TypeOK, StoredDeaths, Next, NEW p \in Players, rows[p].dead, ~rows'[p].dead
  PROVE  \E s \in Sessions : Owner[s] = p /\ phase[s] = "restore"
<1>r. rows[p] \in Life /\ rows' # rows
  BY DEF TypeOK
<1>w. ASSUME NEW q, NEW part \in Parts, NEW life \in Life, part # "vitals" => life.dead,
             rows' = [rows EXCEPT ![q] = Stored(rows[q], part, life)]
      PROVE  FALSE
  <2>1. CASE q = p
    <3>1. rows'[p] = Stored(rows[p], part, life)
      BY <1>w, <2>1 DEF TypeOK
    <3> QED
      BY <1>r, <1>w, <3>1, StoredDead
  <2>2. CASE q # p
    BY <1>w, <2>2 DEF TypeOK
  <2> QED
    BY <2>1, <2>2
<1>1. ASSUME NEW s \in Sessions, Session(s)
      PROVE  \E r \in Sessions : Owner[r] = p /\ phase[r] = "restore"
  <2>1. CASE RespawnWrite(s)
    BY <1>r, <2>1 DEF RespawnWrite, TypeOK
  <2>2. CASE WriteRow(s)
    <3>1. job[s].part \in Parts /\ job[s].life \in Life
      BY JobFields DEF TypeOK
    <3>2. job[s].part # "vitals" => job[s].life.dead
      BY <2>2 DEF WriteRow, StoredDeaths, JobOfDeath
    <3>3. rows' = [rows EXCEPT ![job[s].who] = Stored(rows[job[s].who], job[s].part, job[s].life)]
      BY <2>2 DEF WriteRow
    <3> QED
      BY <1>w, <3>1, <3>2, <3>3
  <2>3. CASE ~RespawnWrite(s) /\ ~WriteRow(s)
    BY <1>1, <1>r, <2>3 DEF Session, Login, Obligations, ReadRow, RespawnRead, Reread, Register,
         Refused, GetTown, Hydrate, Baseline, End, ObserveDeath, ObeyKick, ChargeFails, Gone, Swallow, ChargeDeath,
         ReadLoss, SufferCondition, Regenerate, Drink, HitOther
  <2> QED
    BY <2>1, <2>2, <2>3
<1>2. ASSUME NEW q \in Players, Kick(q) \/ Heal(q) PROVE FALSE
  BY <1>2, <1>r DEF Kick, Heal
<1>3. ASSUME Heartbeat PROVE FALSE
  <2>0. beat.part \in Parts /\ beat.life \in Life
    BY DEF TypeOK, Beat
  <2>1. CASE HeartbeatWrites
    <3>1. rows' = [rows EXCEPT ![Next1] = Stored(rows[Next1], beat.part, beat.life)]
      BY <2>1 DEF HeartbeatWrites
    <3>2. beat.part # "vitals" => beat.life.dead
      BY <2>1 DEF HeartbeatWrites, Beats, StoredDeaths, BeatOfDeath
    <3> QED
      BY <1>w, <2>0, <3>1, <3>2
  <2>2. CASE SaveWrites
    <3>1. rows' = [rows EXCEPT ![Next1] = Stored(rows[Next1], "vitals", beat.life)]
      BY <2>2 DEF SaveWrites
    <3> QED
      BY <1>w, <2>0, <3>1 DEF Parts
  <2> QED
    BY <1>3, <1>r, <2>1, <2>2 DEF Heartbeat, Persist, CreaturesHit, CreaturesFail, CheckDeath,
            HeartbeatCharges, HeartbeatReads, ReadVitals, ReadState, StoreConditions,
            HeartbeatFails, AutosaveDue, SaveReads
<1> QED
  BY <1>1, <1>2, <1>3 DEF Next

(* No thread stores a life over a death that has reached the database: only *)
(* a login that respawns the character does.                                *)
THEOREM LifecycleDeathsStayStored == Spec => DeathsStayStored
<1>1. Spec => [](TypeOK /\ Owned /\ StoredDeaths)
  BY StoredDeathsInit, StoredDeathsStep, LifecycleOwners, PTL DEF Spec
<1>2. TypeOK /\ StoredDeaths /\ [Next]_vars =>
        [\A p \in Players : rows[p].dead /\ ~rows'[p].dead =>
            \E s \in Sessions : Owner[s] = p /\ phase[s] = "restore"]_vars
  BY RowsStayDead
<1> QED
  BY <1>1, <1>2, PTL DEF Spec, DeathsStayStored

(* The death a session is about to tell of is its own player's. *)
OwnDeath(s) == /\ job[s].who = Owner[s]
               /\ \/ job[s].at \in {"charge", "read"}
                  \/ job[s].at = "write" /\ job[s].part # "vitals"

Tells(s) == /\ told[s] <= 1
            /\ told[s] > 0 => observed[s]
            /\ observed[s] => phase[s] = "playing" /\ world[Owner[s]].dead
            /\ OwnDeath(s) => told[s] = 0 /\ world[Owner[s]].dead

LEMMA TellsInit == Init => \A s \in Sessions : Tells(s)
BY OwnerType, LifecycleAssumption DEF Init, Tells, OwnDeath, NoJob, Nobody

(* The dead stay dead for as long as their session plays. *)
LEMMA DeadStays ==
  ASSUME TypeOK, Owned, [Next]_vars, NEW s \in Sessions,
         phase[s] = "playing", phase'[s] = "playing", world[Owner[s]].dead
  PROVE  world'[Owner[s]].dead
<1> DEFINE p == Owner[s]
<1>0. p \in Online /\ p \in Players /\ world[p] \in Life
  BY PlayingInWorld, OwnerType
<1>h. ASSUME NEW q, NEW health, world' = [world EXCEPT ![q] = [world[q] EXCEPT !.health = health]]
      PROVE  world'[p].dead
  BY <1>0, <1>h DEF TypeOK, Life
<1>k. ASSUME NEW q, NEW life, world' = [world EXCEPT ![q] = life], q = p => life.dead
      PROVE  world'[p].dead
  BY <1>0, <1>k DEF TypeOK
<1>1. ASSUME NEW r \in Sessions, Session(r) PROVE world'[p].dead
  <2>1. CASE Register(r)
    BY <1>0, <2>1 DEF Register, With, Online
  <2>2. CASE Hydrate(r)
    <3>1. Owner[r] # p
      <4>1. phase[r] = "hydrate"
        BY <2>2 DEF Hydrate
      <4> QED BY <4>1 DEF Owned, Inside
    <3>2. world'[p] = world[p]
      BY <1>0, <2>2, <3>1 DEF Hydrate, TypeOK
    <3> QED BY <3>2
  <2>3. CASE End(r) \/ ObeyKick(r) \/ ChargeFails(r)
    <3>1. Gone(r) /\ phase[r] \in Inside
      BY <2>3 DEF End, ObeyKick, ChargeFails, Ready, Playing, Inside, Owned
    <3>2. r # s
      BY <3>1, PhaseNames, GoesType DEF Gone
    <3>3. Owner[r] # p
      BY <3>1, <3>2 DEF Owned, Inside
    <3>4. p \in Online' /\ world'[p] = world[p]
      BY <1>0, <3>1, <3>3, GoneType
    <3> QED BY <3>4
  <2>4. CASE SufferCondition(r)
    <3>1. Owner[r] # p /\ HitPlayer(Owner[r])
      BY <2>4 DEF SufferCondition
    <3> QED
      BY <1>k, <3>1 DEF HitPlayer
  <2>5. CASE Regenerate(r) \/ Swallow(r)
    <3>1. \E health : world' = [world EXCEPT ![Owner[r]] = [world[Owner[r]] EXCEPT !.health = health]]
      BY <2>5 DEF Regenerate, Swallow
    <3> QED
      BY <1>h, <3>1
  <2>6. CASE \E q \in Players : HitOther(r, q)
    <3> PICK q \in Players : HitOther(r, q)
      BY <2>6
    <3>1. CASE q = p
      BY <3>1, HitOtherDead
    <3>2. CASE q # p
      <4>1. world'[p] = world[p]
        BY <1>0, <3>2 DEF HitOther, TypeOK
      <4> QED BY <4>1
    <3> QED BY <3>1, <3>2
  <2>7. CASE ChargeDeath(r)
    <3> DEFINE q == job[r].who
    <3>1. q \in Online /\ world[q] \in Life /\ world[q].dead
      BY <2>7 DEF ChargeDeath, Chargeable, TypeOK
    <3>2. Charged(world[q]).dead
      BY <3>1, ChargedType
    <3>3. world' = [world EXCEPT ![q] = Charged(world[q])]
      BY <2>7 DEF ChargeDeath
    <3> QED
      BY <1>k, <3>2, <3>3
  <2> QED
    BY <1>1, <2>1, <2>2, <2>3, <2>4, <2>5, <2>6, <2>7 DEF Session, Login, Obligations, ReadRow,
       RespawnRead, RespawnWrite, Reread, Refused, GetTown, Baseline, ObserveDeath, ReadLoss, WriteRow, Drink
<1>2. ASSUME NEW q \in Players, Kick(q) \/ Heal(q) PROVE world'[p].dead
  BY <1>2, <1>h DEF Kick, Heal
<1>3. CASE Heartbeat
  <2>1. ASSUME NEW hit \in SUBSET Players, CreaturesStrike(hit) PROVE world'[p].dead
    <3>1. p \notin hit
      BY <2>1 DEF CreaturesStrike, Killable
    <3>2. world'[p] = world[p]
      BY <1>0, <2>1, <3>1 DEF CreaturesStrike
    <3> QED BY <3>2
  <2>2. CASE HeartbeatCharges
    <3>1. Next1 \in Online /\ world[Next1] \in Life /\ world[Next1].dead
      BY <2>2 DEF HeartbeatCharges, Chargeable, TypeOK
    <3>2. Charged(world[Next1]).dead
      BY <3>1, ChargedType
    <3>3. world' = [world EXCEPT ![Next1] = Charged(world[Next1])]
      BY <2>2 DEF HeartbeatCharges
    <3> QED
      BY <1>k, <3>2, <3>3
  <2> QED
    BY <1>3, <2>1, <2>2 DEF Heartbeat, Persist, CreaturesHit, CreaturesFail, CheckDeath,
            HeartbeatReads, ReadVitals, ReadState, HeartbeatWrites, StoreConditions,
            HeartbeatFails, AutosaveDue, SaveReads, SaveWrites
<1>4. CASE UNCHANGED vars
  BY <1>4 DEF vars
<1> QED
  BY <1>1, <1>2, <1>3, <1>4 DEF Next

(* Nobody but its own session changes what a session knows and has to do. *)
LEMMA TellsStays ==
  ASSUME TypeOK, Owned, [Next]_vars, NEW s \in Sessions, Tells(s),
         phase'[s] = phase[s], observed'[s] = observed[s], told'[s] = told[s],
         OwnDeath(s)' => OwnDeath(s)
  PROVE  Tells(s)'
<1>1. OwnDeath(s) => phase[s] = "playing"
  BY DEF OwnDeath, Owned
<1>2. observed[s] \/ OwnDeath(s) => world'[Owner[s]].dead
  BY <1>1, DeadStays DEF Tells
<1> QED
  BY <1>2 DEF Tells

LEMMA TellsStep ==
  ASSUME TypeOK, Owned, StoredDeaths, [Next]_vars, NEW s \in Sessions, Tells(s)
  PROVE  Tells(s)'
<1> DEFINE p == Owner[s]
<1>0. /\ told[s] \in Nat /\ observed[s] \in BOOLEAN /\ p \in Players
      /\ NoJob.who # p /\ NoJob.at = "none"
  BY OwnerType, LifecycleAssumption DEF TypeOK, NoJob, Nobody
<1>q. phase[s] # "playing" => told[s] = 0 /\ ~observed[s] /\ ~OwnDeath(s)
  BY <1>0 DEF Tells, OwnDeath, Owned
<1>u. ASSUME phase'[s] = phase[s], observed'[s] = observed[s], told'[s] = told[s], job'[s] = job[s]
      PROVE  Tells(s)'
  <2>1. OwnDeath(s)' => OwnDeath(s)
    BY <1>u DEF OwnDeath
  <2> QED
    BY <1>u, <2>1, TellsStays
(* A session that gets a job that is no death of its own. *)
<1>v. ASSUME phase' = phase, observed' = observed, told' = told,
             \/ job'[s].who # p
             \/ job'[s].at \in {"none", "swallow"}
             \/ job'[s].at = "write" /\ job'[s].part = "vitals"
      PROVE  Tells(s)'
  <2>1. ~OwnDeath(s)'
    BY <1>v DEF OwnDeath
  <2> QED
    BY <1>v, <2>1, TellsStays
<1>1. ASSUME NEW r \in Sessions, Session(r) PROVE Tells(s)'
  <2>1. CASE r # s
    <3>1. /\ \E new : phase' = [phase EXCEPT ![r] = new] \/ phase' = phase
          /\ \E new : observed' = [observed EXCEPT ![r] = new] \/ observed' = observed
          /\ \E new : told' = [told EXCEPT ![r] = new] \/ told' = told
          /\ \E new : job' = [job EXCEPT ![r] = new] \/ job' = job
      BY <1>1 DEF Session, Login, Obligations, ReadRow, RespawnRead, RespawnWrite, Reread,
       Register, Refused, GetTown,
           Hydrate, Baseline, End, ObserveDeath, ObeyKick, ChargeFails, Gone, Goes, Swallow,
           ChargeDeath, ReadLoss, WriteRow, TellDeath, SufferCondition, Regenerate, Drink,
           HitOther, Afterwards
    <3>2. phase'[s] = phase[s] /\ observed'[s] = observed[s] /\ told'[s] = told[s]
          /\ job'[s] = job[s]
      BY <2>1, <3>1 DEF TypeOK
    <3> QED BY <1>u, <3>2
  <2>2. ASSUME \/ ReadRow(s) \/ RespawnRead(s) \/ RespawnWrite(s) \/ Reread(s)
               \/ Register(s) \/ Refused(s) \/ GetTown(s) \/ Hydrate(s)
        PROVE  Tells(s)'
    <3>1. phase[s] # "playing" /\ job' = job /\ observed' = observed /\ told' = told
      BY <2>2 DEF ReadRow, RespawnRead, RespawnWrite, Reread,
       Register, Refused, GetTown, Hydrate
    <3>2. ~OwnDeath(s)'
      BY <1>q, <3>1 DEF OwnDeath
    <3> QED
      BY <1>q, <3>1, <3>2 DEF Tells
  <2>3. ASSUME Baseline(s) PROVE Tells(s)'
    <3>1. /\ phase[s] # "playing" /\ job' = job /\ told' = told /\ world' = world
          /\ observed' = [observed EXCEPT ![s] = world[p].dead]
          /\ phase' = [phase EXCEPT ![s] = "playing"]
      BY <2>3 DEF Baseline, Goes
    <3>2. observed'[s] = world[p].dead /\ phase'[s] = "playing"
      BY <3>1 DEF TypeOK
    <3>3. ~OwnDeath(s)'
      BY <1>q, <3>1 DEF OwnDeath
    <3> QED
      BY <1>q, <3>1, <3>2, <3>3 DEF Tells
  <2>4. ASSUME End(s) \/ ObeyKick(s) \/ ChargeFails(s) PROVE Tells(s)'
    <3>1. job'[s] = NoJob /\ ~observed'[s] /\ told'[s] = 0
      BY <2>4 DEF End, ObeyKick, ChargeFails, Gone, TypeOK
    <3>2. ~OwnDeath(s)'
      BY <1>0, <3>1 DEF OwnDeath
    <3> QED
      BY <3>1, <3>2 DEF Tells
  <2>5. ASSUME ObserveDeath(s) PROVE Tells(s)'
    <3>1. /\ phase[s] = "playing" /\ phase' = phase /\ world' = world
          /\ job[s] = NoJob /\ job' = job
          /\ world[p].dead /\ ~observed[s]
      BY <2>5 DEF ObserveDeath, Ready, Playing
    <3>2. observed'[s] = TRUE /\ told'[s] = told[s] + 1
      BY <2>5 DEF ObserveDeath, TypeOK
    <3>3. ~OwnDeath(s)'
      BY <1>0, <3>1 DEF OwnDeath
    <3>4. told[s] = 0
      BY <1>0, <3>1 DEF Tells
    <3> QED
      BY <3>1, <3>2, <3>3, <3>4 DEF Tells
  <2>6. ASSUME Swallow(s) PROVE Tells(s)'
    <3>1. job' = [job EXCEPT ![s] = [job[s] EXCEPT !.at = "write"]] /\ job[s].at = "swallow"
          /\ phase' = phase /\ observed' = observed /\ told' = told
      BY <2>6 DEF Swallow
    <3>2. job'[s].at = "write" /\ job'[s].part = job[s].part
      BY <3>1 DEF TypeOK, Job
    <3>3. job[s].part = "vitals"
      BY <3>1 DEF StoredDeaths, JobOfDeath
    <3> QED
      BY <1>v, <3>1, <3>2, <3>3
  <2>7. ASSUME ChargeDeath(s) \/ ReadLoss(s) PROVE Tells(s)'
    <3>1. job'[s].who = job[s].who /\ job[s].at \in {"charge", "read"}
      <4>1. CASE ChargeDeath(s)
        <5>1. job' = [job EXCEPT ![s] = [job[s] EXCEPT !.at = "read"]] /\ job[s].at = "charge"
          BY <4>1 DEF ChargeDeath
        <5> QED BY <5>1 DEF TypeOK, Job
      <4>2. CASE ReadLoss(s)
        BY <4>2 DEF ReadLoss, TypeOK
      <4> QED BY <2>7, <4>1, <4>2
    <3>2. OwnDeath(s)' => OwnDeath(s)
      BY <3>1 DEF OwnDeath
    <3>3. phase' = phase /\ observed' = observed /\ told' = told
      BY <2>7 DEF ChargeDeath, ReadLoss
    <3> QED
      BY <3>2, <3>3, TellsStays
  <2>8. ASSUME WriteRow(s) PROVE Tells(s)'
    <3> DEFINE died == job[s].part # "vitals" /\ job[s].who = p
    <3>1. /\ job'[s] = NoJob /\ world' = world /\ phase' = phase /\ job[s].at = "write"
          /\ told' = [told EXCEPT ![s] = IF died THEN told[s] + 1 ELSE told[s]]
          /\ observed' = [observed EXCEPT ![s] = observed[s] \/ died]
      BY <2>8 DEF WriteRow, TellDeath, TypeOK
    <3>2. /\ told'[s] = IF died THEN told[s] + 1 ELSE told[s]
          /\ observed'[s] = (observed[s] \/ died)
      <4> HIDE DEF died
      <4> QED BY <3>1 DEF TypeOK
    <3>3. died => OwnDeath(s)
      BY <3>1 DEF OwnDeath
    <3>4. died => told[s] = 0 /\ world[p].dead /\ phase[s] = "playing"
      BY <3>1, <3>3 DEF Tells, Owned
    <3>5. ~OwnDeath(s)'
      BY <1>0, <3>1 DEF OwnDeath
    <3> HIDE DEF died
    <3>6. CASE died
      <4>1. observed'[s]
        BY <3>2, <3>6, Zenon
      <4>2. told'[s] <= 1
        BY <3>2, <3>4, <3>6
      <4>3. phase'[s] = "playing" /\ world'[Owner[s]].dead
        BY <3>1, <3>4, <3>6
      <4> QED
        BY <3>5, <4>1, <4>2, <4>3 DEF Tells
    <3>7. CASE ~died
      <4>1. told'[s] = told[s] /\ (observed'[s] <=> observed[s])
        BY <3>2, <3>7
      <4> QED
        BY <3>1, <3>5, <4>1 DEF Tells
    <3> QED
      BY <3>6, <3>7
  <2>9. ASSUME SufferCondition(s) PROVE Tells(s)'
    <3>1. /\ ~world[p].dead /\ Afterwards(s, p)
          /\ phase' = phase /\ observed' = observed /\ told' = told
      BY <2>9 DEF SufferCondition
    <3>2. ~observed[s] /\ told[s] = 0
      BY <1>0, <3>1 DEF Tells
    <3>3. ~world'[p].dead => job'[s].at = "write" /\ job'[s].part = "vitals"
      BY <3>1 DEF Afterwards, Store, TypeOK
    <3>4. OwnDeath(s)' => world'[p].dead
      BY <3>3 DEF OwnDeath
    <3> QED
      BY <3>1, <3>2, <3>4 DEF Tells
  <2>10. ASSUME Regenerate(s) \/ Drink(s) PROVE Tells(s)'
    <3>1. \/ job'[s].at = "write" /\ job'[s].part = "vitals"
          \/ job'[s].at = "swallow"
      BY <2>10 DEF Regenerate, Drink, Store, TypeOK
    <3>2. phase' = phase /\ observed' = observed /\ told' = told
      BY <2>10 DEF Regenerate, Drink
    <3> QED
      BY <1>v, <3>1, <3>2
  <2>11. ASSUME NEW q \in Players, HitOther(s, q) PROVE Tells(s)'
    <3> DEFINE charge == [NoJob EXCEPT !.at = "charge", !.who = q]
    <3>0. q # p
      BY <2>11 DEF HitOther
    <3>1. charge.who = q
      <4> DEFINE one == [NoJob EXCEPT !.at = "charge"]
                 two == [one EXCEPT !.who = q]
      <4>1. one \in Job
        BY NothingType DEF Job
      <4>2. two.who = q
        <5> HIDE DEF one
        <5> QED BY <4>1 DEF Job
      <4> QED BY <4>2
    <3>2. \/ job'[s] = Store(q, "vitals")
          \/ job'[s] = Store(q, "death")
          \/ job'[s] = charge
      BY <2>11 DEF HitOther, TypeOK
    <3> HIDE DEF charge
    <3>3. job'[s].who = q
      BY <3>1, <3>2 DEF Store
    <3>4. phase' = phase /\ observed' = observed /\ told' = told
      BY <2>11 DEF HitOther
    <3> QED
      BY <1>v, <3>0, <3>3, <3>4
  <2> QED
    BY <1>1, <2>1, <2>2, <2>3, <2>4, <2>5, <2>6, <2>7, <2>8, <2>9, <2>10, <2>11
       DEF Session, Login, Obligations
<1>2. ASSUME NEW q \in Players, Kick(q) \/ Heal(q) PROVE Tells(s)'
  BY <1>2, <1>u DEF Kick, Heal, threads
<1>3. CASE Heartbeat
  BY <1>3, <1>u DEF Heartbeat, Persist, CreaturesHit, CreaturesFail, CheckDeath, threads,
            HeartbeatCharges, HeartbeatReads, ReadVitals, ReadState, HeartbeatWrites,
            StoreConditions, HeartbeatFails, AutosaveDue, SaveReads, SaveWrites
<1>4. CASE UNCHANGED vars
  BY <1>4, <1>u DEF vars, threads
<1> QED
  BY <1>1, <1>2, <1>3, <1>4 DEF Next

LEMMA AllTellsStep ==
  TypeOK /\ Owned /\ StoredDeaths /\ (\A s \in Sessions : Tells(s)) /\ [Next]_vars
    => (\A s \in Sessions : Tells(s))'
<1> SUFFICES ASSUME TypeOK, Owned, StoredDeaths, \A s \in Sessions : Tells(s), [Next]_vars,
                    NEW s \in Sessions
             PROVE  Tells(s)'
  BY DEF Tells, OwnDeath
<1> QED
  BY TellsStep

(* A session tells its client of its own death at most once, though the top *)
(* of the loop and the storing of the death both tell.                      *)
THEOREM LifecycleToldOnce == Spec => []ToldOnce
<1>1. Init => StoredDeaths /\ \A s \in Sessions : Tells(s)
  BY StoredDeathsInit, TellsInit
<1>2. TypeOK /\ Owned /\ (StoredDeaths /\ \A s \in Sessions : Tells(s)) /\ [Next]_vars
        => (StoredDeaths /\ \A s \in Sessions : Tells(s))'
  BY StoredDeathsStep, AllTellsStep
<1>3. (\A s \in Sessions : Tells(s)) => ToldOnce
  BY DEF Tells, ToldOnce
<1> QED
  BY <1>1, <1>2, <1>3, LifecycleOwners, PTL DEF Spec

=============================================================================
