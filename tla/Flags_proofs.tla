------------------------------ MODULE Flags_proofs ------------------------------
(* Proofs about Flags, for any number of sprites and things and any timeouts.    *)
EXTENDS Flags, WellFoundedInduction, TLAPS

LEMMA SmallestSlot ==
    ASSUME NEW T \in SUBSET Nat, T # {} PROVE \E k \in T : \A j \in T : k <= j
<1> DEFINE Below == {ss \in Nat \X Nat : ss[1] < ss[2]}
<1>1. IsWellFoundedOn(Below, Nat)
  BY NatLessThanWellFounded DEF OpToRel
<1>2. \E k \in T : \A j \in T : <<j, k>> \notin Below
  <2> HIDE DEF Below
  <2> QED
    BY <1>1, WFMin
<1>3. PICK k \in T : \A j \in T : <<j, k>> \notin Below
  BY <1>2
<1>4. ASSUME NEW j \in T PROVE k <= j
  <2>1. ~(j < k)
    BY <1>3
  <2> QED
    BY <2>1
<1> QED
  BY <1>4

-----------------------------------------------------------------------------
(* Things *)

LEMMA NewThingFields ==
    ASSUME NEW s \in Flag \cup {0, Parachute}
    PROVE  /\ NewThing(s) \in Thing
           /\ NewThing(s).active = TRUE
           /\ NewThing(s).style = s
           /\ NewThing(s).holdingsprite = 0
           /\ NewThing(s).inbase = (s \in Flag)
BY TimesAssumption, SpritesAssumption DEF NewThing, Thing, Flag, Alpha, Bravo, Parachute

LEMMA DeadFields ==
    ASSUME NEW th \in Thing
    PROVE  /\ Dead(th) \in Thing
           /\ Dead(th).active = FALSE
           /\ Dead(th).style = th.style
           /\ Dead(th).holdingsprite = th.holdingsprite
           /\ Dead(th).inbase = FALSE
<1> DEFINE a == [th EXCEPT !.active = FALSE]
           b == [a EXCEPT !.inbase = FALSE]
           c == [b EXCEPT !.timeout = 0]
<1>1. a \in Thing /\ a.active = FALSE /\ a.style = th.style /\ a.holdingsprite = th.holdingsprite
  BY DEF Thing
<1> HIDE DEF a
<1>2. b \in Thing /\ b.active = FALSE /\ b.style = th.style /\ b.holdingsprite = th.holdingsprite
      /\ b.inbase = FALSE
  BY <1>1 DEF Thing
<1> HIDE DEF b
<1>3. c \in Thing /\ c.active = FALSE /\ c.style = th.style /\ c.holdingsprite = th.holdingsprite
      /\ c.inbase = FALSE
  BY <1>2, TimesAssumption DEF Thing
<1>4. Dead(th) = c
  BY DEF Dead, Thing, a, b, c
<1> QED
  BY <1>3, <1>4

LEMMA HolderFields ==
    ASSUME NEW th \in Thing, NEW h \in 0 .. MaxSprites
    PROVE  LET x == [th EXCEPT !.holdingsprite = h]
           IN  /\ x \in Thing
               /\ x.active = th.active
               /\ x.style = th.style
               /\ x.holdingsprite = h
               /\ x.inbase = th.inbase
BY DEF Thing

LEMMA TimeoutFields ==
    ASSUME NEW th \in Thing, NEW t \in 0 .. FlagTimeout
    PROVE  LET x == [th EXCEPT !.timeout = t]
           IN  /\ x \in Thing
               /\ x.active = th.active
               /\ x.style = th.style
               /\ x.holdingsprite = th.holdingsprite
               /\ x.inbase = th.inbase
BY DEF Thing

-----------------------------------------------------------------------------
(* Worlds *)

Worlds == [thing : [Things -> Thing], held : [Sprites -> 0 .. MaxThings], score : [Flag -> Nat]]

LEMMA SetThings ==
    ASSUME NEW w \in Worlds, NEW f \in [Things -> Thing]
    PROVE  LET v == [w EXCEPT !.thing = f]
           IN  v \in Worlds /\ v.thing = f /\ v.held = w.held /\ v.score = w.score
BY DEF Worlds

LEMMA SetThing ==
    ASSUME NEW w \in Worlds, NEW k \in Things, NEW th \in Thing
    PROVE  LET v == [w EXCEPT !.thing[k] = th]
           IN  /\ v \in Worlds
               /\ v.thing = [w.thing EXCEPT ![k] = th]
               /\ v.held = w.held
               /\ v.score = w.score
BY DEF Worlds

LEMMA SetHandles ==
    ASSUME NEW w \in Worlds, NEW g \in [Sprites -> 0 .. MaxThings]
    PROVE  LET v == [w EXCEPT !.held = g]
           IN  v \in Worlds /\ v.thing = w.thing /\ v.held = g /\ v.score = w.score
BY DEF Worlds

LEMMA SetHandle ==
    ASSUME NEW w \in Worlds, NEW i \in Sprites, NEW k \in 0 .. MaxThings
    PROVE  LET v == [w EXCEPT !.held[i] = k]
           IN  /\ v \in Worlds
               /\ v.thing = w.thing
               /\ v.held = [w.held EXCEPT ![i] = k]
               /\ v.score = w.score
BY DEF Worlds

LEMMA SetScores ==
    ASSUME NEW w \in Worlds, NEW s \in [Flag -> Nat]
    PROVE  LET v == [w EXCEPT !.score = s]
           IN  v \in Worlds /\ v.thing = w.thing /\ v.held = w.held /\ v.score = s
BY DEF Worlds

-----------------------------------------------------------------------------
(* In a sound world there is one flag a team, and what is in its base is a flag.  *)
(* Most calls keep a world sound and hand nothing to anybody: who is a holder     *)
(* afterwards was the holder of the same thing before.                            *)

One(w) ==
    \A k, l \in Things :
        w.thing[k].active /\ w.thing[l].active /\ IsFlag(w.thing[k]) /\ w.thing[k].style = w.thing[l].style
            => k = l

Based(w) == \A l \in Things : w.thing[l].inbase => w.thing[l].active /\ IsFlag(w.thing[l])

Sound(w) == w \in Worlds /\ One(w) /\ Based(w)

NoNewHolder(w, v) ==
    \A l \in Things : v.thing[l].holdingsprite # 0 =>
        /\ v.thing[l].holdingsprite = w.thing[l].holdingsprite
        /\ v.thing[l].style = w.thing[l].style
        /\ v.thing[l].active => w.thing[l].active

Quiet(w, v) == Sound(v) /\ NoNewHolder(w, v) /\ v.score = w.score

LEMMA QuietTwice ==
    ASSUME NEW u, NEW v, NEW w, Quiet(u, v), Quiet(v, w)
    PROVE  Quiet(u, w)
BY DEF Quiet, NoNewHolder

LEMMA QuietNever == ASSUME NEW w, Sound(w) PROVE Quiet(w, w)
BY DEF Quiet, NoNewHolder

LEMMA ThingTyped == ASSUME NEW w \in Worlds, NEW k \in Things PROVE w.thing[k] \in Thing
BY DEF Worlds

\* Each thing stays what it is, but for its holder and its timeout, or dies.
LEMMA QuietChange ==
    ASSUME NEW w, Sound(w), NEW v \in Worlds, v.score = w.score,
           \A l \in Things :
               /\ v.thing[l].style = w.thing[l].style
               /\ v.thing[l].active => w.thing[l].active
               /\ v.thing[l].holdingsprite \in {0, w.thing[l].holdingsprite}
               /\ v.thing[l].inbase => v.thing[l].active /\ w.thing[l].inbase
    PROVE  Quiet(w, v)
<1>1. NoNewHolder(w, v)
  BY DEF NoNewHolder
<1>2. One(v)
  BY DEF Sound, One, IsFlag
<1>3. Based(v)
  BY DEF Sound, Based, IsFlag
<1> QED
  BY <1>1, <1>2, <1>3 DEF Quiet, Sound

LEMMA QuietHandles ==
    ASSUME NEW w, Sound(w), NEW v \in Worlds, v.thing = w.thing, v.score = w.score
    PROVE  Quiet(w, v)
BY DEF Quiet, NoNewHolder, Sound, One, Based

LEMMA LetGoFacts ==
    ASSUME NEW w \in Worlds, NEW i \in 0 .. MaxSprites
    PROVE  /\ LetGo(w, i) \in Worlds
           /\ LetGo(w, i).thing = w.thing
           /\ LetGo(w, i).held = [j \in Sprites |-> IF j = i THEN 0 ELSE w.held[j]]
           /\ LetGo(w, i).score = w.score
<1> DEFINE g == [j \in Sprites |-> IF j = i THEN 0 ELSE w.held[j]]
<1>1. g \in [Sprites -> 0 .. MaxThings]
  BY ThingsAssumption DEF Worlds
<1>2. LetGo(w, i) = [w EXCEPT !.held = g]
  BY DEF LetGo
<1> HIDE DEF g
<1>3. /\ LetGo(w, i) \in Worlds
      /\ LetGo(w, i).thing = w.thing
      /\ LetGo(w, i).held = g
      /\ LetGo(w, i).score = w.score
  BY <1>1, <1>2, SetHandles
<1> QED
  BY <1>3 DEF g

LEMMA LetGoHeld ==
    ASSUME NEW w \in Worlds, NEW i \in 0 .. MaxSprites, NEW j \in Sprites
    PROVE  LetGo(w, i).held[j] = IF j = i THEN 0 ELSE w.held[j]
<1>1. LetGo(w, i).held = [l \in Sprites |-> IF l = i THEN 0 ELSE w.held[l]]
  BY LetGoFacts
<1> QED
  BY <1>1

LEMMA QuietLetGo ==
    ASSUME NEW w, Sound(w), NEW i \in 0 .. MaxSprites
    PROVE  Quiet(w, LetGo(w, i))
<1>1. w \in Worlds
  BY DEF Sound
<1>2. LetGo(w, i) \in Worlds /\ LetGo(w, i).thing = w.thing /\ LetGo(w, i).score = w.score
  BY <1>1, LetGoFacts
<1> QED
  BY <1>2, QuietHandles

LEMMA KillThingFacts ==
    ASSUME NEW w \in Worlds, NEW k \in Things
    PROVE  /\ KillThing(w, k) \in Worlds
           /\ KillThing(w, k).thing = [l \in Things |-> IF l = k THEN Dead(w.thing[l]) ELSE w.thing[l]]
           /\ KillThing(w, k).held = w.held
           /\ KillThing(w, k).score = w.score
<1>1. Dead(w.thing[k]) \in Thing
  BY ThingTyped, DeadFields
<1>2. KillThing(w, k) = [w EXCEPT !.thing[k] = Dead(w.thing[k])]
  BY DEF KillThing
<1>3. /\ KillThing(w, k) \in Worlds
      /\ KillThing(w, k).thing = [w.thing EXCEPT ![k] = Dead(w.thing[k])]
      /\ KillThing(w, k).held = w.held
      /\ KillThing(w, k).score = w.score
  BY <1>1, <1>2, SetThing
<1>4. DOMAIN w.thing = Things
  BY DEF Worlds
<1> QED
  BY <1>3, <1>4

LEMMA KillThingEach ==
    ASSUME NEW w \in Worlds, NEW k \in Things, NEW l \in Things
    PROVE  KillThing(w, k).thing[l] = IF l = k THEN Dead(w.thing[l]) ELSE w.thing[l]
<1>1. KillThing(w, k).thing = [m \in Things |-> IF m = k THEN Dead(w.thing[m]) ELSE w.thing[m]]
  BY KillThingFacts
<1> QED
  BY <1>1

LEMMA QuietKillThing ==
    ASSUME NEW w, Sound(w), NEW k \in Things
    PROVE  Quiet(w, KillThing(w, k))
<1> DEFINE v == KillThing(w, k)
<1>1. /\ v \in Worlds /\ v.score = w.score
      /\ \A l \in Things : v.thing[l] = IF l = k THEN Dead(w.thing[l]) ELSE w.thing[l]
  BY KillThingFacts, KillThingEach DEF Sound
<1> HIDE DEF v
<1>2. ASSUME NEW l \in Things
      PROVE  /\ v.thing[l].style = w.thing[l].style
             /\ v.thing[l].active => w.thing[l].active
             /\ v.thing[l].holdingsprite \in {0, w.thing[l].holdingsprite}
             /\ v.thing[l].inbase => v.thing[l].active /\ w.thing[l].inbase
  <2>1. w.thing[l] \in Thing
    BY ThingTyped DEF Sound
  <2>2. CASE l = k
    BY <1>1, <2>1, <2>2, DeadFields
  <2>3. CASE l # k
    BY <1>1, <2>3 DEF Sound, Based
  <2> QED
    BY <2>2, <2>3
<1>3. Quiet(w, v)
  BY <1>1, <1>2, QuietChange
<1> QED
  BY <1>3 DEF v

-----------------------------------------------------------------------------
(* Creation, the heart of it: the flags of the same team die. *)

LEMMA CreateThingFacts ==
    ASSUME NEW w \in Worlds, NEW k \in Things, NEW s \in Flag \cup {0, Parachute}
    PROVE  /\ CreateThing(w, k, s) \in Worlds
           /\ \A l \in Things :
                CreateThing(w, k, s).thing[l] =
                    IF l = k THEN NewThing(s)
                    ELSE IF s \in Flag /\ w.thing[l].style = s THEN Dead(w.thing[l])
                    ELSE w.thing[l]
           /\ CreateThing(w, k, s).held = w.held
           /\ CreateThing(w, k, s).score = w.score
<1> DEFINE f == [l \in Things |->
                    IF l = k THEN NewThing(s)
                    ELSE IF s \in Flag /\ w.thing[l].style = s THEN Dead(w.thing[l])
                    ELSE w.thing[l]]
<1>1. f \in [Things -> Thing]
  BY ThingTyped, DeadFields, NewThingFields
<1>2. CreateThing(w, k, s) = [w EXCEPT !.thing = f]
  BY DEF CreateThing
<1> HIDE DEF f
<1>3. /\ CreateThing(w, k, s) \in Worlds
      /\ CreateThing(w, k, s).thing = f
      /\ CreateThing(w, k, s).held = w.held
      /\ CreateThing(w, k, s).score = w.score
  BY <1>1, <1>2, SetThings
<1> QED
  BY <1>3 DEF f

LEMMA QuietCreateThing ==
    ASSUME NEW w, Sound(w), NEW k \in Things, NEW s \in Flag \cup {0, Parachute}
    PROVE  Quiet(w, CreateThing(w, k, s))
<1> DEFINE v == CreateThing(w, k, s)
<1>1. /\ v \in Worlds /\ v.score = w.score
      /\ \A l \in Things :
            v.thing[l] = IF l = k THEN NewThing(s)
                         ELSE IF s \in Flag /\ w.thing[l].style = s THEN Dead(w.thing[l])
                         ELSE w.thing[l]
  BY CreateThingFacts DEF Sound
<1> HIDE DEF v
<1>2. v.thing[k].style = s /\ v.thing[k].holdingsprite = 0
      /\ v.thing[k].active /\ v.thing[k].inbase = (s \in Flag)
  BY <1>1, NewThingFields
<1>3. ASSUME NEW l \in Things, l # k
      PROVE  /\ v.thing[l].style = w.thing[l].style
             /\ v.thing[l].holdingsprite = w.thing[l].holdingsprite
             /\ v.thing[l].active => w.thing[l].active /\ ~(s \in Flag /\ w.thing[l].style = s)
             /\ v.thing[l].inbase => w.thing[l].inbase /\ v.thing[l].active
  <2>1. w.thing[l] \in Thing
    BY ThingTyped DEF Sound
  <2>2. CASE s \in Flag /\ w.thing[l].style = s
    <3>1. v.thing[l] = Dead(w.thing[l])
      BY <1>1, <1>3, <2>2
    <3> QED
      BY <3>1, <2>1, DeadFields
  <2>3. CASE ~(s \in Flag /\ w.thing[l].style = s)
    <3>1. v.thing[l] = w.thing[l]
      BY <1>1, <1>3, <2>3
    <3> QED
      BY <3>1, <2>3 DEF Sound, Based
  <2> QED
    BY <2>2, <2>3
<1>4. NoNewHolder(w, v)
  BY <1>2, <1>3 DEF NoNewHolder
<1>5. One(v)
  <2> SUFFICES ASSUME NEW l \in Things, NEW m \in Things,
                      v.thing[l].active, v.thing[m].active, IsFlag(v.thing[l]),
                      v.thing[l].style = v.thing[m].style
               PROVE  l = m
    BY DEF One
  <2>1. CASE l = k /\ m # k
    BY <2>1, <1>2, <1>3 DEF IsFlag
  <2>2. CASE l # k /\ m = k
    BY <2>2, <1>2, <1>3 DEF IsFlag
  <2>3. CASE l # k /\ m # k
    BY <2>3, <1>3 DEF IsFlag, Sound, One
  <2> QED
    BY <2>1, <2>2, <2>3
<1>6. Based(v)
  BY <1>2, <1>3 DEF Based, IsFlag, Sound
<1>7. Quiet(w, v)
  BY <1>1, <1>4, <1>5, <1>6 DEF Quiet, Sound
<1> QED
  BY <1>7 DEF v

LEMMA FirstFreeIsFree ==
    ASSUME NEW w \in Worlds, Free(w) # {}
    PROVE  FirstFree(w) \in Things /\ ~w.thing[FirstFree(w)].active
<1>1. Free(w) \in SUBSET Nat
  BY DEF Free, Things
<1>2. \E k \in Free(w) : \A l \in Free(w) : k <= l
  BY <1>1, SmallestSlot
<1>3. FirstFree(w) \in Free(w)
  BY <1>2 DEF FirstFree
<1> QED
  BY <1>3 DEF Free

LEMMA QuietCreateSomewhere ==
    ASSUME NEW w, Sound(w), NEW s \in Flag
    PROVE  Quiet(w, CreateSomewhere(w, s))
<1>1. CASE Free(w) = {}
  BY <1>1, QuietNever DEF CreateSomewhere
<1>2. CASE Free(w) # {}
  <2>1. FirstFree(w) \in Things
    BY <1>2, FirstFreeIsFree DEF Sound
  <2>2. Quiet(w, CreateThing(w, FirstFree(w), s))
    BY <2>1, QuietCreateThing
  <2> QED
    BY <1>2, <2>2 DEF CreateSomewhere
<1> QED
  BY <1>1, <1>2

LEMMA ThingRanges ==
    ASSUME NEW w \in Worlds, NEW k \in Things
    PROVE  /\ w.thing[k].style \in Flag \cup {0, Parachute}
           /\ w.thing[k].holdingsprite \in 0 .. MaxSprites
           /\ w.thing[k].active \in BOOLEAN
           /\ w.thing[k].inbase \in BOOLEAN
           /\ w.thing[k].timeout \in 0 .. FlagTimeout
BY ThingTyped DEF Thing

LEMMA QuietRespawnThing ==
    ASSUME NEW w, Sound(w), NEW k \in Things
    PROVE  Quiet(w, RespawnThing(w, k))
<1> DEFINE h == w.thing[k].holdingsprite
           s == w.thing[k].style
           u == LetGo(w, h)
<1>1. h \in 0 .. MaxSprites /\ s \in Flag \cup {0, Parachute}
  BY ThingRanges DEF Sound
<1>2. RespawnThing(w, k) = CreateThing(u, k, s)
  BY DEF RespawnThing
<1> HIDE DEF h, s
<1>3. Quiet(w, u)
  BY <1>1, QuietLetGo
<1> HIDE DEF u
<1>4. Quiet(u, CreateThing(u, k, s))
  BY <1>1, <1>3, QuietCreateThing DEF Quiet
<1> QED
  BY <1>2, <1>3, <1>4, QuietTwice

LEMMA RespawnThingFacts ==
    ASSUME NEW w \in Worlds, NEW k \in Things
    PROVE  /\ RespawnThing(w, k) \in Worlds
           /\ \A l \in Things :
                RespawnThing(w, k).thing[l] =
                    IF l = k THEN NewThing(w.thing[k].style)
                    ELSE IF w.thing[k].style \in Flag /\ w.thing[l].style = w.thing[k].style
                    THEN Dead(w.thing[l])
                    ELSE w.thing[l]
           /\ RespawnThing(w, k).held =
                [j \in Sprites |-> IF j = w.thing[k].holdingsprite THEN 0 ELSE w.held[j]]
           /\ RespawnThing(w, k).score = w.score
<1> DEFINE h == w.thing[k].holdingsprite
           s == w.thing[k].style
           u == LetGo(w, h)
<1>1. h \in 0 .. MaxSprites /\ s \in Flag \cup {0, Parachute}
  BY ThingRanges
<1>2. RespawnThing(w, k) = CreateThing(u, k, s)
  BY DEF RespawnThing
<1>3. u \in Worlds /\ u.thing = w.thing /\ u.score = w.score
      /\ u.held = [j \in Sprites |-> IF j = h THEN 0 ELSE w.held[j]]
  BY <1>1, LetGoFacts
<1> HIDE DEF h, s, u
<1>4. /\ CreateThing(u, k, s) \in Worlds
      /\ \A l \in Things :
            CreateThing(u, k, s).thing[l] =
                IF l = k THEN NewThing(s)
                ELSE IF s \in Flag /\ u.thing[l].style = s THEN Dead(u.thing[l])
                ELSE u.thing[l]
      /\ CreateThing(u, k, s).held = u.held
      /\ CreateThing(u, k, s).score = u.score
  BY <1>1, <1>3, CreateThingFacts
<1>5. /\ RespawnThing(w, k) \in Worlds
      /\ \A l \in Things :
            RespawnThing(w, k).thing[l] =
                IF l = k THEN NewThing(s)
                ELSE IF s \in Flag /\ w.thing[l].style = s THEN Dead(w.thing[l])
                ELSE w.thing[l]
      /\ RespawnThing(w, k).held = [j \in Sprites |-> IF j = h THEN 0 ELSE w.held[j]]
      /\ RespawnThing(w, k).score = w.score
  BY <1>2, <1>3, <1>4
<1> QED
  BY <1>5 DEF h, s

-----------------------------------------------------------------------------
(* What happens to a sprite *)

LEMMA ReleaseAllFacts ==
    ASSUME NEW w \in Worlds, NEW i \in Sprites
    PROVE  /\ ReleaseAll(w, i) \in Worlds
           /\ \A k \in Things :
                ReleaseAll(w, i).thing[k] =
                    IF w.thing[k].holdingsprite = i /\ IsFlag(w.thing[k])
                    THEN [w.thing[k] EXCEPT !.holdingsprite = 0] ELSE w.thing[k]
           /\ ReleaseAll(w, i).held = w.held
           /\ ReleaseAll(w, i).score = w.score
<1> DEFINE f == [k \in Things |-> IF w.thing[k].holdingsprite = i /\ IsFlag(w.thing[k])
                                  THEN [w.thing[k] EXCEPT !.holdingsprite = 0] ELSE w.thing[k]]
<1>1. f \in [Things -> Thing]
  BY ThingTyped, HolderFields, SpritesAssumption
<1>2. ReleaseAll(w, i) = [w EXCEPT !.thing = f]
  BY DEF ReleaseAll, HeldBy
<1> HIDE DEF f
<1>3. /\ ReleaseAll(w, i) \in Worlds
      /\ ReleaseAll(w, i).thing = f
      /\ ReleaseAll(w, i).held = w.held
      /\ ReleaseAll(w, i).score = w.score
  BY <1>1, <1>2, SetThings
<1> QED
  BY <1>3 DEF f

LEMMA QuietReleaseAll ==
    ASSUME NEW w, Sound(w), NEW i \in Sprites
    PROVE  /\ Quiet(w, ReleaseAll(w, i))
           /\ \A k \in Things :
                IsFlag(ReleaseAll(w, i).thing[k]) => ReleaseAll(w, i).thing[k].holdingsprite # i
<1> DEFINE v == ReleaseAll(w, i)
<1>1. /\ v \in Worlds /\ v.score = w.score
      /\ \A k \in Things :
            v.thing[k] = IF w.thing[k].holdingsprite = i /\ IsFlag(w.thing[k])
                         THEN [w.thing[k] EXCEPT !.holdingsprite = 0] ELSE w.thing[k]
  BY ReleaseAllFacts DEF Sound
<1> HIDE DEF v
<1>2. ASSUME NEW k \in Things
      PROVE  /\ v.thing[k].style = w.thing[k].style
             /\ v.thing[k].active = w.thing[k].active
             /\ v.thing[k].holdingsprite \in {0, w.thing[k].holdingsprite}
             /\ v.thing[k].inbase = w.thing[k].inbase
             /\ IsFlag(v.thing[k]) => v.thing[k].holdingsprite # i
  <2>1. w.thing[k] \in Thing /\ 0 \in 0 .. MaxSprites /\ 0 # i
    BY ThingTyped, SpritesAssumption DEF Sound, Sprites
  <2>2. CASE w.thing[k].holdingsprite = i /\ IsFlag(w.thing[k])
    <3>1. v.thing[k] = [w.thing[k] EXCEPT !.holdingsprite = 0]
      BY <1>1, <2>2
    <3> QED
      BY <3>1, <2>1, HolderFields
  <2>3. CASE ~(w.thing[k].holdingsprite = i /\ IsFlag(w.thing[k]))
    <3>1. v.thing[k] = w.thing[k]
      BY <1>1, <2>3
    <3> QED
      BY <3>1, <2>3
  <2> QED
    BY <2>2, <2>3
<1>3. \A l \in Things :
        /\ v.thing[l].style = w.thing[l].style
        /\ v.thing[l].active => w.thing[l].active
        /\ v.thing[l].holdingsprite \in {0, w.thing[l].holdingsprite}
        /\ v.thing[l].inbase => v.thing[l].active /\ w.thing[l].inbase
  BY <1>2 DEF Sound, Based
<1>4. Quiet(w, v)
  BY <1>1, <1>3, QuietChange
<1> QED
  BY <1>2, <1>4 DEF v

\* One thing is given another holder or another timeout.
LEMMA ThingChanged ==
    ASSUME NEW w, Sound(w), NEW k \in Things, NEW th \in Thing, NEW v \in Worlds,
           \A l \in Things : v.thing[l] = IF l = k THEN th ELSE w.thing[l],
           v.held = w.held, v.score = w.score,
           th.style = w.thing[k].style, th.active = w.thing[k].active, th.inbase = w.thing[k].inbase
    PROVE  /\ Sound(v)
           /\ th.holdingsprite \in {0, w.thing[k].holdingsprite} => Quiet(w, v)
<1>1. \A l \in Things :
        /\ v.thing[l].style = w.thing[l].style
        /\ v.thing[l].active = w.thing[l].active
        /\ v.thing[l].inbase = w.thing[l].inbase
  OBVIOUS
<1>2. One(v) /\ Based(v)
  BY <1>1 DEF Sound, One, Based, IsFlag
<1>3. Sound(v)
  BY <1>2 DEF Sound
<1>4. th.holdingsprite \in {0, w.thing[k].holdingsprite} => NoNewHolder(w, v)
  BY <1>1 DEF NoNewHolder
<1> QED
  BY <1>3, <1>4 DEF Quiet

LEMMA Dropped ==
    ASSUME NEW w, Sound(w), NEW k \in Things
    PROVE  LET v == [w EXCEPT !.thing[k].holdingsprite = 0]
           IN  /\ Quiet(w, v)
               /\ \A l \in Things : v.thing[l] =
                    IF l = k THEN [w.thing[k] EXCEPT !.holdingsprite = 0] ELSE w.thing[l]
               /\ v.held = w.held
<1> DEFINE th == [w.thing[k] EXCEPT !.holdingsprite = 0]
           v == [w EXCEPT !.thing[k].holdingsprite = 0]
<1>1. w.thing[k] \in Thing /\ 0 \in 0 .. MaxSprites
  BY ThingTyped, SpritesAssumption DEF Sound
<1>2. /\ th \in Thing /\ th.style = w.thing[k].style /\ th.active = w.thing[k].active
      /\ th.inbase = w.thing[k].inbase /\ th.holdingsprite = 0
  BY <1>1, HolderFields
<1>3. v = [w EXCEPT !.thing[k] = th] /\ w \in Worlds
  BY DEF Sound
<1> HIDE DEF th, v
<1>4. v \in Worlds /\ v.thing = [w.thing EXCEPT ![k] = th] /\ v.held = w.held /\ v.score = w.score
  BY <1>2, <1>3, SetThing
<1>5. \A l \in Things : v.thing[l] = IF l = k THEN th ELSE w.thing[l]
  BY <1>3, <1>4 DEF Worlds
<1>6. Quiet(w, v)
  BY <1>2, <1>4, <1>5, ThingChanged
<1> QED
  BY <1>4, <1>5, <1>6 DEF th, v

LEMMA Timed ==
    ASSUME NEW w, Sound(w), NEW k \in Things, NEW t \in 0 .. FlagTimeout
    PROVE  LET v == [w EXCEPT !.thing[k].timeout = t]
           IN  /\ Quiet(w, v)
               /\ \A l \in Things : v.thing[l] =
                    IF l = k THEN [w.thing[k] EXCEPT !.timeout = t] ELSE w.thing[l]
               /\ v.held = w.held
<1> DEFINE th == [w.thing[k] EXCEPT !.timeout = t]
           v == [w EXCEPT !.thing[k].timeout = t]
<1>1. w.thing[k] \in Thing
  BY ThingTyped DEF Sound
<1>2. /\ th \in Thing /\ th.style = w.thing[k].style /\ th.active = w.thing[k].active
      /\ th.inbase = w.thing[k].inbase /\ th.holdingsprite = w.thing[k].holdingsprite
  BY <1>1, TimeoutFields
<1>3. v = [w EXCEPT !.thing[k] = th] /\ w \in Worlds
  BY DEF Sound
<1> HIDE DEF th, v
<1>4. v \in Worlds /\ v.thing = [w.thing EXCEPT ![k] = th] /\ v.held = w.held /\ v.score = w.score
  BY <1>2, <1>3, SetThing
<1>5. \A l \in Things : v.thing[l] = IF l = k THEN th ELSE w.thing[l]
  BY <1>3, <1>4 DEF Worlds
<1>6. Quiet(w, v)
  BY <1>2, <1>4, <1>5, ThingChanged
<1> QED
  BY <1>4, <1>5, <1>6 DEF th, v

LEMMA QuietKilled ==
    ASSUME NEW w, Sound(w), NEW i \in Sprites
    PROVE  Quiet(w, Killed(w, i))
<1> DEFINE k == w.held[i]
           u == [w EXCEPT !.thing[k].holdingsprite = 0]
<1>1. k \in 0 .. MaxThings /\ i \in 0 .. MaxSprites
  <2>1. w.held \in [Sprites -> 0 .. MaxThings]
    BY DEF Sound, Worlds
  <2> QED
    BY <2>1, SpritesAssumption DEF Sprites
<1>2. CASE k # 0 /\ IsFlag(w.thing[k])
  <2>1. k \in Things
    BY <1>1, <1>2, ThingsAssumption DEF Things
  <2>2. Killed(w, i) = LetGo(u, i)
    BY <1>2 DEF Killed
  <2> HIDE DEF k
  <2>3. Quiet(w, u)
    BY <2>1, Dropped
  <2> HIDE DEF u
  <2>4. Quiet(u, LetGo(u, i))
    BY <1>1, <2>3, QuietLetGo DEF Quiet
  <2> QED
    BY <2>2, <2>3, <2>4, QuietTwice
<1>3. CASE ~(k # 0 /\ IsFlag(w.thing[k]))
  BY <1>3, QuietNever DEF Killed
<1> QED
  BY <1>2, <1>3

LEMMA QuietAllRespawned ==
    ASSUME NEW w, Sound(w), NEW i \in Sprites
    PROVE  /\ Quiet(w, AllRespawned(w, i))
           /\ AllRespawned(w, i).held = w.held
           /\ \A k \in Things : AllRespawned(w, i).thing[k].holdingsprite # i
<1> DEFINE mine == {k \in Things : w.thing[k].holdingsprite = i}
           Rivals(k) == {l \in mine : IsFlag(w.thing[l]) /\ w.thing[l].style = w.thing[k].style}
           New(k) == NewThing(w.thing[k].style)
           g(k) == IF k \in mine
                   THEN IF \E l \in Rivals(k) : l > k THEN Dead(New(k)) ELSE New(k)
                   ELSE IF Rivals(k) # {} THEN Dead(w.thing[k]) ELSE w.thing[k]
           f == [k \in Things |-> g(k)]
           v == AllRespawned(w, i)
<1>1. v = [w EXCEPT !.thing = f]
  BY DEF AllRespawned, HeldBy
<1>2. ASSUME NEW k \in Things
      PROVE  /\ w.thing[k] \in Thing /\ New(k) \in Thing
             /\ New(k).style = w.thing[k].style /\ New(k).holdingsprite = 0
             /\ New(k).inbase = (w.thing[k].style \in Flag) /\ New(k).active
             /\ w.thing[k].holdingsprite \in 0 .. MaxSprites
  BY ThingTyped, ThingRanges, NewThingFields DEF Sound
<1>3. ASSUME NEW k \in Things
      PROVE  /\ g(k) \in Thing
             /\ g(k).style = w.thing[k].style
             /\ g(k).holdingsprite = IF k \in mine THEN 0 ELSE w.thing[k].holdingsprite
             /\ g(k).active /\ k \in mine => ~\E l \in Rivals(k) : l > k
             /\ g(k).active /\ k \notin mine => Rivals(k) = {} /\ w.thing[k].active
             /\ g(k).inbase => g(k).active /\ IsFlag(g(k))
  <2>1. CASE k \in mine /\ \E l \in Rivals(k) : l > k
    <3>1. g(k) = Dead(New(k))
      BY <2>1
    <3>2. /\ Dead(New(k)) \in Thing
          /\ Dead(New(k)).active = FALSE
          /\ Dead(New(k)).style = w.thing[k].style
          /\ Dead(New(k)).holdingsprite = 0
          /\ Dead(New(k)).inbase = FALSE
      BY <1>2, DeadFields
    <3> HIDE DEF g, New, Rivals, mine
    <3> QED
      BY <2>1, <3>1, <3>2
  <2>2. CASE k \in mine /\ ~\E l \in Rivals(k) : l > k
    <3>1. g(k) = New(k)
      BY <2>2
    <3> HIDE DEF g, New, Rivals, mine
    <3> QED
      BY <2>2, <3>1, <1>2 DEF IsFlag
  <2>3. CASE k \notin mine /\ Rivals(k) # {}
    <3>1. g(k) = Dead(w.thing[k])
      BY <2>3
    <3>2. /\ Dead(w.thing[k]) \in Thing
          /\ Dead(w.thing[k]).active = FALSE
          /\ Dead(w.thing[k]).style = w.thing[k].style
          /\ Dead(w.thing[k]).holdingsprite = w.thing[k].holdingsprite
          /\ Dead(w.thing[k]).inbase = FALSE
      BY <1>2, DeadFields
    <3> HIDE DEF g, New, Rivals, mine
    <3> QED
      BY <2>3, <3>1, <3>2
  <2>4. CASE k \notin mine /\ Rivals(k) = {}
    <3>1. g(k) = w.thing[k]
      BY <2>4
    <3> HIDE DEF g, New, Rivals, mine
    <3> QED
      BY <2>4, <3>1, <1>2 DEF Sound, Based
  <2> QED
    BY <2>1, <2>2, <2>3, <2>4
<1> HIDE DEF g
<1>4. f \in [Things -> Thing] /\ w \in Worlds
  BY <1>3 DEF Sound
<1> HIDE DEF v
<1>5. v \in Worlds /\ v.thing = f /\ v.held = w.held /\ v.score = w.score
  <2> HIDE DEF f
  <2> QED
    BY <1>1, <1>4, SetThings
<1>6. \A k \in Things : v.thing[k] = g(k)
  BY <1>5
<1>7. Based(v)
  BY <1>3, <1>6 DEF Based
<1>8. One(v)
  <2> SUFFICES ASSUME NEW k \in Things, NEW l \in Things,
                      g(k).active, g(l).active, IsFlag(g(k)), g(k).style = g(l).style
               PROVE  k = l
    BY <1>6 DEF One
  <2>1. IsFlag(w.thing[k]) /\ IsFlag(w.thing[l]) /\ w.thing[k].style = w.thing[l].style
    BY <1>3 DEF IsFlag
  <2>2. CASE k \in mine /\ l \in mine
    <3>1. k \in Rivals(l) /\ l \in Rivals(k)
      BY <2>1, <2>2
    <3>2. ~(k > l) /\ ~(l > k)
      <4> HIDE DEF Rivals, mine
      <4>1. ~\E m \in Rivals(k) : m > k
        BY <1>3, <2>2
      <4>2. ~\E m \in Rivals(l) : m > l
        BY <1>3, <2>2
      <4> QED
        BY <3>1, <4>1, <4>2
    <3> QED
      BY <3>2 DEF Things
  <2>3. CASE k \in mine /\ l \notin mine
    <3>1. k \in Rivals(l)
      BY <2>1, <2>3
    <3> QED
      BY <1>3, <2>3, <3>1
  <2>4. CASE k \notin mine /\ l \in mine
    <3>1. l \in Rivals(k)
      BY <2>1, <2>4
    <3> QED
      BY <1>3, <2>4, <3>1
  <2>5. CASE k \notin mine /\ l \notin mine
    BY <1>3, <2>1, <2>5 DEF Sound, One
  <2> QED
    BY <2>2, <2>3, <2>4, <2>5
<1>9. NoNewHolder(w, v)
  BY <1>3, <1>6 DEF NoNewHolder
<1>10. \A k \in Things : v.thing[k].holdingsprite # i
  BY <1>3, <1>6, SpritesAssumption DEF Sprites
<1> QED
  BY <1>5, <1>7, <1>8, <1>9, <1>10 DEF v, Quiet, Sound

\* A parachute is all that the sprite can be given.
OnlyParachute(w, v, i) ==
    /\ Sound(v)
    /\ v.score = w.score
    /\ \A l \in Things : v.thing[l].holdingsprite # 0 =>
        IF v.thing[l].holdingsprite = i
        THEN v.thing[l].style = Parachute
        ELSE /\ v.thing[l].holdingsprite = w.thing[l].holdingsprite
             /\ v.thing[l].style = w.thing[l].style
             /\ v.thing[l].active => w.thing[l].active

LEMMA QuietThenParachute ==
    ASSUME NEW u, NEW v, NEW w, NEW i \in Sprites, Quiet(u, v), OnlyParachute(v, w, i)
    PROVE  OnlyParachute(u, w, i)
BY DEF Quiet, NoNewHolder, OnlyParachute

LEMMA ParachuteOpened ==
    ASSUME NEW w, Sound(w), NEW i \in Sprites, NEW opens \in BOOLEAN
    PROVE  OnlyParachute(w, OpenParachute(w, i, opens), i)
<1> DEFINE f == [k \in Things |-> IF w.thing[k].holdingsprite = i
                                  THEN [Dead(w.thing[k]) EXCEPT !.holdingsprite = 0]
                                  ELSE w.thing[k]]
           bare == [w EXCEPT !.thing = f]
           k == FirstFree(bare)
           c == CreateThing(bare, k, Parachute)
           th == [c.thing[k] EXCEPT !.holdingsprite = i]
           d == [c EXCEPT !.thing[k] = th]
           e == [d EXCEPT !.held[i] = k]
<1>1. ASSUME NEW l \in Things
      PROVE  /\ f[l] \in Thing
             /\ f[l].style = w.thing[l].style
             /\ f[l].active => w.thing[l].active
             /\ f[l].holdingsprite \in {0, w.thing[l].holdingsprite}
             /\ f[l].holdingsprite # i
             /\ f[l].inbase => f[l].active /\ w.thing[l].inbase
  <2>1. w.thing[l] \in Thing /\ 0 \in 0 .. MaxSprites /\ 0 # i
    BY ThingTyped, SpritesAssumption DEF Sound, Sprites
  <2>2. CASE w.thing[l].holdingsprite = i
    <3>1. f[l] = [Dead(w.thing[l]) EXCEPT !.holdingsprite = 0]
      BY <2>2
    <3>2. Dead(w.thing[l]) \in Thing
      BY <2>1, DeadFields
    <3> HIDE DEF f
    <3>3. /\ f[l] \in Thing
          /\ f[l].active = Dead(w.thing[l]).active
          /\ f[l].style = Dead(w.thing[l]).style
          /\ f[l].holdingsprite = 0
          /\ f[l].inbase = Dead(w.thing[l]).inbase
      BY <2>1, <3>1, <3>2, HolderFields
    <3> QED
      BY <2>1, <3>3, DeadFields
  <2>3. CASE w.thing[l].holdingsprite # i
    <3>1. f[l] = w.thing[l]
      BY <2>3
    <3> HIDE DEF f
    <3> QED
      BY <2>1, <2>3, <3>1 DEF Sound, Based
  <2> QED
    BY <2>2, <2>3
<1>2. f \in [Things -> Thing] /\ w \in Worlds
  BY <1>1 DEF Sound
<1> HIDE DEF f
<1>3. bare \in Worlds /\ bare.thing = f /\ bare.score = w.score
  BY <1>2, SetThings
<1> HIDE DEF bare
<1>4. Quiet(w, bare)
  BY <1>1, <1>3, QuietChange
<1>5. CASE opens /\ Free(bare) # {}
  <2>1. OpenParachute(w, i, opens) = e
    BY <1>5 DEF OpenParachute, HeldBy, bare, f
  <2>2. k \in Things /\ ~bare.thing[k].active
    BY <1>3, <1>5, FirstFreeIsFree
  <2> HIDE DEF k
  <2>3. Quiet(bare, c)
    BY <1>4, <2>2, QuietCreateThing DEF Quiet
  <2>4. \A l \in Things : c.thing[l] = IF l = k THEN NewThing(Parachute) ELSE bare.thing[l]
    <3>1. Parachute \notin Flag /\ Parachute \in Flag \cup {0, Parachute}
      BY DEF Flag, Alpha, Bravo, Parachute
    <3> QED
      BY <1>3, <2>2, <3>1, CreateThingFacts
  <2> HIDE DEF c
  <2>5. c \in Worlds /\ c.thing[k] \in Thing /\ i \in 0 .. MaxSprites /\ k \in 0 .. MaxThings
    BY <2>2, <2>3, ThingTyped, SpritesAssumption, ThingsAssumption DEF Quiet, Sound, Sprites, Things
  <2>6. /\ th \in Thing /\ th.style = c.thing[k].style /\ th.active = c.thing[k].active
        /\ th.inbase = c.thing[k].inbase /\ th.holdingsprite = i
    BY <2>5, HolderFields
  <2>7. th.style = Parachute
    BY <2>2, <2>4, <2>6, NewThingFields
  <2> HIDE DEF th
  <2>8. d \in Worlds /\ d.thing = [c.thing EXCEPT ![k] = th] /\ d.held = c.held /\ d.score = c.score
    BY <2>2, <2>5, <2>6, SetThing
  <2> HIDE DEF d
  <2>9. \A l \in Things : d.thing[l] = IF l = k THEN th ELSE c.thing[l]
    BY <2>5, <2>8 DEF Worlds
  <2>10. Sound(c)
    BY <2>3 DEF Quiet
  <2>11. Sound(d)
    <3>1. d \in Worlds /\ d.held = c.held /\ d.score = c.score
      BY <2>8
    <3> QED
      BY <2>2, <2>6, <2>9, <2>10, <3>1, ThingChanged
  <2>12. e \in Worlds /\ e.thing = d.thing /\ e.score = d.score
    BY <2>5, <2>8, SetHandle
  <2> HIDE DEF e
  <2>13. Quiet(d, e)
    BY <2>11, <2>12, QuietHandles
  <2>14. \A l \in Things : e.thing[l] = IF l = k THEN th ELSE f[l]
    BY <1>3, <2>4, <2>9, <2>12
  <2>15. OnlyParachute(w, e, i)
    <3>1. Sound(e) /\ e.score = w.score
      BY <1>3, <2>3, <2>8, <2>12, <2>13 DEF Quiet
    <3>2. ASSUME NEW l \in Things, e.thing[l].holdingsprite # 0
          PROVE  IF e.thing[l].holdingsprite = i
                 THEN e.thing[l].style = Parachute
                 ELSE /\ e.thing[l].holdingsprite = w.thing[l].holdingsprite
                      /\ e.thing[l].style = w.thing[l].style
                      /\ e.thing[l].active => w.thing[l].active
      <4>1. CASE l = k
        BY <2>6, <2>7, <2>14, <4>1
      <4>2. CASE l # k
        BY <1>1, <2>14, <3>2, <4>2
      <4> QED
        BY <4>1, <4>2
    <3> QED
      BY <3>1, <3>2 DEF OnlyParachute
  <2> QED
    BY <2>1, <2>15
<1>6. CASE ~(opens /\ Free(bare) # {})
  <2>1. OpenParachute(w, i, opens) = bare
    BY <1>6 DEF OpenParachute, HeldBy, bare, f
  <2>2. OnlyParachute(w, bare, i)
    BY <1>1, <1>3, <1>4 DEF OnlyParachute, Quiet, NoNewHolder
  <2> QED
    BY <2>1, <2>2
<1> QED
  BY <1>5, <1>6

LEMMA SpriteRespawned ==
    ASSUME NEW w, Sound(w), NEW i \in Sprites, NEW opens \in BOOLEAN
    PROVE  OnlyParachute(w, Respawned(w, i, opens), i)
<1> DEFINE k == w.held[i]
           empty == IF k = 0 THEN w
                    ELSE IF w.thing[k].style = Parachute THEN KillThing(w, k)
                    ELSE RespawnThing(w, k)
           u == LetGo(empty, i)
<1>1. w.held \in [Sprites -> 0 .. MaxThings]
  BY DEF Sound, Worlds
<1>2. k = 0 \/ k \in Things
  BY <1>1, ThingsAssumption DEF Things
<1>3. Respawned(w, i, opens) = OpenParachute(u, i, opens)
  BY DEF Respawned
<1>4. Quiet(w, empty)
  <2> HIDE DEF k
  <2> QED
    BY <1>2, QuietNever, QuietKillThing, QuietRespawnThing
<1> HIDE DEF empty
<1>5. Quiet(empty, u)
  <2>1. i \in 0 .. MaxSprites
    BY SpritesAssumption DEF Sprites
  <2> QED
    BY <1>4, <2>1, QuietLetGo DEF Quiet
<1>6. Quiet(w, u)
  BY <1>4, <1>5, QuietTwice
<1> HIDE DEF u
<1>7. OnlyParachute(u, OpenParachute(u, i, opens), i)
  BY <1>6, ParachuteOpened DEF Quiet
<1> QED
  BY <1>3, <1>6, <1>7, QuietThenParachute

-----------------------------------------------------------------------------
(* The update of a flag: it stays where it is in the table. *)

FlagAt(w, k, s) == s \in Flag /\ w.thing[k].active /\ w.thing[k].style = s

LEMMA RespawnedFlag ==
    ASSUME NEW w, Sound(w), NEW k \in Things, NEW s, FlagAt(w, k, s)
    PROVE  /\ Quiet(w, RespawnThing(w, k))
           /\ FlagAt(RespawnThing(w, k), k, s)
           /\ RespawnThing(w, k).thing[k].inbase
           /\ RespawnThing(w, k).thing[k].holdingsprite = 0
<1>1. RespawnThing(w, k).thing[k] = NewThing(s) /\ s \in Flag \cup {0, Parachute}
  BY RespawnThingFacts DEF Sound, FlagAt
<1>2. FlagAt(RespawnThing(w, k), k, s) /\ RespawnThing(w, k).thing[k].inbase
      /\ RespawnThing(w, k).thing[k].holdingsprite = 0
  BY <1>1, NewThingFields DEF FlagAt
<1> QED
  BY <1>2, QuietRespawnThing

LEMMA FlagFollowed ==
    ASSUME NEW w, Sound(w), NEW k \in Things, NEW s, FlagAt(w, k, s)
    PROVE  Quiet(w, Followed(w, k)) /\ FlagAt(Followed(w, k), k, s)
<1> DEFINE h == w.thing[k].holdingsprite
           u == [w EXCEPT !.held[h] = k]
           v == [u EXCEPT !.thing[k].timeout = FlagTimeout]
<1>1. h \in 0 .. MaxSprites /\ w \in Worlds
  BY ThingRanges DEF Sound
<1>2. CASE h = 0
  BY <1>2, QuietNever DEF Followed
<1>3. CASE h # 0
  <2>1. Followed(w, k) = v
    BY <1>3 DEF Followed
  <2>2. h \in Sprites /\ k \in 0 .. MaxThings /\ FlagTimeout \in 0 .. FlagTimeout
    BY <1>1, <1>3, SpritesAssumption, ThingsAssumption, TimesAssumption DEF Sprites, Things
  <2> HIDE DEF h
  <2>3. u \in Worlds /\ u.thing = w.thing /\ u.score = w.score
    BY <1>1, <2>2, SetHandle
  <2> HIDE DEF u
  <2>4. Quiet(w, u)
    BY <2>3, QuietHandles
  <2>5. Quiet(u, v) /\ v.thing[k] = [u.thing[k] EXCEPT !.timeout = FlagTimeout]
    BY <2>2, <2>4, Timed DEF Quiet
  <2> HIDE DEF v
  <2>6. u.thing[k] \in Thing
    BY <2>3, ThingTyped
  <2>7. v.thing[k].active = w.thing[k].active /\ v.thing[k].style = w.thing[k].style
    BY <2>2, <2>3, <2>5, <2>6, TimeoutFields
  <2> QED
    BY <2>1, <2>4, <2>5, <2>7, QuietTwice DEF FlagAt
<1> QED
  BY <1>2, <1>3

LEMMA FlagLocated ==
    ASSUME NEW w, Sound(w), NEW k \in Things, NEW s, FlagAt(w, k, s), NEW near \in BOOLEAN
    PROVE  /\ Quiet(w, Located(w, k, near))
           /\ FlagAt(Located(w, k, near), k, s)
           /\ \A l \in Things \ {k} : Located(w, k, near).thing[l].inbase => w.thing[l].inbase
<1> DEFINE a == [w.thing[k] EXCEPT !.inbase = near]
           th == [a EXCEPT !.timeout = IF near THEN FlagTimeout ELSE w.thing[k].timeout]
           v == [w EXCEPT !.thing[k] = th]
<1>1. w \in Worlds /\ w.thing[k] \in Thing
  BY ThingTyped DEF Sound
<1>2. /\ a \in Thing /\ a.style = w.thing[k].style /\ a.active = w.thing[k].active
      /\ a.holdingsprite = w.thing[k].holdingsprite /\ a.inbase = near
      /\ a.timeout = w.thing[k].timeout
  BY <1>1 DEF Thing
<1>3. [w EXCEPT !.thing[k].inbase = near,
                !.thing[k].timeout = IF near THEN FlagTimeout ELSE @] = v
  BY <1>1 DEF Worlds, Thing
<1> HIDE DEF a
<1>4. (IF near THEN FlagTimeout ELSE w.thing[k].timeout) \in 0 .. FlagTimeout
  BY <1>1, ThingRanges, TimesAssumption
<1>5. /\ th \in Thing /\ th.style = w.thing[k].style /\ th.active = w.thing[k].active
      /\ th.holdingsprite = w.thing[k].holdingsprite /\ th.inbase = near
  BY <1>2, <1>4, TimeoutFields
<1> HIDE DEF th
<1>6. v \in Worlds /\ v.thing = [w.thing EXCEPT ![k] = th] /\ v.held = w.held /\ v.score = w.score
  BY <1>1, <1>5, SetThing
<1>7. \A l \in Things : v.thing[l] = IF l = k THEN th ELSE w.thing[l]
  BY <1>1, <1>6 DEF Worlds
<1>8. v \in Worlds /\ v.score = w.score
  BY <1>6
<1> HIDE DEF v
<1>9. One(v) /\ Based(v) /\ NoNewHolder(w, v)
  <2>1. \A l \in Things :
          /\ v.thing[l].style = w.thing[l].style
          /\ v.thing[l].active = w.thing[l].active
          /\ v.thing[l].holdingsprite = w.thing[l].holdingsprite
          /\ l # k => v.thing[l].inbase = w.thing[l].inbase
    BY <1>5, <1>7
  <2> QED
    BY <2>1 DEF Sound, One, Based, NoNewHolder, IsFlag, FlagAt
<1>10. Quiet(w, v) /\ FlagAt(v, k, s)
  BY <1>5, <1>7, <1>8, <1>9 DEF Quiet, Sound, FlagAt
<1>11. CASE Located(w, k, near) = v
  BY <1>7, <1>10, <1>11
<1>12. CASE Located(w, k, near) = RespawnThing(v, k)
  <2>1. Quiet(v, RespawnThing(v, k)) /\ FlagAt(RespawnThing(v, k), k, s)
    BY <1>10, RespawnedFlag DEF Quiet
  <2>2. Quiet(w, RespawnThing(v, k))
    BY <1>10, <2>1, QuietTwice
  <2>3. ASSUME NEW l \in Things \ {k}, RespawnThing(v, k).thing[l].inbase PROVE v.thing[l].inbase
    <3>1. RespawnThing(v, k).thing[l] \in {v.thing[l], Dead(v.thing[l])}
      BY <1>8, RespawnThingFacts
    <3>2. ~Dead(v.thing[l]).inbase
      BY <1>8, ThingTyped, DeadFields
    <3> QED
      BY <2>3, <3>1, <3>2
  <2> QED
    BY <1>7, <1>12, <2>1, <2>2, <2>3
<1> QED
  BY <1>3, <1>11, <1>12 DEF Located, v


\* While its holder is told and its base looked for, a flag that keeps its holder
\* leaves the other things alone.
LEMMA OthersLeftAlone ==
    ASSUME NEW w, Sound(w), NEW k \in Things, NEW near \in BOOLEAN,
           NEW l \in Things, l # k
    PROVE  /\ Followed(w, k).thing[l] = w.thing[l]
           /\ Located(w, k, near).thing[k].holdingsprite # 0 => Located(w, k, near).thing[l] = w.thing[l]
<1>1. w \in Worlds /\ DOMAIN w.thing = Things
  BY DEF Sound, Worlds
<1>2. Followed(w, k).thing[l] = w.thing[l]
  <2> DEFINE h == w.thing[k].holdingsprite
             u == [w EXCEPT !.held[h] = k]
             v == [u EXCEPT !.thing[k].timeout = FlagTimeout]
  <2>1. u.thing = w.thing
    BY <1>1 DEF Worlds
  <2>2. v.thing[l] = u.thing[l]
    BY <1>1 DEF Worlds
  <2>3. Followed(w, k) \in {w, v}
    BY DEF Followed
  <2> HIDE DEF u, v
  <2> QED
    BY <2>1, <2>2, <2>3
<1>3. ASSUME Located(w, k, near).thing[k].holdingsprite # 0
      PROVE  Located(w, k, near).thing[l] = w.thing[l]
  <2> DEFINE t == IF near THEN FlagTimeout ELSE w.thing[k].timeout
             a == [w.thing[k] EXCEPT !.inbase = near]
             th == [a EXCEPT !.timeout = t]
             v == [w EXCEPT !.thing[k] = th]
  <2>1. w.thing[k] \in Thing /\ t \in 0 .. FlagTimeout
    BY <1>1, ThingTyped, ThingRanges, TimesAssumption
  <2>2. [w EXCEPT !.thing[k].inbase = near,
                  !.thing[k].timeout = IF near THEN FlagTimeout ELSE @] = v
    BY <1>1, <2>1 DEF Worlds, Thing
  <2> HIDE DEF t
  <2>3. a \in Thing /\ th \in Thing
    BY <2>1 DEF Thing
  <2> HIDE DEF a, th
  <2>4. v \in Worlds /\ v.thing = [w.thing EXCEPT ![k] = th]
    BY <1>1, <2>3, SetThing
  <2>5. Located(w, k, near) \in {v, RespawnThing(v, k)}
    BY <2>2 DEF Located
  <2> HIDE DEF v
  <2>6. RespawnThing(v, k).thing[k] = NewThing(v.thing[k].style)
        /\ v.thing[k].style \in Flag \cup {0, Parachute}
    BY <2>4, RespawnThingFacts, ThingRanges
  <2>7. RespawnThing(v, k).thing[k].holdingsprite = 0
    BY <2>6, NewThingFields
  <2>8. Located(w, k, near) = v
    BY <1>3, <2>5, <2>7
  <2> QED
    BY <1>1, <2>4, <2>8
<1> QED
  BY <1>2, <1>3

\* Nobody carries a flag of its team, and the dead carry nothing.
Licit(w) ==
    \A k \in Things : IsFlag(w.thing[k]) /\ w.thing[k].holdingsprite # 0 =>
        /\ w.thing[k].active => team[w.thing[k].holdingsprite] # w.thing[k].style
        /\ ~(Playing(w.thing[k].holdingsprite) /\ deadmeat[w.thing[k].holdingsprite])

LEMMA QuietLicit ==
    ASSUME NEW w, NEW v, Licit(w), Sound(v), NoNewHolder(w, v)
    PROVE  Licit(v)
BY DEF Licit, NoNewHolder, IsFlag

\* The flag in k remains, and what is in its base remains there.
Kept(w, v, k, s) ==
    /\ Sound(v) /\ Licit(v) /\ FlagAt(v, k, s)
    /\ v.score = w.score
    /\ w.thing[k].inbase => v.thing[k].inbase

LEMMA QuietKept ==
    ASSUME NEW w, Licit(w), NEW v, Quiet(w, v), NEW k \in Things, NEW s, FlagAt(v, k, s),
           w.thing[k].inbase => v.thing[k].inbase
    PROVE  Kept(w, v, k, s)
BY QuietLicit DEF Quiet, Kept

LEMMA RespawnKept ==
    ASSUME NEW w, Sound(w), Licit(w), NEW k \in Things, NEW s, FlagAt(w, k, s)
    PROVE  Kept(w, RespawnThing(w, k), k, s)
<1>1. /\ Quiet(w, RespawnThing(w, k))
      /\ FlagAt(RespawnThing(w, k), k, s)
      /\ RespawnThing(w, k).thing[k].inbase
  BY RespawnedFlag
<1> QED
  BY <1>1, QuietKept

LEMMA TimedKept ==
    ASSUME NEW w, Sound(w), Licit(w), NEW k \in Things, NEW s, FlagAt(w, k, s),
           NEW t \in 0 .. FlagTimeout
    PROVE  LET v == [w EXCEPT !.thing[k].timeout = t]
           IN  Kept(w, v, k, s) /\ v.thing[k].holdingsprite = w.thing[k].holdingsprite
<1> DEFINE v == [w EXCEPT !.thing[k].timeout = t]
<1>1. Quiet(w, v) /\ v.thing[k] = [w.thing[k] EXCEPT !.timeout = t]
  BY Timed
<1>2. w.thing[k] \in Thing
  BY ThingTyped DEF Sound
<1> HIDE DEF v
<1>3. /\ v.thing[k].active = w.thing[k].active /\ v.thing[k].style = w.thing[k].style
      /\ v.thing[k].inbase = w.thing[k].inbase
      /\ v.thing[k].holdingsprite = w.thing[k].holdingsprite
  BY <1>1, <1>2, TimeoutFields
<1>4. Kept(w, v, k, s)
  BY <1>1, <1>3, QuietKept DEF FlagAt
<1> QED
  BY <1>3, <1>4 DEF v

LEMMA FlagTimedOut ==
    ASSUME NEW w, Sound(w), Licit(w), NEW k \in Things, NEW s, FlagAt(w, k, s)
    PROVE  Kept(w, TimedOut(w, k), k, s)
<1> DEFINE left == w.thing[k].timeout - 1
<1>1. w.thing[k].timeout \in 0 .. FlagTimeout
  BY ThingRanges DEF Sound
<1>2. CASE left > 0
  <2>1. TimedOut(w, k) = [w EXCEPT !.thing[k].timeout = left]
    BY <1>2 DEF TimedOut
  <2>2. left \in 0 .. FlagTimeout
    BY <1>1, <1>2, TimesAssumption
  <2> HIDE DEF left
  <2> QED
    BY <2>1, <2>2, TimedKept
<1>3. CASE ~(left > 0) /\ w.thing[k].holdingsprite # 0
  <2>1. TimedOut(w, k) = [w EXCEPT !.thing[k].timeout = FlagTimeout]
    BY <1>3 DEF TimedOut
  <2>2. FlagTimeout \in 0 .. FlagTimeout
    BY TimesAssumption
  <2> QED
    BY <2>1, <2>2, TimedKept
<1>4. CASE ~(left > 0) /\ w.thing[k].holdingsprite = 0
  <2>1. TimedOut(w, k) = RespawnThing(w, k)
    BY <1>4 DEF TimedOut
  <2> QED
    BY <2>1, RespawnKept
<1> QED
  BY <1>2, <1>3, <1>4

LEMMA FlagBackInBounds ==
    ASSUME NEW w, Sound(w), Licit(w), NEW k \in Things, NEW s, FlagAt(w, k, s), NEW out \in BOOLEAN
    PROVE  Kept(w, BackInBounds(w, k, out), k, s)
<1>1. CASE out
  BY <1>1, RespawnKept DEF BackInBounds
<1>2. CASE ~out
  BY <1>2 DEF BackInBounds, Kept
<1> QED
  BY <1>1, <1>2

LEMMA FlagTouched ==
    ASSUME NEW w, Sound(w), Licit(w), NEW k \in Things, NEW s, FlagAt(w, k, s),
           NEW j \in {i \in Sprites : Alive(i)} \cup {0}
    PROVE  Kept(w, Touched(w, k, j), k, s)
<1> DEFINE fresh == [w EXCEPT !.thing[k].timeout = FlagTimeout]
           taken == [fresh EXCEPT !.thing[k].holdingsprite = j]
           th == [fresh.thing[k] EXCEPT !.holdingsprite = j]
<1>1. CASE j = 0
  BY <1>1 DEF Touched, Kept
<1>2. CASE j # 0
  <2>1. j \in Sprites /\ Alive(j) /\ j \in 0 .. MaxSprites
    BY <1>2, SpritesAssumption DEF Sprites
  <2>2. Kept(w, fresh, k, s)
    BY TimedKept, TimesAssumption
  <2>3. Touched(w, k, j) = IF ~Grabs(w, k, j) THEN fresh
                           ELSE IF team[j] = w.thing[k].style THEN RespawnThing(taken, k)
                           ELSE taken
    BY <1>2 DEF Touched
  <2>4. CASE ~Grabs(w, k, j)
    <3>1. Touched(w, k, j) = fresh
      BY <2>3, <2>4
    <3> QED
      BY <2>2, <3>1
  <2>5. taken = [fresh EXCEPT !.thing[k] = th]
    OBVIOUS
  <2> HIDE DEF fresh
  <2>6. fresh \in Worlds /\ Sound(fresh) /\ fresh.thing[k] \in Thing
    BY <2>2, ThingTyped DEF Kept, Sound
  <2>7. /\ th \in Thing /\ th.style = fresh.thing[k].style /\ th.active = fresh.thing[k].active
        /\ th.inbase = fresh.thing[k].inbase /\ th.holdingsprite = j
    BY <2>1, <2>6, HolderFields
  <2> HIDE DEF th, taken
  <2>8. taken \in Worlds /\ taken.thing = [fresh.thing EXCEPT ![k] = th]
        /\ taken.held = fresh.held /\ taken.score = fresh.score
    BY <2>5, <2>6, <2>7, SetThing
  <2>9. \A l \in Things : taken.thing[l] = IF l = k THEN th ELSE fresh.thing[l]
    BY <2>6, <2>8 DEF Worlds
  <2>10. Sound(taken)
    <3>1. taken \in Worlds /\ taken.held = fresh.held /\ taken.score = fresh.score
      BY <2>8
    <3> QED
      BY <2>6, <2>7, <2>9, <3>1, ThingChanged
  <2>11. /\ FlagAt(taken, k, s)
         /\ taken.score = w.score
         /\ w.thing[k].inbase => taken.thing[k].inbase
    BY <2>2, <2>7, <2>8, <2>9 DEF Kept, FlagAt
  <2>12. CASE Grabs(w, k, j) /\ team[j] = w.thing[k].style
    <3>1. Touched(w, k, j) = RespawnThing(taken, k)
      BY <2>3, <2>12
    <3>2. /\ Quiet(taken, RespawnThing(taken, k))
          /\ FlagAt(RespawnThing(taken, k), k, s)
          /\ RespawnThing(taken, k).thing[k].inbase
          /\ RespawnThing(taken, k).thing[k].holdingsprite = 0
      BY <2>10, <2>11, RespawnedFlag
    <3>3. Licit(RespawnThing(taken, k))
      <4> DEFINE v == RespawnThing(taken, k)
      <4> HIDE DEF v
      <4> SUFFICES ASSUME NEW l \in Things, IsFlag(v.thing[l]), v.thing[l].holdingsprite # 0
                   PROVE  /\ v.thing[l].active => team[v.thing[l].holdingsprite] # v.thing[l].style
                          /\ ~(Playing(v.thing[l].holdingsprite) /\ deadmeat[v.thing[l].holdingsprite])
        BY DEF Licit, v
      <4>1. l # k
        BY <3>2 DEF v
      <4>2. /\ v.thing[l].holdingsprite = taken.thing[l].holdingsprite
            /\ v.thing[l].style = taken.thing[l].style
            /\ v.thing[l].active => taken.thing[l].active
        BY <3>2 DEF Quiet, NoNewHolder, v
      <4>3. taken.thing[l] = fresh.thing[l]
        BY <2>9, <4>1
      <4> QED
        BY <2>2, <4>2, <4>3 DEF Kept, Licit, IsFlag
    <3> QED
      BY <2>11, <3>1, <3>2, <3>3 DEF Kept, Quiet
  <2>13. CASE Grabs(w, k, j) /\ team[j] # w.thing[k].style
    <3>1. Touched(w, k, j) = taken
      BY <2>3, <2>13
    <3>2. Licit(taken)
      <4> SUFFICES ASSUME NEW l \in Things, IsFlag(taken.thing[l]), taken.thing[l].holdingsprite # 0
                   PROVE  /\ taken.thing[l].active =>
                                team[taken.thing[l].holdingsprite] # taken.thing[l].style
                          /\ ~(Playing(taken.thing[l].holdingsprite)
                               /\ deadmeat[taken.thing[l].holdingsprite])
        BY DEF Licit
      <4>1. CASE l = k
        <5>1. taken.thing[l].holdingsprite = j /\ taken.thing[l].style = s /\ w.thing[k].style = s
          BY <2>7, <2>9, <2>11, <4>1 DEF FlagAt
        <5> QED
          BY <2>1, <2>13, <5>1 DEF Alive
      <4>2. CASE l # k
        <5>1. taken.thing[l] = fresh.thing[l]
          BY <2>9, <4>2
        <5> QED
          BY <2>2, <5>1 DEF Kept, Licit
      <4> QED
        BY <4>1, <4>2
    <3> QED
      BY <2>10, <2>11, <3>1, <3>2 DEF Kept
  <2> QED
    BY <2>4, <2>12, <2>13
<1> QED
  BY <1>1, <1>2


\* What a point rests on.
Point(w, k, s) ==
    /\ w.thing[k].holdingsprite # 0
    /\ team[w.thing[k].holdingsprite] # s
    /\ \E l \in Things \ {k} :
        w.thing[l].active /\ w.thing[l].inbase /\ w.thing[l].holdingsprite = 0

LEMMA FlagCaptured ==
    ASSUME NEW w, Sound(w), Licit(w), NEW k \in Things, NEW s, FlagAt(w, k, s), NEW meets \in BOOLEAN
    PROVE  LET v == Captured(w, k, meets)
               t == team[w.thing[k].holdingsprite]
           IN  /\ Sound(v) /\ Licit(v) /\ FlagAt(v, k, s)
               /\ v.score = w.score
                  \/ /\ Point(w, k, s)
                     /\ v.thing[k].inbase
                     /\ v.score = [r \in Flag |-> IF r = t THEN w.score[r] + 1 ELSE w.score[r]]
<1> DEFINE t == team[w.thing[k].holdingsprite]
           n == [r \in Flag |-> IF r = t THEN w.score[r] + 1 ELSE w.score[r]]
           u == [w EXCEPT !.score = n]
<1>1. CASE ~Touchdown(w, k, meets)
  BY <1>1 DEF Captured
<1>2. CASE Touchdown(w, k, meets)
  <2>1. Captured(w, k, meets) = RespawnThing(u, k)
    BY <1>2 DEF Captured, Scored
  <2>2. w \in Worlds /\ n \in [Flag -> Nat]
    BY DEF Sound, Worlds
  <2>3. Point(w, k, s)
    BY <1>2 DEF Touchdown, Point, FlagAt
  <2> HIDE DEF n
  <2>4. u \in Worlds /\ u.thing = w.thing /\ u.score = n
    BY <2>2, SetScores
  <2> HIDE DEF u
  <2>5. Sound(u) /\ Licit(u) /\ FlagAt(u, k, s)
    BY <2>4 DEF Sound, Licit, FlagAt, One, Based
  <2>6. Quiet(u, RespawnThing(u, k)) /\ FlagAt(RespawnThing(u, k), k, s)
        /\ RespawnThing(u, k).thing[k].inbase
    BY <2>5, RespawnedFlag
  <2>7. Kept(u, RespawnThing(u, k), k, s)
    BY <2>5, RespawnKept
  <2> QED
    BY <2>1, <2>3, <2>4, <2>6, <2>7 DEF Kept, n
<1> QED
  BY <1>1, <1>2

\* The whole update of a flag
Updated(w, k, near, meets, out, j) ==
    BackInBounds(TimedOut(Touched(Captured(Located(Followed(w, k), k, near), k, meets), k, j), k), k, out)

LEMMA FlagUpdated ==
    ASSUME NEW w, Sound(w), Licit(w), NEW k \in Things, NEW s, FlagAt(w, k, s),
           NEW near \in BOOLEAN, NEW meets \in BOOLEAN, NEW out \in BOOLEAN,
           NEW j \in {i \in Sprites : Alive(i)} \cup {0}
    PROVE  LET v == Updated(w, k, near, meets, out, j)
               t == team[w.thing[k].holdingsprite]
           IN  /\ Sound(v) /\ Licit(v)
               /\ v.score = w.score
                  \/ /\ Point(w, k, s)
                     /\ v.thing[k].inbase
                     /\ v.score = [r \in Flag |-> IF r = t THEN w.score[r] + 1 ELSE w.score[r]]
<1> DEFINE a == Followed(w, k)
           b == Located(a, k, near)
           c == Captured(b, k, meets)
           d == Touched(c, k, j)
           e == TimedOut(d, k)
           v == BackInBounds(e, k, out)
<1>1. Quiet(w, a) /\ FlagAt(a, k, s) /\ \A l \in Things \ {k} : a.thing[l] = w.thing[l]
  BY FlagFollowed, OthersLeftAlone
<1>2. Licit(a)
  BY <1>1, QuietLicit DEF Quiet
<1> HIDE DEF a
<1>3. /\ Quiet(a, b) /\ FlagAt(b, k, s)
      /\ b.thing[k].holdingsprite # 0 => \A l \in Things \ {k} : b.thing[l] = a.thing[l]
  BY <1>1, FlagLocated, OthersLeftAlone DEF Quiet
<1>4. Licit(b)
  BY <1>2, <1>3, QuietLicit DEF Quiet
<1> HIDE DEF b
<1>5. /\ Sound(c) /\ Licit(c) /\ FlagAt(c, k, s)
      /\ c.score = b.score
         \/ /\ Point(b, k, s)
            /\ c.thing[k].inbase
            /\ c.score = [r \in Flag |-> IF r = team[b.thing[k].holdingsprite]
                                         THEN b.score[r] + 1 ELSE b.score[r]]
  BY <1>3, <1>4, FlagCaptured DEF Quiet
<1> HIDE DEF c
<1>6. Kept(c, d, k, s)
  BY <1>5, FlagTouched
<1> HIDE DEF d
<1>7. Kept(d, e, k, s)
  BY <1>6, FlagTimedOut DEF Kept
<1> HIDE DEF e
<1>8. Kept(e, v, k, s)
  BY <1>7, FlagBackInBounds DEF Kept
<1>9. Updated(w, k, near, meets, out, j) = v
  BY DEF Updated, a, b, c, d, e
<1> HIDE DEF v
<1>10. b.score = w.score /\ v.score = c.score /\ (c.thing[k].inbase => v.thing[k].inbase)
  BY <1>1, <1>3, <1>6, <1>7, <1>8 DEF Quiet, Kept
<1>11. ASSUME Point(b, k, s)
       PROVE  /\ Point(w, k, s)
              /\ b.thing[k].holdingsprite = w.thing[k].holdingsprite
  <2>1. b.thing[k].holdingsprite # 0
    BY <1>11 DEF Point
  <2>2. b.thing[k].holdingsprite = a.thing[k].holdingsprite
    BY <1>3, <2>1 DEF Quiet, NoNewHolder
  <2>3. a.thing[k].holdingsprite = w.thing[k].holdingsprite
    BY <1>1, <2>1, <2>2 DEF Quiet, NoNewHolder
  <2>4. \A l \in Things \ {k} : b.thing[l] = w.thing[l]
    BY <1>1, <1>3, <2>1
  <2> QED
    BY <1>11, <2>2, <2>3, <2>4 DEF Point
<1>12. Sound(v) /\ Licit(v)
  BY <1>8 DEF Kept
<1>13. CASE c.score = b.score
  BY <1>9, <1>10, <1>12, <1>13
<1>14. CASE Point(b, k, s) /\ c.thing[k].inbase
            /\ c.score = [r \in Flag |-> IF r = team[b.thing[k].holdingsprite]
                                         THEN b.score[r] + 1 ELSE b.score[r]]
  BY <1>9, <1>10, <1>11, <1>12, <1>14
<1> QED
  BY <1>5, <1>13, <1>14


-----------------------------------------------------------------------------
(* Other calls *)

\* While there is one flag a team, none is destroyed.
LEMMA QuietChecked ==
    ASSUME NEW w, Sound(w), NEW s \in Flag
    PROVE  Quiet(w, Checked(w, s))
<1>1. ~\E k, l \in Count(w, s) : k # l
  BY DEF Count, Sound, One, IsFlag
<1>2. Checked(w, s) \in {w, CreateSomewhere(w, s)}
  BY <1>1 DEF Checked
<1> QED
  BY <1>2, QuietNever, QuietCreateSomewhere

LEMMA QuietSameNumber ==
    ASSUME NEW w, Sound(w), NEW i \in Sprites
    PROVE  Quiet(w, SameNumber(w, i))
BY QuietNever, QuietRespawnThing DEF SameNumber

LEMMA QuietAllDead ==
    ASSUME NEW w, Sound(w)
    PROVE  Quiet(w, [w EXCEPT !.thing = [k \in Things |-> Dead(w.thing[k])]])
<1> DEFINE f == [k \in Things |-> Dead(w.thing[k])]
           v == [w EXCEPT !.thing = f]
<1>1. \A k \in Things : /\ Dead(w.thing[k]) \in Thing
                        /\ Dead(w.thing[k]).active = FALSE
                        /\ Dead(w.thing[k]).style = w.thing[k].style
                        /\ Dead(w.thing[k]).holdingsprite = w.thing[k].holdingsprite
                        /\ Dead(w.thing[k]).inbase = FALSE
  BY ThingTyped, DeadFields DEF Sound
<1>2. f \in [Things -> Thing] /\ \A k \in Things : f[k] = Dead(w.thing[k])
  BY <1>1
<1> HIDE DEF f
<1>3. v \in Worlds /\ v.thing = f /\ v.score = w.score
  BY <1>2, SetThings DEF Sound
<1> HIDE DEF v
<1>4. Quiet(w, v)
  BY <1>1, <1>2, <1>3, QuietChange
<1> QED
  BY <1>4 DEF v, f

\* No flag is left with i; the others hold what they held.
WithoutFlag(w, v, i) ==
    \A l \in Things : IsFlag(v.thing[l]) /\ v.thing[l].holdingsprite # 0 =>
        /\ v.thing[l].holdingsprite # i
        /\ v.thing[l].holdingsprite = w.thing[l].holdingsprite
        /\ v.thing[l].style = w.thing[l].style
        /\ v.thing[l].active => w.thing[l].active

LEMMA ParachuteIsNoFlag ==
    ASSUME NEW w, NEW v, NEW i, OnlyParachute(w, v, i)
    PROVE  WithoutFlag(w, v, i)
<1>1. Parachute \notin Flag
  BY DEF Flag, Alpha, Bravo, Parachute
<1> QED
  BY <1>1 DEF OnlyParachute, WithoutFlag, IsFlag

-----------------------------------------------------------------------------
(* The inductive invariant *)

RestOK ==
    /\ phase \in {"messages", "sprites", "things", "changemap"}
    /\ turn \in {0} \cup Things \cup Sprites
    /\ tick \in 0 .. CheckPeriod - 1
    /\ active \in [Sprites -> BOOLEAN]
    /\ team \in [Sprites -> Flag \cup {None, Spectator}]
    /\ deadmeat \in [Sprites -> BOOLEAN]
    /\ flaggrabcooldown \in [Sprites -> 0 .. GrabCooldown]
    /\ moves \in 0 .. MaxMoves

IInv == RestOK /\ Sound(World) /\ Licit(World)

LEMMA TypeFromInv == IInv => TypeOK
BY DEF IInv, RestOK, TypeOK, Sound, World, Worlds

LEMMA WorldAfter ==
    ASSUME NEW w \in Worlds, Becomes(w)
    PROVE  World' = w
BY DEF Becomes, World, Worlds

\* What the lemmas about a call say of the state after it
LEMMA PeopleStay ==
    ASSUME Licit(World), NEW v, Sound(v), NoNewHolder(World, v), Becomes(v), UNCHANGED people
    PROVE  Sound(World)' /\ Licit(World)'
<1>1. World' = v
  BY WorldAfter DEF Sound
<1>2. Licit(v)
  BY QuietLicit
<1>3. team' = team /\ active' = active /\ deadmeat' = deadmeat
  BY DEF people
<1>4. things' = v.thing
  BY DEF Becomes
<1>5. Licit(World)'
  BY <1>2, <1>3, <1>4 DEF Licit, Playing, World
<1>6. Sound(World)'
  BY <1>1 DEF Sound, One, Based
<1> QED
  BY <1>5, <1>6

OthersStay(i) ==
    \A j \in Sprites \ {i} :
        active'[j] = active[j] /\ team'[j] = team[j] /\ deadmeat'[j] = deadmeat[j]

LEMMA FlagLost ==
    ASSUME Licit(World), NEW v, Sound(v), NEW i \in Sprites, WithoutFlag(World, v, i), Becomes(v),
           OthersStay(i)
    PROVE  Sound(World)' /\ Licit(World)'
<1>1. World' = v
  BY WorldAfter DEF Sound
<1>2. things' = v.thing
  BY DEF Becomes
<1>3. Licit(World)'
  <2> SUFFICES ASSUME NEW k \in Things, IsFlag(v.thing[k]), v.thing[k].holdingsprite # 0
               PROVE  LET h == v.thing[k].holdingsprite
                      IN  /\ v.thing[k].active => team'[h] # v.thing[k].style
                          /\ ~(Playing(h)' /\ deadmeat'[h])
    BY <1>2 DEF Licit, World, Playing
  <2> DEFINE h == v.thing[k].holdingsprite
  <2>1. /\ h \in Sprites \ {i} /\ h = things[k].holdingsprite /\ h # 0
        /\ v.thing[k].style = things[k].style
        /\ v.thing[k].active => things[k].active
    <3>1. h \in 0 .. MaxSprites
      BY ThingRanges DEF Sound
    <3> QED
      BY <3>1, SpritesAssumption DEF WithoutFlag, World, Sprites
  <2> HIDE DEF h
  <2>2. active'[h] = active[h] /\ team'[h] = team[h] /\ deadmeat'[h] = deadmeat[h]
    BY <2>1 DEF OthersStay
  <2>3. IsFlag(things[k])
    BY <2>1 DEF IsFlag
  <2>4. things[k].active => team[h] # things[k].style
    BY <2>1, <2>3 DEF Licit, World
  <2>5. ~(Playing(h) /\ deadmeat[h])
    BY <2>1, <2>3 DEF Licit, World
  <2> QED
    BY <2>1, <2>2, <2>4, <2>5 DEF Playing, h
<1>4. Sound(World)'
  BY <1>1 DEF Sound, One, Based
<1> QED
  BY <1>3, <1>4

LEMMA HolderAlive ==
    ASSUME Licit(World), NEW v, Sound(v), NEW i \in Sprites, NoNewHolder(World, v), Becomes(v),
           OthersStay(i), ~deadmeat'[i], team'[i] = team[i] \/ team'[i] \notin Flag
    PROVE  Sound(World)' /\ Licit(World)'
<1>1. World' = v
  BY WorldAfter DEF Sound
<1>2. things' = v.thing
  BY DEF Becomes
<1>3. Licit(World)'
  <2> SUFFICES ASSUME NEW k \in Things, IsFlag(v.thing[k]), v.thing[k].holdingsprite # 0
               PROVE  LET h == v.thing[k].holdingsprite
                      IN  /\ v.thing[k].active => team'[h] # v.thing[k].style
                          /\ ~(Playing(h)' /\ deadmeat'[h])
    BY <1>2 DEF Licit, World, Playing
  <2> DEFINE h == v.thing[k].holdingsprite
  <2>1. /\ h \in Sprites /\ h = things[k].holdingsprite /\ h # 0
        /\ v.thing[k].style = things[k].style
        /\ v.thing[k].active => things[k].active
    <3>1. h \in 0 .. MaxSprites
      BY ThingRanges DEF Sound
    <3> QED
      BY <3>1, SpritesAssumption DEF NoNewHolder, World, Sprites
  <2> HIDE DEF h
  <2>2. IsFlag(things[k])
    BY <2>1 DEF IsFlag
  <2>3. things[k].active => team[h] # things[k].style
    BY <2>1, <2>2 DEF Licit, World
  <2>4. ~(Playing(h) /\ deadmeat[h])
    BY <2>1, <2>2 DEF Licit, World
  <2>5. CASE h = i
    BY <2>1, <2>3, <2>5 DEF IsFlag, h
  <2>6. CASE h # i
    <3>1. active'[h] = active[h] /\ team'[h] = team[h] /\ deadmeat'[h] = deadmeat[h]
      BY <2>1, <2>6 DEF OthersStay
    <3> QED
      BY <2>1, <2>3, <2>4, <3>1 DEF Playing, h
  <2> QED
    BY <2>5, <2>6
<1>4. Sound(World)'
  BY <1>1 DEF Sound, One, Based
<1> QED
  BY <1>3, <1>4


Good == Sound(World)' /\ Licit(World)' /\ CountedOnce

LEMMA ScoreStays ==
    ASSUME Sound(World), teamscore' = teamscore \/ teamscore' = NoScore
    PROVE  CountedOnce
<1>1. teamscore \in [Flag -> Nat]
  BY DEF Sound, World, Worlds
<1>2. \A t \in Flag : ~(teamscore'[t] > teamscore[t])
  BY <1>1 DEF NoScore
<1> QED
  BY <1>2 DEF CountedOnce

LEMMA StayGood ==
    ASSUME Sound(World), Licit(World), NEW v, Quiet(World, v), Becomes(v), UNCHANGED people
    PROVE  Good
<1>1. teamscore' = teamscore
  BY DEF Becomes, Quiet, World
<1> QED
  BY <1>1, PeopleStay, ScoreStays DEF Quiet, Good

LEMMA LostGood ==
    ASSUME Sound(World), Licit(World), NEW v, Sound(v), v.score = teamscore, NEW i \in Sprites,
           WithoutFlag(World, v, i), Becomes(v), OthersStay(i)
    PROVE  Good
<1>1. teamscore' = teamscore
  BY DEF Becomes
<1> QED
  BY <1>1, FlagLost, ScoreStays DEF Good

LEMMA AliveGood ==
    ASSUME Sound(World), Licit(World), NEW v, Quiet(World, v), NEW i \in Sprites, Becomes(v),
           OthersStay(i), ~deadmeat'[i], team'[i] = team[i] \/ team'[i] \notin Flag
    PROVE  Good
<1>1. teamscore' = teamscore
  BY DEF Becomes, Quiet, World
<1> QED
  BY <1>1, HolderAlive, ScoreStays DEF Quiet, Good

LEMMA StandStill ==
    ASSUME Sound(World), Licit(World), UNCHANGED <<people, world>>
    PROVE  Good
<1>1. Becomes(World)
  BY DEF Becomes, World, world
<1>2. UNCHANGED people
  OBVIOUS
<1> QED
  BY <1>1, <1>2, QuietNever, StayGood

LEMMA GoneGood ==
    ASSUME IInv, NEW i \in Sprites, KickPlayer(i) \/ Leave(i)
    PROVE  Good
<1>1. Quiet(World, Killed(World, i)) /\ Becomes(Killed(World, i))
  BY QuietKilled DEF IInv, KickPlayer, Leave
<1>2. Gone(i) /\ (team' = team \/ team' = [team EXCEPT ![i] = None])
  BY DEF KickPlayer, Leave
<1>3. OthersStay(i) /\ ~deadmeat'[i]
  BY <1>2 DEF OthersStay, Gone, IInv, RestOK
<1>4. team'[i] = team[i] \/ team'[i] \notin Flag
  BY <1>2 DEF IInv, RestOK, None, Flag, Alpha, Bravo
<1> QED
  BY <1>1, <1>3, <1>4, AliveGood DEF IInv

\* A newcomer and one who changes teams: those who play are respawned, those who
\* watch have no team of their own to carry a flag of.
LEMMA NewSpriteGood ==
    ASSUME IInv, NEW i \in Sprites, NEW t \in {Alpha, Bravo, Spectator}, NewSprite(i, t),
           NEW w, Quiet(World, w),
           \/ t \in Flag /\ \E opens \in BOOLEAN : Becomes(Respawned(w, i, opens))
           \/ t = Spectator /\ Becomes(w)
    PROVE  Good
<1>1. OthersStay(i) /\ ~deadmeat'[i] /\ team'[i] = t
  BY DEF NewSprite, OthersStay, IInv, RestOK
<1>2. CASE t \in Flag /\ \E opens \in BOOLEAN : Becomes(Respawned(w, i, opens))
  <2>1. PICK opens \in BOOLEAN : Becomes(Respawned(w, i, opens))
    BY <1>2
  <2> DEFINE v == Respawned(w, i, opens)
  <2>2. OnlyParachute(w, v, i)
    BY SpriteRespawned DEF Quiet
  <2> HIDE DEF v
  <2>3. OnlyParachute(World, v, i)
    BY <2>2, QuietThenParachute
  <2>4. Sound(v) /\ v.score = teamscore /\ WithoutFlag(World, v, i)
    BY <2>3, ParachuteIsNoFlag DEF OnlyParachute, World
  <2>5. Becomes(v)
    BY <2>1 DEF v
  <2> QED
    BY <1>1, <2>4, <2>5, LostGood DEF IInv
<1>3. CASE t = Spectator /\ Becomes(w)
  <2>1. team'[i] \notin Flag
    BY <1>1, <1>3 DEF Spectator, Flag, Alpha, Bravo
  <2> QED
    BY <1>1, <1>3, <2>1, AliveGood DEF IInv
<1> QED
  BY <1>2, <1>3

LEMMA ChoiceIsTeam ==
    ASSUME NEW i \in Sprites, NEW t \in Choices[i]
    PROVE  t \in {Alpha, Bravo, Spectator}
BY ChoicesAssumption DEF Sprites, Alpha, Bravo, Spectator

LEMMA JoinGood ==
    ASSUME IInv, NEW i \in Sprites, NEW t \in Choices[i], HandlePlayerInfo(i, t)
    PROVE  Good
<1> DEFINE a == LetGo(World, i)
           w == SameNumber(a, i)
<1>1. i \in 0 .. MaxSprites
  BY SpritesAssumption DEF Sprites
<1>2. Quiet(World, a)
  BY <1>1, QuietLetGo DEF IInv
<1> HIDE DEF a
<1>3. Quiet(a, w)
  BY <1>2, QuietSameNumber DEF Quiet
<1>4. /\ NewSprite(i, t)
      /\ \/ t \in Flag /\ \E opens \in BOOLEAN : Becomes(Respawned(w, i, opens))
         \/ t = Spectator /\ Becomes(w)
  BY DEF HandlePlayerInfo, a
<1> HIDE DEF w
<1>5. Quiet(World, w)
  BY <1>2, <1>3, QuietTwice
<1> QED
  BY <1>4, <1>5, ChoiceIsTeam, NewSpriteGood

LEMMA ChangeTeamGood ==
    ASSUME IInv, NEW i \in Sprites, NEW t \in Choices[i], ChangeTeam(i, t)
    PROVE  Good
<1> DEFINE a == LetGo(World, i)
           w == AllRespawned(a, i)
<1>1. i \in 0 .. MaxSprites
  BY SpritesAssumption DEF Sprites
<1>2. Quiet(World, a)
  BY <1>1, QuietLetGo DEF IInv
<1> HIDE DEF a
<1>3. Quiet(a, w)
  BY <1>2, QuietAllRespawned DEF Quiet
<1>4. /\ NewSprite(i, t)
      /\ \/ t \in Flag /\ \E opens \in BOOLEAN : Becomes(Respawned(w, i, opens))
         \/ t = Spectator /\ Becomes(w)
  BY DEF ChangeTeam, a
<1> HIDE DEF w
<1>5. Quiet(World, w)
  BY <1>2, <1>3, QuietTwice
<1> QED
  BY <1>4, <1>5, ChoiceIsTeam, NewSpriteGood

LEMMA DieGood ==
    ASSUME IInv, NEW i \in Sprites, Die(i)
    PROVE  Good
<1> DEFINE w == ReleaseAll(World, i)
           v == LetGo(w, i)
<1>1. Quiet(World, w) /\ \A k \in Things : IsFlag(w.thing[k]) => w.thing[k].holdingsprite # i
  BY QuietReleaseAll DEF IInv
<1>2. Becomes(v) /\ OthersStay(i)
  BY DEF Die, OthersStay, IInv, RestOK
<1> HIDE DEF w
<1>3. i \in 0 .. MaxSprites
  BY SpritesAssumption DEF Sprites
<1>4. Quiet(w, v) /\ v.thing = w.thing
  BY <1>1, <1>3, QuietLetGo, LetGoFacts DEF Quiet, Sound
<1> HIDE DEF v
<1>5. Quiet(World, v)
  BY <1>1, <1>4, QuietTwice
<1>6. WithoutFlag(World, v, i)
  BY <1>1, <1>4, <1>5 DEF WithoutFlag, Quiet, NoNewHolder
<1>7. Sound(v) /\ v.score = teamscore
  BY <1>5 DEF Quiet, World
<1> QED
  BY <1>2, <1>6, <1>7, LostGood DEF IInv

LEMMA RespawnGood ==
    ASSUME IInv, NEW i \in Sprites, Respawn(i) \/ RespawnNext(i)
    PROVE  Good
<1>1. PICK opens \in BOOLEAN : Becomes(Respawned(World, i, opens))
  BY DEF Respawn, RespawnNext
<1>2. OthersStay(i)
  BY DEF Respawn, RespawnNext, OthersStay, IInv, RestOK
<1> DEFINE v == Respawned(World, i, opens)
<1>3. OnlyParachute(World, v, i)
  BY SpriteRespawned DEF IInv
<1>4. Becomes(v)
  BY <1>1
<1> HIDE DEF v
<1>5. Sound(v) /\ v.score = teamscore /\ WithoutFlag(World, v, i)
  BY <1>3, ParachuteIsNoFlag DEF OnlyParachute, World
<1> QED
  BY <1>2, <1>4, <1>5, LostGood DEF IInv

LEMMA ThrowGood ==
    ASSUME IInv, NEW i \in Sprites, ThrowFlag(i)
    PROVE  Good
<1> DEFINE w == ReleaseAll(World, i)
           v == LetGo(w, i)
<1>1. Becomes(v) /\ UNCHANGED people
  BY DEF ThrowFlag
<1>2. Quiet(World, w) /\ i \in 0 .. MaxSprites
  BY QuietReleaseAll, SpritesAssumption DEF IInv, Sprites
<1> HIDE DEF w
<1>3. Quiet(w, v)
  BY <1>2, QuietLetGo DEF Quiet
<1> HIDE DEF v
<1>4. Quiet(World, v)
  BY <1>2, <1>3, QuietTwice
<1> QED
  BY <1>1, <1>4, StayGood DEF IInv

LEMMA LeaveParachuteGood ==
    ASSUME IInv, NEW i \in Sprites, LeaveParachute(i)
    PROVE  Good
<1> DEFINE k == holdedthing[i]
           w == [World EXCEPT !.thing[k].holdingsprite = 0]
           v == LetGo(w, i)
<1>1. Becomes(v) /\ UNCHANGED people /\ k # 0
  BY DEF LeaveParachute
<1>2. k \in Things /\ i \in 0 .. MaxSprites
  <2>1. holdedthing \in [Sprites -> 0 .. MaxThings]
    BY DEF IInv, Sound, World, Worlds
  <2>2. k \in 0 .. MaxThings
    BY <2>1
  <2> QED
    BY <1>1, <2>2, SpritesAssumption, ThingsAssumption DEF Sprites, Things
<1> HIDE DEF k
<1>3. Quiet(World, w)
  BY <1>2, Dropped DEF IInv
<1> HIDE DEF w
<1>4. Quiet(w, v)
  BY <1>2, <1>3, QuietLetGo DEF Quiet
<1> HIDE DEF v
<1>5. Quiet(World, v)
  BY <1>3, <1>4, QuietTwice
<1> QED
  BY <1>1, <1>5, StayGood DEF IInv


LEMMA UpdateFlagGood ==
    ASSUME IInv, NEW k \in Things, UpdateFlag(k)
    PROVE  Good
<1> DEFINE s == things[k].style
           h == things[k].holdingsprite
<1>1. PICK near \in BOOLEAN, meets \in BOOLEAN, out \in BOOLEAN,
           j \in {i \in Sprites : Alive(i)} \cup {0} :
             Becomes(Updated(World, k, near, meets, out, j))
  BY DEF UpdateFlag, Updated
<1>2. UNCHANGED people /\ World.thing = things /\ World.score = teamscore
  BY DEF UpdateFlag, Update, World
<1>3. FlagAt(World, k, s) /\ Sound(World) /\ Licit(World)
  <2>1. things[k].active /\ s \in Flag
    BY DEF UpdateFlag, Update, Turn, ActiveThings, IsFlag
  <2> QED
    BY <1>2, <2>1 DEF FlagAt, IInv
<1> DEFINE v == Updated(World, k, near, meets, out, j)
<1> HIDE DEF s
<1>4. /\ Sound(v) /\ Licit(v)
      /\ v.score = World.score
         \/ /\ Point(World, k, s)
            /\ v.thing[k].inbase
            /\ v.score = [r \in Flag |-> IF r = team[World.thing[k].holdingsprite]
                                         THEN World.score[r] + 1 ELSE World.score[r]]
  BY <1>3, FlagUpdated
<1>5. Becomes(v)
  BY <1>1
<1> HIDE DEF v
<1>6. World' = v /\ things' = v.thing /\ teamscore' = v.score
  BY <1>4, <1>5, WorldAfter DEF Sound, Becomes
<1>7. Sound(World)' /\ Licit(World)'
  <2>1. team' = team /\ active' = active /\ deadmeat' = deadmeat
    BY <1>2 DEF people
  <2>2. Sound(World)'
    BY <1>4, <1>6 DEF Sound, One, Based
  <2>3. Licit(World)'
    BY <1>4, <1>6, <2>1 DEF Licit, Playing, World
  <2> QED
    BY <2>2, <2>3
<1>8. CASE v.score = World.score
  BY <1>2, <1>3, <1>6, <1>7, <1>8, ScoreStays DEF Good
<1>9. CASE /\ Point(World, k, s)
           /\ v.thing[k].inbase
           /\ v.score = [r \in Flag |-> IF r = team[World.thing[k].holdingsprite]
                                        THEN World.score[r] + 1 ELSE World.score[r]]
  <2>1. h # 0 /\ team[h] # s /\ things[k].active /\ things[k].style = s /\ s \in Flag
        /\ things'[k].inbase
    BY <1>2, <1>3, <1>6, <1>9 DEF Point, FlagAt
  <2>2. PICK l \in Things \ {k} : things[l].active /\ things[l].inbase /\ things[l].holdingsprite = 0
    BY <1>2, <1>9 DEF Point
  <2>3. things[l].style \in Flag /\ things[l].style # s
    <3>1. things[l].style \in Flag
      BY <1>2, <1>3, <2>2 DEF Sound, Based, IsFlag
    <3> QED
      BY <1>2, <1>3, <2>1, <2>2, <3>1 DEF Sound, One, IsFlag
  <2>4. SUFFICES ASSUME NEW t \in Flag, teamscore'[t] > teamscore[t]
                 PROVE  /\ teamscore'[t] = teamscore[t] + 1
                        /\ team[h] = t
    <3>1. ASSUME NEW t \in Flag, teamscore'[t] > teamscore[t], team[h] = t
          PROVE  s \in Flag \ {t} /\ things[l].style = t
      BY <2>1, <2>3, <3>1 DEF Flag
    <3>2. \A t \in Flag : teamscore'[t] > teamscore[t] =>
            /\ teamscore'[t] = teamscore[t] + 1
            /\ \E m \in Things :
                /\ things[m].active /\ things[m].style \in Flag \ {t}
                /\ things[m].holdingsprite # 0 /\ team[things[m].holdingsprite] = t
                /\ things'[m].inbase
            /\ \E m \in Things :
                things[m].active /\ things[m].style = t /\ things[m].inbase
                /\ things[m].holdingsprite = 0
      BY <2>1, <2>2, <2>4, <3>1
    <3> QED
      BY <1>7, <3>2 DEF Good, CountedOnce
  <2>5. teamscore'[t] = IF t = team[h] THEN teamscore[t] + 1 ELSE teamscore[t]
    BY <1>2, <1>6, <1>9
  <2>6. teamscore[t] \in Nat
    BY <1>2, <1>3 DEF Sound, Worlds
  <2> QED
    BY <2>4, <2>5, <2>6
<1> QED
  BY <1>4, <1>8, <1>9

LEMMA UpdateParachuteGood ==
    ASSUME IInv, NEW k \in Things, UpdateParachute(k)
    PROVE  Good
<1> DEFINE h == things[k].holdingsprite
           u == [World EXCEPT !.held[h] = k]
           told == IF h = 0 THEN World ELSE u
<1>1. UNCHANGED people /\ (Becomes(told) \/ Becomes(KillThing(told, k)))
  BY DEF UpdateParachute, Update
<1>2. h \in 0 .. MaxSprites /\ World \in Worlds /\ Sound(World) /\ Licit(World)
  BY ThingRanges DEF IInv, Sound, World
<1> HIDE DEF h
<1>3. Quiet(World, told)
  <2>1. CASE h = 0
    BY <1>2, <2>1, QuietNever
  <2>2. CASE h # 0
    <3>1. h \in Sprites /\ k \in 0 .. MaxThings
      BY <1>2, <2>2, SpritesAssumption, ThingsAssumption DEF Sprites, Things
    <3>2. u \in Worlds /\ u.thing = World.thing /\ u.score = World.score
      BY <1>2, <3>1, SetHandle
    <3> HIDE DEF u
    <3>3. Quiet(World, u)
      BY <1>2, <3>2, QuietHandles
    <3> QED
      BY <2>2, <3>3
  <2> QED
    BY <2>1, <2>2
<1> HIDE DEF told
<1>4. Quiet(told, KillThing(told, k))
  BY <1>3, QuietKillThing DEF Quiet
<1>5. Quiet(World, KillThing(told, k))
  BY <1>3, <1>4, QuietTwice
<1> QED
  BY <1>1, <1>2, <1>3, <1>5, StayGood

LEMMA CheckFlagsGood ==
    ASSUME IInv, CheckFlags
    PROVE  Good
<1> DEFINE u == [World EXCEPT !.score = NoScore]
           a == Checked(u, Alpha)
           b == Checked(a, Bravo)
           v == IF tick = 0 THEN b ELSE u
<1>1. Becomes(v) /\ UNCHANGED people
  BY DEF CheckFlags, EndOfFrame
<1>2. Sound(World) /\ Licit(World) /\ World \in Worlds
  BY DEF IInv, Sound
<1>3. NoScore \in [Flag -> Nat]
  BY DEF NoScore
<1>4. u \in Worlds /\ u.thing = World.thing /\ u.score = NoScore
  BY <1>2, <1>3, SetScores
<1> HIDE DEF u
<1>5. Sound(u) /\ NoNewHolder(World, u)
  BY <1>2, <1>4 DEF Sound, One, Based, NoNewHolder
<1>6. Alpha \in Flag /\ Bravo \in Flag
  BY DEF Flag
<1>7. Quiet(u, a)
  BY <1>5, <1>6, QuietChecked
<1> HIDE DEF a
<1>8. Quiet(a, b)
  BY <1>6, <1>7, QuietChecked DEF Quiet
<1> HIDE DEF b
<1>9. Sound(v) /\ NoNewHolder(World, v) /\ v.score = NoScore
  BY <1>4, <1>5, <1>7, <1>8 DEF Quiet, NoNewHolder
<1> HIDE DEF v
<1>10. teamscore' = NoScore
  BY <1>1, <1>9 DEF Becomes
<1> QED
  BY <1>1, <1>2, <1>9, <1>10, PeopleStay, ScoreStays DEF Good

LEMMA ChangeMapGood ==
    ASSUME IInv, ChangeMap
    PROVE  Good
<1> DEFINE v == [World EXCEPT !.thing = [k \in Things |-> Dead(World.thing[k])]]
<1>1. v = [World EXCEPT !.thing = [k \in Things |-> Dead(things[k])]]
  BY DEF World
<1>2. Becomes(v) /\ UNCHANGED people
  BY <1>1 DEF ChangeMap, people
<1>3. Quiet(World, v)
  BY QuietAllDead DEF IInv
<1> QED
  BY <1>2, <1>3, StayGood DEF IInv

LEMMA FlagsCreatedGood ==
    ASSUME IInv, FlagsCreated
    PROVE  Good
<1> DEFINE a == CreateSomewhere(World, Alpha)
           v == CreateSomewhere(a, Bravo)
<1>1. Becomes(v) /\ UNCHANGED people
  BY DEF FlagsCreated
<1>2. Alpha \in Flag /\ Bravo \in Flag
  BY DEF Flag
<1>3. Quiet(World, a)
  BY <1>2, QuietCreateSomewhere DEF IInv
<1> HIDE DEF a
<1>4. Quiet(a, v)
  BY <1>2, <1>3, QuietCreateSomewhere DEF Quiet
<1> HIDE DEF v
<1>5. Quiet(World, v)
  BY <1>3, <1>4, QuietTwice
<1> QED
  BY <1>1, <1>5, StayGood DEF IInv

LEMMA RestTyped ==
    ASSUME IInv, Next
    PROVE  RestOK'
<1> USE DEF IInv
<1>1. /\ phase \in {"messages", "sprites", "things", "changemap"}
      /\ turn \in {0} \cup Things \cup Sprites
      /\ tick \in 0 .. CheckPeriod - 1
      /\ active \in [Sprites -> BOOLEAN]
      /\ team \in [Sprites -> Flag \cup {None, Spectator}]
      /\ deadmeat \in [Sprites -> BOOLEAN]
      /\ flaggrabcooldown \in [Sprites -> 0 .. GrabCooldown]
      /\ moves \in 0 .. MaxMoves
  BY DEF RestOK
<1>2. 0 \in 0 .. GrabCooldown /\ GrabCooldown \in 0 .. GrabCooldown
  BY TimesAssumption
<1>3. CASE NextFrame
  BY <1>1, <1>3 DEF NextFrame, people, world, RestOK
<1>4. CASE UpdateSprites
  <2>1. flaggrabcooldown' \in [Sprites -> 0 .. GrabCooldown]
    <3>1. \A i \in Sprites : flaggrabcooldown[i] \in 0 .. GrabCooldown
      BY <1>1
    <3>2. \A i \in Sprites :
            (IF active[i] /\ flaggrabcooldown[i] > 0 THEN flaggrabcooldown[i] - 1
             ELSE flaggrabcooldown[i]) \in 0 .. GrabCooldown
      BY <3>1, TimesAssumption
    <3>3. flaggrabcooldown' = [i \in Sprites |->
            IF active[i] /\ flaggrabcooldown[i] > 0 THEN flaggrabcooldown[i] - 1
            ELSE flaggrabcooldown[i]]
      BY <1>4 DEF UpdateSprites
    <3> QED
      BY <3>2, <3>3
  <2> QED
    BY <1>1, <1>4, <2>1 DEF UpdateSprites, people, RestOK
<1>5. ASSUME NEW k \in Things, UpdateFlag(k) \/ UpdateParachute(k) PROVE RestOK'
  BY <1>1, <1>5 DEF UpdateFlag, UpdateParachute, Update, Turn, people, RestOK
<1>6. CASE CheckFlags
  <2>1. (tick + 1) % CheckPeriod \in 0 .. CheckPeriod - 1
    BY <1>1, TimesAssumption
  <2> QED
    BY <1>1, <1>6, <2>1 DEF CheckFlags, EndOfFrame, people, RestOK
<1>7. CASE FlagsCreated
  BY <1>1, <1>7 DEF FlagsCreated, people, RestOK
<1>8. ASSUME NEW i \in Sprites, RespawnNext(i) PROVE RestOK'
  BY <1>1, <1>8 DEF RespawnNext, Turn, RestOK
<1>9. ASSUME Move PROVE moves' \in 0 .. MaxMoves
  BY <1>1, <1>9, MovesAssumption DEF Move
<1>10. CASE ChangeMap
  BY <1>1, <1>9, <1>10 DEF ChangeMap, people, RestOK
<1>11. ASSUME NEW i \in Sprites, KickPlayer(i) \/ Leave(i) PROVE RestOK'
  BY <1>1, <1>2, <1>9, <1>11 DEF KickPlayer, Leave, Gone, clock, RestOK
<1>12. ASSUME NEW i \in Sprites, NEW t \in Choices[i], HandlePlayerInfo(i, t) PROVE RestOK'
  <2>1. t \in Flag \cup {None, Spectator}
    BY ChoiceIsTeam DEF Flag
  <2> QED
    BY <1>1, <1>2, <1>12, <2>1 DEF HandlePlayerInfo, NewSprite, clock, RestOK
<1>13. ASSUME NEW i \in Sprites, NEW t \in Choices[i], ChangeTeam(i, t) PROVE RestOK'
  <2>1. t \in Flag \cup {None, Spectator}
    BY ChoiceIsTeam DEF Flag
  <2> QED
    BY <1>1, <1>2, <1>9, <1>13, <2>1 DEF ChangeTeam, NewSprite, clock, RestOK
<1>14. ASSUME NEW i \in Sprites, Die(i) \/ Respawn(i) PROVE RestOK'
  BY <1>1, <1>14 DEF Die, Respawn, clock, RestOK
<1>15. ASSUME NEW i \in Sprites, ThrowFlag(i) \/ LeaveParachute(i) PROVE RestOK'
  BY <1>1, <1>2, <1>15 DEF ThrowFlag, LeaveParachute, clock, people, RestOK
<1> QED
  BY <1>3, <1>4, <1>5, <1>6, <1>7, <1>8, <1>10, <1>11, <1>12, <1>13, <1>14, <1>15 DEF Next, Frame

\* Every step keeps the invariant and counts a capture once.
LEMMA StepGood ==
    ASSUME IInv, [Next]_vars
    PROVE  IInv' /\ CountedOnce
<1>1. ASSUME UNCHANGED vars PROVE IInv' /\ CountedOnce
  <2>1. UNCHANGED <<people, world>> /\ RestOK'
    BY <1>1 DEF vars, clock, people, IInv, RestOK
  <2> QED
    BY <2>1, StandStill DEF IInv, Good
<1>2. ASSUME Next PROVE Good
  <2>1. CASE NextFrame
    BY <2>1, StandStill DEF NextFrame, IInv
  <2>2. CASE UpdateSprites
    BY <2>2, StandStill DEF UpdateSprites, IInv
  <2> QED
    BY <1>2, <2>1, <2>2, UpdateFlagGood, UpdateParachuteGood, CheckFlagsGood, FlagsCreatedGood,
       RespawnGood, ChangeMapGood, GoneGood, JoinGood, ChangeTeamGood, DieGood, ThrowGood,
       LeaveParachuteGood DEF Next, Frame
<1> QED
  BY <1>1, <1>2, RestTyped DEF IInv, Good

LEMMA InitGood == Init => IInv
<1> SUFFICES ASSUME Init PROVE IInv
  OBVIOUS
<1>1. NoThing \in Thing /\ ~NoThing.active /\ NoThing.holdingsprite = 0 /\ ~NoThing.inbase
      /\ NoThing.style = 0
  BY NewThingFields, DeadFields DEF NoThing
<1>2. \A k \in Flag : /\ NewThing(k) \in Thing /\ NewThing(k).style = k
                      /\ NewThing(k).holdingsprite = 0 /\ NewThing(k).active
  BY NewThingFields
<1>3. \A k \in Things : things[k] = IF k \in Flag THEN NewThing(k) ELSE NoThing
  BY DEF Init
<1>4. things \in [Things -> Thing]
  BY <1>1, <1>2 DEF Init
<1>5. World \in Worlds
  <2>1. holdedthing \in [Sprites -> 0 .. MaxThings] /\ teamscore \in [Flag -> Nat]
    BY ThingsAssumption DEF Init, NoScore
  <2> QED
    BY <1>4, <2>1 DEF World, Worlds
<1>6. Sound(World)
  <2>1. One(World)
    BY <1>1, <1>2, <1>3 DEF One, IsFlag, World
  <2>2. Based(World)
    BY <1>1, <1>2, <1>3 DEF Based, IsFlag, World
  <2> QED
    BY <1>5, <2>1, <2>2 DEF Sound
<1>7. Licit(World)
  BY <1>1, <1>2, <1>3 DEF Licit, World
<1>8. RestOK
  BY TimesAssumption, MovesAssumption DEF Init, RestOK
<1> QED
  BY <1>6, <1>7, <1>8 DEF IInv

LEMMA Invariant == Spec => []IInv
<1>1. IInv /\ [Next]_vars => IInv'
  BY StepGood
<1> QED
  BY <1>1, InitGood, PTL DEF Spec

-----------------------------------------------------------------------------
(* Handles.  A step is several calls; between two of them a handle may name a     *)
(* flag that does not name the sprite only if the flag was not there, in that     *)
(* slot, when the step began.                                                     *)

Lies(w, i, k) ==
    w.held[i] = k /\ w.thing[k].active /\ IsFlag(w.thing[k]) /\ w.thing[k].holdingsprite # i

Old(w, v, k) == w.thing[k].active /\ w.thing[k].style = v.thing[k].style

Excused(w, v) ==
    v \in Worlds /\ \A i \in Sprites, k \in Things : Lies(v, i, k) => ~Old(w, v, k)

\* A call that makes no handle lie about a flag that was there.
LEMMA ExcusedStep ==
    ASSUME NEW w, NEW u, Excused(w, u), NEW v \in Worlds,
           \A i \in Sprites, k \in Things :
               Lies(v, i, k) /\ Old(w, v, k) => Lies(u, i, k) /\ v.thing[k].style = u.thing[k].style
    PROVE  Excused(w, v)
BY DEF Excused, Old

LEMMA ExcusedLess ==
    ASSUME NEW w, NEW u, Excused(w, u), NEW v \in Worlds,
           \A i \in Sprites, k \in Things :
               Lies(v, i, k) => Lies(u, i, k) /\ v.thing[k].style = u.thing[k].style
    PROVE  Excused(w, v)
BY ExcusedStep

LEMMA ExcusedFirst ==
    ASSUME World \in Worlds, Honest
    PROVE  Excused(World, World)
<1> SUFFICES ASSUME NEW i \in Sprites, NEW k \in Things, Lies(World, i, k)
             PROVE  FALSE
  BY DEF Excused
<1>1. holdedthing[i] = k /\ k # 0
  BY DEF Lies, World, Things
<1> QED
  BY <1>1 DEF Lies, World, Honest, HeldBy

Told == Honest' \/ FlagInNewPlace

LEMMA ExcusedLast ==
    ASSUME World \in Worlds, NEW v, Excused(World, v), Becomes(v)
    PROVE  Told
<1>1. things' = v.thing /\ holdedthing' = v.held /\ World.thing = things /\ v \in Worlds
  BY DEF Becomes, World, Excused
<1> SUFFICES ASSUME ~FlagInNewPlace, NEW i \in Sprites, holdedthing'[i] # 0,
                    things'[holdedthing'[i]].active, IsFlag(things'[holdedthing'[i]])
             PROVE  things'[holdedthing'[i]].holdingsprite = i
  BY DEF Told, Honest, HeldBy
<1> DEFINE k == v.held[i]
<1>2. k \in Things /\ things'[k].active /\ IsFlag(things'[k])
  <2>1. k \in 0 .. MaxThings
    BY <1>1 DEF Worlds
  <2> QED
    BY <1>1, <2>1, ThingsAssumption DEF Things
<1>3. things[k].active /\ things[k].style = things'[k].style
  BY <1>2 DEF FlagInNewPlace
<1>4. ~Lies(v, i, k)
  BY <1>1, <1>2, <1>3 DEF Excused, Old
<1> QED
  BY <1>1, <1>2, <1>4 DEF Lies

LEMMA ExcusedLetGo ==
    ASSUME NEW w, NEW u, Excused(w, u), NEW i \in 0 .. MaxSprites
    PROVE  Excused(w, LetGo(u, i))
<1> DEFINE v == LetGo(u, i)
<1>1. v \in Worlds /\ v.thing = u.thing
      /\ \A j \in Sprites : v.held[j] = IF j = i THEN 0 ELSE u.held[j]
  BY LetGoFacts, LetGoHeld DEF Excused
<1> HIDE DEF v
<1>2. \A j \in Sprites, k \in Things :
        Lies(v, j, k) => Lies(u, j, k) /\ v.thing[k].style = u.thing[k].style
  BY <1>1 DEF Lies, Things
<1>3. Excused(w, v)
  BY <1>1, <1>2, ExcusedLess
<1> QED
  BY <1>3 DEF v

LEMMA ExcusedKillThing ==
    ASSUME NEW w, NEW u, Excused(w, u), NEW k \in Things
    PROVE  Excused(w, KillThing(u, k))
<1> DEFINE v == KillThing(u, k)
<1>1. v \in Worlds /\ v.held = u.held
      /\ \A l \in Things : v.thing[l] = IF l = k THEN Dead(u.thing[l]) ELSE u.thing[l]
  BY KillThingFacts, KillThingEach DEF Excused
<1> HIDE DEF v
<1>2. ~v.thing[k].active
  BY <1>1, ThingTyped, DeadFields DEF Excused
<1>3. \A j \in Sprites, l \in Things : Lies(v, j, l) => Lies(u, j, l) /\ v.thing[l].style = u.thing[l].style
  BY <1>1, <1>2 DEF Lies
<1>4. Excused(w, v)
  BY <1>1, <1>3, ExcusedStep
<1> QED
  BY <1>4 DEF v

\* A thing is created where there is none, or the flag it is has just let go.
LEMMA ExcusedCreateThing ==
    ASSUME NEW w, NEW u, Excused(w, u), NEW k \in Things, NEW s \in Flag \cup {0, Parachute},
           s \in Flag /\ w.thing[k].active /\ w.thing[k].style = s =>
               /\ u.thing[k].active /\ u.thing[k].style = s
               /\ \A j \in Sprites : u.thing[k].holdingsprite = j => u.held[j] # k
    PROVE  Excused(w, CreateThing(u, k, s))
<1> DEFINE v == CreateThing(u, k, s)
<1>1. /\ v \in Worlds /\ v.held = u.held
      /\ \A l \in Things :
            v.thing[l] = IF l = k THEN NewThing(s)
                         ELSE IF s \in Flag /\ u.thing[l].style = s THEN Dead(u.thing[l])
                         ELSE u.thing[l]
  BY CreateThingFacts DEF Excused
<1> HIDE DEF v
<1>2. v.thing[k].style = s
  BY <1>1, NewThingFields
<1> SUFFICES ASSUME NEW j \in Sprites, NEW l \in Things, Lies(v, j, l), Old(w, v, l)
             PROVE  Lies(u, j, l) /\ v.thing[l].style = u.thing[l].style
  BY <1>1, ExcusedStep DEF v
<1>3. CASE l = k
  BY <1>1, <1>2, <1>3 DEF Lies, Old, IsFlag
<1>4. CASE l # k
  <2>1. u.thing[l] \in Thing
    BY ThingTyped DEF Excused
  <2>2. v.thing[l] \in {Dead(u.thing[l]), u.thing[l]} /\ ~Dead(u.thing[l]).active
    BY <1>1, <1>4, <2>1, DeadFields
  <2>3. v.thing[l] = u.thing[l]
    BY <2>2 DEF Lies
  <2> QED
    BY <1>1, <2>3 DEF Lies
<1> QED
  BY <1>3, <1>4

LEMMA ExcusedRespawnThing ==
    ASSUME NEW w, NEW u, Excused(w, u), NEW k \in Things,
           Old(w, u, k) => u.thing[k].active
    PROVE  Excused(w, RespawnThing(u, k))
<1> DEFINE h == u.thing[k].holdingsprite
           s == u.thing[k].style
           v == LetGo(u, h)
<1>1. h \in 0 .. MaxSprites /\ s \in Flag \cup {0, Parachute} /\ u \in Worlds
  BY ThingRanges DEF Excused
<1>2. RespawnThing(u, k) = CreateThing(v, k, s)
  BY DEF RespawnThing
<1>3. v.thing = u.thing /\ \A j \in Sprites : v.held[j] = IF j = h THEN 0 ELSE u.held[j]
  BY <1>1, LetGoFacts, LetGoHeld
<1>4. Excused(w, v)
  BY <1>1, ExcusedLetGo
<1>5. w.thing[k].active /\ w.thing[k].style = s => u.thing[k].active /\ u.thing[k].style = s
  BY DEF Old
<1>6. \A j \in Sprites : v.thing[k].holdingsprite = j => v.held[j] # k
  <2>1. k # 0
    BY DEF Things
  <2> QED
    BY <1>3, <2>1
<1> HIDE DEF h, s, v
<1> QED
  BY <1>1, <1>2, <1>3, <1>4, <1>5, <1>6, ExcusedCreateThing

\* Where a thing is created because there is room, it is no flag that was there: of
\* those only flags of the other team have died in the step.
LEMMA ExcusedCreateSomewhere ==
    ASSUME NEW w, NEW u, Excused(w, u), NEW s \in Flag,
           \A k \in Things : w.thing[k].active /\ w.thing[k].style = s => u.thing[k].active
    PROVE  Excused(w, CreateSomewhere(u, s))
<1>1. CASE Free(u) = {}
  BY <1>1 DEF CreateSomewhere
<1>2. CASE Free(u) # {}
  <2>1. FirstFree(u) \in Things /\ ~u.thing[FirstFree(u)].active
    BY <1>2, FirstFreeIsFree DEF Excused
  <2>2. Excused(w, CreateThing(u, FirstFree(u), s))
    BY <2>1, ExcusedCreateThing
  <2> QED
    BY <1>2, <2>2 DEF CreateSomewhere
<1> QED
  BY <1>1, <1>2

-----------------------------------------------------------------------------
(* Handles: what happens to a sprite *)

LEMMA ExcusedHolders ==
    ASSUME NEW w, NEW u, Excused(w, u), NEW v \in Worlds, v.held = u.held,
           \A l \in Things :
               /\ v.thing[l].active => u.thing[l].active
               /\ v.thing[l].style = u.thing[l].style
               /\ v.thing[l].holdingsprite = u.thing[l].holdingsprite
    PROVE  Excused(w, v)
<1>1. \A i \in Sprites, l \in Things :
        Lies(v, i, l) => Lies(u, i, l) /\ v.thing[l].style = u.thing[l].style
  BY DEF Lies, IsFlag
<1> QED
  BY <1>1, ExcusedStep

LEMMA ExcusedKilled ==
    ASSUME NEW w, NEW u, Excused(w, u), NEW i \in Sprites
    PROVE  Excused(w, Killed(u, i))
<1> DEFINE k == u.held[i]
           th == [u.thing[k] EXCEPT !.holdingsprite = 0]
           d == [u EXCEPT !.thing[k] = th]
           v == LetGo(d, i)
<1>1. CASE ~(k # 0 /\ IsFlag(u.thing[k]))
  BY <1>1 DEF Killed
<1>2. CASE k # 0 /\ IsFlag(u.thing[k])
  <2>1. u \in Worlds /\ u.held \in [Sprites -> 0 .. MaxThings]
    BY DEF Excused, Worlds
  <2>2. k \in Things
    BY <1>2, <2>1, ThingsAssumption DEF Things
  <2>3. Killed(u, i) = v
    BY <1>2 DEF Killed
  <2>4. u.held[i] = k /\ IsFlag(u.thing[k])
    BY <1>2
  <2> HIDE DEF k
  <2>5. u.thing[k] \in Thing /\ 0 \in 0 .. MaxSprites /\ i \in 0 .. MaxSprites
    BY <2>1, <2>2, ThingTyped, SpritesAssumption DEF Sprites
  <2>6. /\ th \in Thing /\ th.style = u.thing[k].style /\ th.active = u.thing[k].active
        /\ th.holdingsprite = 0
    BY <2>5, HolderFields
  <2> HIDE DEF th
  <2>7. d \in Worlds /\ d.thing = [u.thing EXCEPT ![k] = th] /\ d.held = u.held
    BY <2>1, <2>2, <2>6, SetThing
  <2>8. \A l \in Things : d.thing[l] = IF l = k THEN th ELSE u.thing[l]
    BY <2>1, <2>2, <2>7 DEF Worlds
  <2> HIDE DEF d
  <2>9. v \in Worlds /\ v.thing = d.thing
        /\ \A j \in Sprites : v.held[j] = IF j = i THEN 0 ELSE d.held[j]
    BY <2>5, <2>7, LetGoFacts, LetGoHeld
  <2> HIDE DEF v
  <2>10. ASSUME NEW j \in Sprites, NEW l \in Things, Lies(v, j, l), Old(w, v, l)
         PROVE  Lies(u, j, l) /\ v.thing[l].style = u.thing[l].style
    <3>1. j # i /\ u.held[j] = l
      BY <2>7, <2>9, <2>10 DEF Lies, Things
    <3>2. CASE l # k
      BY <2>8, <2>9, <2>10, <3>1, <3>2 DEF Lies
    <3>3. CASE l = k
      <4>1. u.thing[k].active /\ Old(w, u, k)
        BY <2>6, <2>8, <2>9, <2>10, <3>3 DEF Lies, Old
      <4>2. ~Lies(u, i, k)
        BY <2>2, <4>1 DEF Excused
      <4>3. u.thing[k].holdingsprite = i
        BY <2>4, <4>1, <4>2 DEF Lies
      <4> QED
        BY <2>4, <2>6, <2>8, <2>9, <3>1, <3>3, <4>1, <4>3 DEF Lies
    <3> QED
      BY <3>2, <3>3
  <2> QED
    BY <2>3, <2>9, <2>10, ExcusedStep
<1> QED
  BY <1>1, <1>2

LEMMA ExcusedReleaseAll ==
    ASSUME NEW w, NEW u, Excused(w, u), NEW i \in Sprites
    PROVE  Excused(w, LetGo(ReleaseAll(u, i), i))
<1> DEFINE d == ReleaseAll(u, i)
           v == LetGo(d, i)
<1>1. /\ d \in Worlds /\ d.held = u.held
      /\ \A k \in Things :
            d.thing[k] = IF u.thing[k].holdingsprite = i /\ IsFlag(u.thing[k])
                         THEN [u.thing[k] EXCEPT !.holdingsprite = 0] ELSE u.thing[k]
  BY ReleaseAllFacts DEF Excused
<1> HIDE DEF d
<1>2. i \in 0 .. MaxSprites /\ 0 \in 0 .. MaxSprites
  BY SpritesAssumption DEF Sprites
<1>3. v \in Worlds /\ v.thing = d.thing
      /\ \A j \in Sprites : v.held[j] = IF j = i THEN 0 ELSE d.held[j]
  BY <1>1, <1>2, LetGoFacts, LetGoHeld
<1> HIDE DEF v
<1>4. v \in Worlds /\ v.thing = d.thing
      /\ \A j \in Sprites : v.held[j] = IF j = i THEN 0 ELSE u.held[j]
  BY <1>1, <1>3
<1>5. ASSUME NEW j \in Sprites, NEW l \in Things, Lies(v, j, l), Old(w, v, l)
      PROVE  Lies(u, j, l) /\ v.thing[l].style = u.thing[l].style
  <2>1. j # i /\ u.held[j] = l
    BY <1>4, <1>5 DEF Lies, Things
  <2>2. u.thing[l] \in Thing
    BY ThingTyped DEF Excused
  <2>3. v.thing[l].active = u.thing[l].active /\ v.thing[l].style = u.thing[l].style
    <3> DEFINE x == [u.thing[l] EXCEPT !.holdingsprite = 0]
    <3>1. v.thing[l] \in {u.thing[l], x}
      BY <1>1, <1>4
    <3>2. x.active = u.thing[l].active /\ x.style = u.thing[l].style
      BY <1>2, <2>2, HolderFields
    <3> HIDE DEF x
    <3> QED
      BY <3>1, <3>2
  <2>4. u.thing[l].holdingsprite # j
    <3>1. CASE u.thing[l].holdingsprite = i
      BY <2>1, <3>1
    <3>2. CASE u.thing[l].holdingsprite # i
      BY <1>1, <1>4, <1>5, <3>2 DEF Lies
    <3> QED
      BY <3>1, <3>2
  <2> QED
    BY <1>5, <2>1, <2>3, <2>4 DEF Lies, IsFlag
<1> QED
  BY <1>4, <1>5, ExcusedStep DEF v, d

LEMMA ExcusedAllRespawned ==
    ASSUME NEW w, NEW u, Excused(w, u), NEW i \in Sprites, u.held[i] = 0,
           NEW v \in Worlds, v = AllRespawned(u, i), v.held = u.held,
           \A k \in Things : Old(w, u, k) => u.thing[k].active
    PROVE  Excused(w, v)
<1> DEFINE mine == {k \in Things : u.thing[k].holdingsprite = i}
           Rivals(k) == {l \in mine : IsFlag(u.thing[l]) /\ u.thing[l].style = u.thing[k].style}
           New(k) == NewThing(u.thing[k].style)
           g(k) == IF k \in mine
                   THEN IF \E l \in Rivals(k) : l > k THEN Dead(New(k)) ELSE New(k)
                   ELSE IF Rivals(k) # {} THEN Dead(u.thing[k]) ELSE u.thing[k]
           f == [k \in Things |-> g(k)]
<1>1. AllRespawned(u, i) = [u EXCEPT !.thing = f]
  BY DEF AllRespawned, HeldBy
<1>2. v.thing = f
  BY <1>1 DEF Excused, Worlds
<1>3. ASSUME NEW j \in Sprites, NEW l \in Things, Lies(v, j, l), Old(w, v, l)
      PROVE  Lies(u, j, l) /\ v.thing[l].style = u.thing[l].style
  <2>1. v.thing[l] = g(l) /\ v.thing[l].active
    BY <1>2, <1>3 DEF Lies
  <2>2. u.thing[l] \in Thing /\ u.thing[l].style \in Flag \cup {0, Parachute}
    BY ThingTyped, ThingRanges DEF Excused
  <2>3. u.held[j] = l /\ j # i
    BY <1>3 DEF Lies, Things
  <2>4. CASE l \in mine
    <3>1. g(l) \in {Dead(New(l)), New(l)} /\ u.thing[l].holdingsprite = i
      BY <2>4
    <3>2. New(l) \in Thing /\ New(l).style = u.thing[l].style
      BY <2>2, NewThingFields
    <3> HIDE DEF New
    <3>3. Dead(New(l)).style = u.thing[l].style
      BY <3>2, DeadFields
    <3> HIDE DEF g, mine
    <3>4. v.thing[l].style = u.thing[l].style
      BY <2>1, <3>1, <3>2, <3>3
    <3>5. u.thing[l].active
      BY <1>3, <3>4 DEF Old
    <3> QED
      BY <1>3, <2>3, <3>1, <3>4, <3>5 DEF Lies, IsFlag
  <2>5. CASE l \notin mine
    <3>1. g(l) \in {Dead(u.thing[l]), u.thing[l]}
      BY <2>5
    <3>2. ~Dead(u.thing[l]).active
      BY <2>2, DeadFields
    <3> HIDE DEF g, mine
    <3>3. v.thing[l] = u.thing[l]
      BY <2>1, <3>1, <3>2
    <3> QED
      BY <1>3, <2>3, <3>3 DEF Lies
  <2> QED
    BY <2>4, <2>5
<1> QED
  BY <1>3, ExcusedStep

LEMMA ExcusedParachute ==
    ASSUME NEW w, NEW u, Excused(w, u), NEW i \in Sprites, NEW opens \in BOOLEAN
    PROVE  Excused(w, OpenParachute(u, i, opens))
<1> DEFINE f == [k \in Things |-> IF u.thing[k].holdingsprite = i
                                  THEN [Dead(u.thing[k]) EXCEPT !.holdingsprite = 0]
                                  ELSE u.thing[k]]
           bare == [u EXCEPT !.thing = f]
           k == FirstFree(bare)
           c == CreateThing(bare, k, Parachute)
           th == [c.thing[k] EXCEPT !.holdingsprite = i]
           d == [c EXCEPT !.thing[k] = th]
           e == [d EXCEPT !.held[i] = k]
<1>1. i \in 0 .. MaxSprites /\ 0 \in 0 .. MaxSprites /\ u \in Worlds
  BY SpritesAssumption DEF Sprites, Excused
<1>2. ASSUME NEW l \in Things PROVE f[l] \in Thing /\ (f[l].active => f[l] = u.thing[l])
  <2>1. u.thing[l] \in Thing /\ Dead(u.thing[l]) \in Thing /\ ~Dead(u.thing[l]).active
    BY <1>1, ThingTyped, DeadFields
  <2>2. /\ [Dead(u.thing[l]) EXCEPT !.holdingsprite = 0] \in Thing
        /\ ~[Dead(u.thing[l]) EXCEPT !.holdingsprite = 0].active
    BY <1>1, <2>1, HolderFields
  <2> QED
    BY <2>1, <2>2
<1>3. f \in [Things -> Thing]
  BY <1>2
<1> HIDE DEF f
<1>4. bare \in Worlds /\ bare.thing = f /\ bare.held = u.held
  BY <1>1, <1>3, SetThings
<1> HIDE DEF bare
<1>5. Excused(w, bare)
  <2>1. \A j \in Sprites, l \in Things :
            Lies(bare, j, l) => Lies(u, j, l) /\ bare.thing[l].style = u.thing[l].style
    BY <1>2, <1>4 DEF Lies
  <2> QED
    BY <1>4, <2>1, ExcusedStep
<1>6. CASE ~(opens /\ Free(bare) # {})
  <2>1. OpenParachute(u, i, opens) = bare
    BY <1>6 DEF OpenParachute, HeldBy, bare, f
  <2> QED
    BY <1>5, <2>1
<1>7. CASE opens /\ Free(bare) # {}
  <2>1. OpenParachute(u, i, opens) = e
    BY <1>7 DEF OpenParachute, HeldBy, bare, f
  <2>2. k \in Things
    BY <1>4, <1>7, FirstFreeIsFree
  <2> HIDE DEF k
  <2>3. Parachute \notin Flag /\ Parachute \in Flag \cup {0, Parachute}
    BY DEF Flag, Alpha, Bravo, Parachute
  <2>4. c \in Worlds /\ c.held = bare.held
        /\ \A l \in Things : c.thing[l] = IF l = k THEN NewThing(Parachute) ELSE bare.thing[l]
    BY <1>4, <2>2, <2>3, CreateThingFacts
  <2> HIDE DEF c
  <2>5. c.thing[k] \in Thing /\ k \in 0 .. MaxThings
    BY <2>2, <2>4, ThingTyped, ThingsAssumption DEF Things
  <2>6. th \in Thing /\ th.style = Parachute
    <3>1. c.thing[k].style = Parachute
      BY <2>2, <2>3, <2>4, NewThingFields
    <3> QED
      BY <1>1, <2>5, <3>1, HolderFields
  <2> HIDE DEF th
  <2>7. d \in Worlds /\ d.thing = [c.thing EXCEPT ![k] = th] /\ d.held = c.held
    BY <2>2, <2>4, <2>6, SetThing
  <2>8. \A l \in Things : d.thing[l] = IF l = k THEN th ELSE c.thing[l]
    BY <2>2, <2>4, <2>7 DEF Worlds
  <2> HIDE DEF d
  <2>9. e \in Worlds /\ e.thing = d.thing /\ e.held = [d.held EXCEPT ![i] = k]
    BY <2>5, <2>7, SetHandle
  <2>10. \A j \in Sprites : e.held[j] = IF j = i THEN k ELSE bare.held[j]
    BY <2>4, <2>7, <2>9 DEF Worlds
  <2> HIDE DEF e
  <2>11. ASSUME NEW j \in Sprites, NEW l \in Things, Lies(e, j, l)
         PROVE  Lies(bare, j, l) /\ e.thing[l].style = bare.thing[l].style
    <3>1. l # k
      BY <2>3, <2>6, <2>8, <2>9, <2>11 DEF Lies, IsFlag
    <3>2. e.thing[l] = bare.thing[l] /\ bare.held[j] = l
      BY <2>4, <2>8, <2>9, <2>10, <2>11, <3>1 DEF Lies
    <3> QED
      BY <2>11, <3>2 DEF Lies
  <2> QED
    BY <1>5, <2>1, <2>9, <2>11, ExcusedStep
<1> QED
  BY <1>6, <1>7

\* What a sprite holds when it is respawned has not died in the step.
LEMMA ExcusedRespawned ==
    ASSUME NEW w, NEW u, Excused(w, u), NEW i \in Sprites, NEW opens \in BOOLEAN,
           u.held[i] = 0 \/ u = w
    PROVE  Excused(w, Respawned(u, i, opens))
<1> DEFINE k == u.held[i]
           empty == IF k = 0 THEN u
                    ELSE IF u.thing[k].style = Parachute THEN KillThing(u, k)
                    ELSE RespawnThing(u, k)
           v == LetGo(empty, i)
<1>1. u.held \in [Sprites -> 0 .. MaxThings] /\ i \in 0 .. MaxSprites
  BY SpritesAssumption DEF Excused, Worlds, Sprites
<1>2. k = 0 \/ (k \in Things /\ u = w)
  BY <1>1, ThingsAssumption DEF Things
<1>3. Respawned(u, i, opens) = OpenParachute(v, i, opens)
  BY DEF Respawned
<1>4. Excused(w, empty)
  <2> HIDE DEF k
  <2>1. CASE k = 0
    BY <2>1
  <2>2. CASE k \in Things /\ u = w
    <3>1. k # 0 /\ (Old(w, u, k) => u.thing[k].active)
      BY <2>2 DEF Old, Things
    <3> QED
      BY <2>2, <3>1, ExcusedKillThing, ExcusedRespawnThing
  <2> QED
    BY <1>2, <2>1, <2>2
<1> HIDE DEF empty
<1>5. Excused(w, v)
  BY <1>1, <1>4, ExcusedLetGo
<1> HIDE DEF v
<1> QED
  BY <1>3, <1>5, ExcusedParachute

-----------------------------------------------------------------------------
(* Handles: the update of a flag *)

LEMMA ExcusedTimed ==
    ASSUME NEW w, NEW u, Excused(w, u), Sound(u), NEW k \in Things, NEW t \in 0 .. FlagTimeout
    PROVE  Excused(w, [u EXCEPT !.thing[k].timeout = t])
<1> DEFINE v == [u EXCEPT !.thing[k].timeout = t]
<1>1. /\ v \in Worlds /\ v.held = u.held
      /\ \A l \in Things : v.thing[l] =
            IF l = k THEN [u.thing[k] EXCEPT !.timeout = t] ELSE u.thing[l]
  BY Timed DEF Quiet, Sound
<1>2. u.thing[k] \in Thing
  BY ThingTyped DEF Excused
<1> HIDE DEF v
<1> DEFINE x == [u.thing[k] EXCEPT !.timeout = t]
<1>3. /\ x.active = u.thing[k].active /\ x.style = u.thing[k].style
      /\ x.holdingsprite = u.thing[k].holdingsprite
  BY <1>2, TimeoutFields
<1>4. \A l \in Things : v.thing[l] = IF l = k THEN x ELSE u.thing[l]
  BY <1>1
<1> HIDE DEF x
<1>5. ASSUME NEW l \in Things
      PROVE  /\ v.thing[l].active => u.thing[l].active
             /\ v.thing[l].style = u.thing[l].style
             /\ v.thing[l].holdingsprite = u.thing[l].holdingsprite
  <2>1. CASE l = k
    BY <1>3, <1>4, <2>1
  <2>2. CASE l # k
    BY <1>1, <2>2
  <2> QED
    BY <2>1, <2>2
<1>6. Excused(w, v)
  BY <1>1, <1>5, ExcusedHolders
<1> QED
  BY <1>6 DEF v

\* The holder of a thing is told what it holds, and that is the truth.
LEMMA ExcusedHandle ==
    ASSUME NEW w, NEW u, Excused(w, u), NEW k \in Things, u.thing[k].holdingsprite # 0
    PROVE  Excused(w, [u EXCEPT !.held[u.thing[k].holdingsprite] = k])
<1> DEFINE h == u.thing[k].holdingsprite
           v == [u EXCEPT !.held[h] = k]
<1>1. h \in Sprites /\ k \in 0 .. MaxThings /\ u \in Worlds
  <2>1. h \in 0 .. MaxSprites
    BY ThingRanges DEF Excused
  <2> QED
    BY <2>1, SpritesAssumption, ThingsAssumption DEF Sprites, Things, Excused
<1>2. u.thing[k].holdingsprite = h
  OBVIOUS
<1> HIDE DEF h
<1>3. v \in Worlds /\ v.thing = u.thing /\ v.held = [u.held EXCEPT ![h] = k]
  BY <1>1, SetHandle
<1>4. \A j \in Sprites : v.held[j] = IF j = h THEN k ELSE u.held[j]
  BY <1>1, <1>3 DEF Worlds
<1> HIDE DEF v
<1>5. \A j \in Sprites, l \in Things :
        Lies(v, j, l) => Lies(u, j, l) /\ v.thing[l].style = u.thing[l].style
  BY <1>2, <1>3, <1>4 DEF Lies
<1>6. Excused(w, v)
  BY <1>3, <1>5, ExcusedStep
<1> QED
  BY <1>6 DEF v, h

LEMMA ExcusedFollowed ==
    ASSUME NEW w, NEW u, Excused(w, u), Sound(u), NEW k \in Things
    PROVE  Excused(w, Followed(u, k))
<1> DEFINE h == u.thing[k].holdingsprite
           a == [u EXCEPT !.held[h] = k]
           v == [a EXCEPT !.thing[k].timeout = FlagTimeout]
<1>1. CASE h = 0
  BY <1>1 DEF Followed
<1>2. CASE h # 0
  <2>1. Followed(u, k) = v
    BY <1>2 DEF Followed
  <2>2. h \in Sprites /\ k \in 0 .. MaxThings /\ FlagTimeout \in 0 .. FlagTimeout
    <3>1. h \in 0 .. MaxSprites
      BY ThingRanges DEF Excused
    <3> QED
      BY <1>2, <3>1, SpritesAssumption, ThingsAssumption, TimesAssumption DEF Sprites, Things
  <2>3. Excused(w, a)
    BY <1>2, ExcusedHandle
  <2> HIDE DEF h
  <2>4. a \in Worlds /\ a.thing = u.thing /\ a.score = u.score
    BY <2>2, SetHandle DEF Sound
  <2> HIDE DEF a
  <2>5. Sound(a)
    BY <2>4, QuietHandles DEF Quiet
  <2> QED
    BY <2>1, <2>2, <2>3, <2>5, ExcusedTimed
<1> QED
  BY <1>1, <1>2

LEMMA ExcusedLocated ==
    ASSUME NEW w, NEW u, Excused(w, u), NEW k \in Things, u.thing[k].active, NEW near \in BOOLEAN
    PROVE  Excused(w, Located(u, k, near))
<1> DEFINE t == IF near THEN FlagTimeout ELSE u.thing[k].timeout
           a == [u.thing[k] EXCEPT !.inbase = near]
           th == [a EXCEPT !.timeout = t]
           v == [u EXCEPT !.thing[k] = th]
<1>1. u \in Worlds /\ u.thing[k] \in Thing /\ t \in 0 .. FlagTimeout
  BY ThingTyped, ThingRanges, TimesAssumption DEF Excused
<1>2. [u EXCEPT !.thing[k].inbase = near,
                !.thing[k].timeout = IF near THEN FlagTimeout ELSE @] = v
  BY <1>1 DEF Worlds, Thing
<1> HIDE DEF t
<1>3. a \in Thing /\ a.active = u.thing[k].active /\ a.style = u.thing[k].style
      /\ a.holdingsprite = u.thing[k].holdingsprite
  BY <1>1 DEF Thing
<1> HIDE DEF a
<1>4. th \in Thing /\ th.active = u.thing[k].active /\ th.style = u.thing[k].style
      /\ th.holdingsprite = u.thing[k].holdingsprite
  BY <1>1, <1>3, TimeoutFields
<1> HIDE DEF th
<1>5. v \in Worlds /\ v.thing = [u.thing EXCEPT ![k] = th] /\ v.held = u.held
  BY <1>1, <1>4, SetThing
<1>6. \A l \in Things : v.thing[l] = IF l = k THEN th ELSE u.thing[l]
  BY <1>1, <1>5 DEF Worlds
<1>7. Located(u, k, near) \in {v, RespawnThing(v, k)}
  BY <1>2 DEF Located
<1> HIDE DEF v
<1>8. Excused(w, v) /\ v.thing[k].active
  <2>1. \A l \in Things :
            /\ v.thing[l].active => u.thing[l].active
            /\ v.thing[l].style = u.thing[l].style
            /\ v.thing[l].holdingsprite = u.thing[l].holdingsprite
    BY <1>4, <1>6
  <2>2. Excused(w, v)
    BY <1>5, <2>1, ExcusedHolders
  <2> QED
    BY <1>4, <1>6, <2>2
<1> QED
  BY <1>7, <1>8, ExcusedRespawnThing

LEMMA ExcusedScore ==
    ASSUME NEW w, NEW u, Excused(w, u), NEW n \in [Flag -> Nat]
    PROVE  /\ Excused(w, [u EXCEPT !.score = n])
           /\ [u EXCEPT !.score = n].thing = u.thing
<1> DEFINE v == [u EXCEPT !.score = n]
<1>1. v \in Worlds /\ v.thing = u.thing /\ v.held = u.held
  BY SetScores DEF Excused
<1> HIDE DEF v
<1>2. Excused(w, v)
  BY <1>1, ExcusedHolders
<1> QED
  BY <1>1, <1>2 DEF v

LEMMA ExcusedCaptured ==
    ASSUME NEW w, NEW u, Excused(w, u), NEW k \in Things, u.thing[k].active, NEW meets \in BOOLEAN
    PROVE  Excused(w, Captured(u, k, meets))
<1> DEFINE t == team[u.thing[k].holdingsprite]
           n == [r \in Flag |-> IF r = t THEN u.score[r] + 1 ELSE u.score[r]]
           v == [u EXCEPT !.score = n]
<1>1. n \in [Flag -> Nat]
  BY DEF Excused, Worlds
<1>2. Captured(u, k, meets) \in {u, RespawnThing(v, k)}
  BY DEF Captured, Scored
<1> HIDE DEF n
<1>3. Excused(w, v) /\ v.thing[k].active
  BY <1>1, ExcusedScore
<1> HIDE DEF v
<1> QED
  BY <1>2, <1>3, ExcusedRespawnThing

\* Only a flag that has no holder is taken: whose handle named it lied before.
LEMMA ExcusedTouched ==
    ASSUME NEW w, NEW u, Excused(w, u), Sound(u), NEW k \in Things, u.thing[k].active,
           NEW j \in Sprites \cup {0}
    PROVE  Excused(w, Touched(u, k, j))
<1> DEFINE fresh == [u EXCEPT !.thing[k].timeout = FlagTimeout]
           taken == [fresh EXCEPT !.thing[k].holdingsprite = j]
           th == [fresh.thing[k] EXCEPT !.holdingsprite = j]
<1>1. CASE j = 0
  BY <1>1 DEF Touched
<1>2. CASE j # 0
  <2>1. j \in 0 .. MaxSprites /\ FlagTimeout \in 0 .. FlagTimeout /\ u.thing[k] \in Thing
    BY SpritesAssumption, TimesAssumption, ThingTyped DEF Sprites, Excused
  <2>2. Touched(u, k, j) = IF ~Grabs(u, k, j) THEN fresh
                           ELSE IF team[j] = u.thing[k].style THEN RespawnThing(taken, k)
                           ELSE taken
    BY <1>2 DEF Touched
  <2>3. taken = [fresh EXCEPT !.thing[k] = th]
    OBVIOUS
  <2>4. Excused(w, fresh)
    BY <2>1, ExcusedTimed
  <2>5. \A l \in Things : fresh.thing[l] =
            IF l = k THEN [u.thing[k] EXCEPT !.timeout = FlagTimeout] ELSE u.thing[l]
    BY <2>1, Timed
  <2> HIDE DEF fresh
  <2>6. fresh \in Worlds /\ fresh.thing[k] \in Thing
        /\ fresh.thing[k].active /\ fresh.thing[k].holdingsprite = u.thing[k].holdingsprite
    <3> DEFINE x == [u.thing[k] EXCEPT !.timeout = FlagTimeout]
    <3>1. x \in Thing /\ x.active = u.thing[k].active
          /\ x.holdingsprite = u.thing[k].holdingsprite
      BY <2>1, TimeoutFields
    <3>2. fresh.thing[k] = x
      BY <2>5
    <3> HIDE DEF x
    <3> QED
      BY <2>4, <3>1, <3>2 DEF Excused
  <2>7. /\ th \in Thing /\ th.style = fresh.thing[k].style /\ th.active = fresh.thing[k].active
        /\ th.holdingsprite = j
    BY <2>1, <2>6, HolderFields
  <2> HIDE DEF th, taken
  <2>8. taken \in Worlds /\ taken.thing = [fresh.thing EXCEPT ![k] = th] /\ taken.held = fresh.held
    BY <2>3, <2>6, <2>7, SetThing
  <2>9. \A l \in Things : taken.thing[l] = IF l = k THEN th ELSE fresh.thing[l]
    BY <2>6, <2>8 DEF Worlds
  <2>10. CASE Grabs(u, k, j)
    <3>1. fresh.thing[k].holdingsprite = 0
      BY <2>6, <2>10 DEF Grabs
    <3>2. ASSUME NEW i \in Sprites, NEW l \in Things, Lies(taken, i, l)
          PROVE  Lies(fresh, i, l) /\ taken.thing[l].style = fresh.thing[l].style
      <4>1. i # 0
        BY DEF Sprites
      <4> QED
        BY <2>7, <2>8, <2>9, <3>1, <3>2, <4>1 DEF Lies, IsFlag
    <3>3. Excused(w, taken) /\ taken.thing[k].active
      <4>1. Excused(w, taken)
        BY <2>4, <2>8, <3>2, ExcusedLess
      <4> QED
        BY <2>6, <2>7, <2>9, <4>1
    <3>4. Excused(w, RespawnThing(taken, k))
      BY <3>3, ExcusedRespawnThing
    <3> QED
      BY <2>2, <2>10, <3>3, <3>4
  <2> QED
    BY <2>2, <2>4, <2>10
<1> QED
  BY <1>1, <1>2

LEMMA ExcusedTimedOut ==
    ASSUME NEW w, NEW u, Excused(w, u), Sound(u), NEW k \in Things, u.thing[k].active
    PROVE  Excused(w, TimedOut(u, k))
<1> DEFINE left == u.thing[k].timeout - 1
<1>1. u.thing[k].timeout \in 0 .. FlagTimeout
  BY ThingRanges DEF Excused
<1>2. left > 0 => left \in 0 .. FlagTimeout
  BY <1>1, TimesAssumption
<1>3. TimedOut(u, k) = IF left > 0 THEN [u EXCEPT !.thing[k].timeout = left]
                       ELSE IF u.thing[k].holdingsprite # 0
                       THEN [u EXCEPT !.thing[k].timeout = FlagTimeout]
                       ELSE RespawnThing(u, k)
  BY DEF TimedOut
<1>4. FlagTimeout \in 0 .. FlagTimeout
  BY TimesAssumption
<1> HIDE DEF left
<1>5. Excused(w, RespawnThing(u, k))
  BY ExcusedRespawnThing
<1> QED
  BY <1>2, <1>3, <1>4, <1>5, ExcusedTimed

LEMMA ExcusedUpdated ==
    ASSUME NEW w, Sound(w), Licit(w), Excused(w, w), NEW k \in Things, NEW s, FlagAt(w, k, s),
           NEW near \in BOOLEAN, NEW meets \in BOOLEAN, NEW out \in BOOLEAN,
           NEW j \in {i \in Sprites : Alive(i)} \cup {0}
    PROVE  Excused(w, Updated(w, k, near, meets, out, j))
<1> DEFINE a == Followed(w, k)
           b == Located(a, k, near)
           c == Captured(b, k, meets)
           d == Touched(c, k, j)
           e == TimedOut(d, k)
           v == BackInBounds(e, k, out)
<1>1. Quiet(w, a) /\ FlagAt(a, k, s) /\ Excused(w, a)
  BY FlagFollowed, ExcusedFollowed
<1>2. Licit(a)
  BY <1>1, QuietLicit DEF Quiet
<1> HIDE DEF a
<1>3. Quiet(a, b) /\ FlagAt(b, k, s) /\ Excused(w, b)
  BY <1>1, FlagLocated, ExcusedLocated DEF Quiet, FlagAt
<1>4. Licit(b)
  BY <1>2, <1>3, QuietLicit DEF Quiet
<1> HIDE DEF b
<1>5. Sound(c) /\ Licit(c) /\ FlagAt(c, k, s)
  BY <1>3, <1>4, FlagCaptured DEF Quiet
<1>6. Excused(w, c)
  BY <1>3, ExcusedCaptured DEF FlagAt
<1> HIDE DEF c
<1>7. Kept(c, d, k, s) /\ j \in Sprites \cup {0}
  BY <1>5, FlagTouched
<1>8. Excused(w, d)
  BY <1>5, <1>6, <1>7, ExcusedTouched DEF FlagAt
<1> HIDE DEF d
<1>9. Kept(d, e, k, s) /\ Excused(w, e)
  BY <1>7, <1>8, FlagTimedOut, ExcusedTimedOut DEF Kept, FlagAt
<1> HIDE DEF e
<1>10. v \in {e, RespawnThing(e, k)}
  BY DEF BackInBounds
<1>11. Updated(w, k, near, meets, out, j) = v
  BY DEF Updated, a, b, c, d, e
<1> HIDE DEF v
<1>12. Excused(w, RespawnThing(e, k))
  BY <1>9, ExcusedRespawnThing DEF Kept, FlagAt
<1> QED
  BY <1>9, <1>10, <1>11, <1>12

-----------------------------------------------------------------------------
(* Handles: the actions *)

\* The check of one team's flag leaves the other's alone.
LEMMA ExcusedChecked ==
    ASSUME NEW w, NEW u, Excused(w, u), Sound(u), NEW s \in Flag,
           \A k \in Things : w.thing[k].active /\ w.thing[k].style = s => u.thing[k].active
    PROVE  /\ Excused(w, Checked(u, s))
           /\ \A k \in Things : u.thing[k].active /\ u.thing[k].style # s =>
                Checked(u, s).thing[k] = u.thing[k]
<1>1. ~\E k, l \in Count(u, s) : k # l
  BY DEF Count, Sound, One, IsFlag
<1>2. CASE Count(u, s) = {} /\ Free(u) # {}
  <2>1. FirstFree(u) \in Things /\ ~u.thing[FirstFree(u)].active
    BY <1>2, FirstFreeIsFree DEF Excused
  <2>2. Checked(u, s) = CreateThing(u, FirstFree(u), s)
    BY <1>2 DEF Checked, CreateSomewhere
  <2>3. Excused(w, Checked(u, s))
    BY <1>2, ExcusedCreateSomewhere DEF Checked
  <2>4. \A k \in Things : u.thing[k].active /\ u.thing[k].style # s =>
            Checked(u, s).thing[k] = u.thing[k]
    BY <2>1, <2>2, CreateThingFacts DEF Excused
  <2> QED
    BY <2>3, <2>4
<1>3. CASE ~(Count(u, s) = {} /\ Free(u) # {})
  BY <1>1, <1>3 DEF Checked, CreateSomewhere
<1> QED
  BY <1>2, <1>3

LEMMA CheckFlagsTold ==
    ASSUME IInv, Honest, CheckFlags
    PROVE  Told
<1> DEFINE u == [World EXCEPT !.score = NoScore]
           a == Checked(u, Alpha)
           b == Checked(a, Bravo)
<1>1. Becomes(IF tick = 0 THEN b ELSE u)
  BY DEF CheckFlags
<1>2. World \in Worlds /\ Sound(World) /\ Excused(World, World)
  BY ExcusedFirst DEF IInv, Sound
<1>3. NoScore \in [Flag -> Nat]
  BY DEF NoScore
<1>4. Excused(World, u) /\ u.thing = World.thing
  BY <1>2, <1>3, ExcusedScore
<1> HIDE DEF u
<1>5. Sound(u)
  BY <1>2, <1>4 DEF Sound, One, Based, Excused
<1>6. Alpha \in Flag /\ Bravo \in Flag /\ Alpha # Bravo
  BY DEF Flag, Alpha, Bravo
<1>7. /\ Excused(World, a)
      /\ \A k \in Things : u.thing[k].active /\ u.thing[k].style # Alpha => a.thing[k] = u.thing[k]
  BY <1>4, <1>5, <1>6, ExcusedChecked
<1>8. Sound(a)
  BY <1>5, <1>6, QuietChecked DEF Quiet
<1> HIDE DEF a
<1>9. Excused(World, b)
  <2>1. \A k \in Things : World.thing[k].active /\ World.thing[k].style = Bravo => a.thing[k].active
    BY <1>4, <1>6, <1>7
  <2> QED
    BY <1>6, <1>7, <1>8, <2>1, ExcusedChecked
<1> HIDE DEF b
<1> QED
  BY <1>1, <1>2, <1>4, <1>9, ExcusedLast

LEMMA FlagsCreatedTold ==
    ASSUME IInv, Honest, FlagsCreated
    PROVE  Told
<1> DEFINE a == CreateSomewhere(World, Alpha)
           v == CreateSomewhere(a, Bravo)
<1>1. Becomes(v)
  BY DEF FlagsCreated
<1>2. World \in Worlds /\ Excused(World, World)
  BY ExcusedFirst DEF IInv, Sound
<1>3. Alpha \in Flag /\ Bravo \in Flag /\ Alpha # Bravo
  BY DEF Flag, Alpha, Bravo
<1>4. Excused(World, a)
  BY <1>2, <1>3, ExcusedCreateSomewhere
<1>5. \A k \in Things : World.thing[k].active /\ World.thing[k].style = Bravo => a.thing[k].active
  <2>1. CASE Free(World) = {}
    BY <2>1 DEF CreateSomewhere
  <2>2. CASE Free(World) # {}
    <3>1. FirstFree(World) \in Things /\ ~World.thing[FirstFree(World)].active
      BY <1>2, <2>2, FirstFreeIsFree
    <3>2. a = CreateThing(World, FirstFree(World), Alpha)
      BY <2>2 DEF CreateSomewhere
    <3> QED
      BY <1>2, <1>3, <3>1, <3>2, CreateThingFacts
  <2> QED
    BY <2>1, <2>2
<1> HIDE DEF a
<1>6. Excused(World, v)
  BY <1>3, <1>4, <1>5, ExcusedCreateSomewhere
<1> HIDE DEF v
<1> QED
  BY <1>1, <1>2, <1>6, ExcusedLast

LEMMA NewSpriteTold ==
    ASSUME World \in Worlds, NEW i \in Sprites, NEW t, NEW w, Excused(World, w), w.held[i] = 0,
           \/ t \in Flag /\ \E opens \in BOOLEAN : Becomes(Respawned(w, i, opens))
           \/ t = Spectator /\ Becomes(w)
    PROVE  Told
<1>1. ASSUME NEW opens \in BOOLEAN PROVE Excused(World, Respawned(w, i, opens))
  BY ExcusedRespawned
<1> QED
  BY <1>1, ExcusedLast

LEMMA JoinTold ==
    ASSUME IInv, Honest, NEW i \in Sprites, NEW t \in Choices[i], HandlePlayerInfo(i, t)
    PROVE  Told
<1> DEFINE a == LetGo(World, i)
           w == SameNumber(a, i)
<1>1. World \in Worlds /\ Excused(World, World) /\ i \in 0 .. MaxSprites /\ i # 0
  BY ExcusedFirst, SpritesAssumption DEF IInv, Sound, Sprites
<1>2. a \in Worlds /\ a.thing = World.thing /\ a.held[i] = 0
  BY <1>1, LetGoFacts
<1>3. Excused(World, a)
  BY <1>1, ExcusedLetGo
<1>4. \/ t \in Flag /\ \E opens \in BOOLEAN : Becomes(Respawned(w, i, opens))
      \/ t = Spectator /\ Becomes(w)
  BY DEF HandlePlayerInfo
<1> HIDE DEF a
<1>5. Excused(World, w) /\ w.held[i] = 0
  <2>1. CASE i \in Things /\ HeldBy(a.thing[i], i)
    <3>1. w = RespawnThing(a, i)
      BY <2>1 DEF SameNumber
    <3>2. w.held[i] = 0
      <4>1. w.held = [j \in Sprites |-> IF j = a.thing[i].holdingsprite THEN 0 ELSE a.held[j]]
        BY <1>2, <2>1, <3>1, RespawnThingFacts
      <4> QED
        BY <1>2, <4>1
    <3> QED
      BY <1>2, <1>3, <2>1, <3>1, <3>2, ExcusedRespawnThing DEF Old
  <2>2. CASE ~(i \in Things /\ HeldBy(a.thing[i], i))
    BY <1>2, <1>3, <2>2 DEF SameNumber
  <2> QED
    BY <2>1, <2>2
<1> HIDE DEF w
<1> QED
  BY <1>1, <1>4, <1>5, NewSpriteTold

LEMMA ChangeTeamTold ==
    ASSUME IInv, Honest, NEW i \in Sprites, NEW t, ChangeTeam(i, t)
    PROVE  Told
<1> DEFINE a == LetGo(World, i)
           w == AllRespawned(a, i)
<1>1. World \in Worlds /\ Excused(World, World) /\ i \in 0 .. MaxSprites
  BY ExcusedFirst, SpritesAssumption DEF IInv, Sound, Sprites
<1>2. a \in Worlds /\ a.thing = World.thing /\ a.held[i] = 0
  BY <1>1, LetGoFacts
<1>3. Excused(World, a) /\ Sound(a)
  BY <1>1, ExcusedLetGo, QuietLetGo DEF IInv, Quiet
<1>4. \/ t \in Flag /\ \E opens \in BOOLEAN : Becomes(Respawned(w, i, opens))
      \/ t = Spectator /\ Becomes(w)
  BY DEF ChangeTeam
<1> HIDE DEF a
<1>5. w \in Worlds /\ w.held = a.held
  BY <1>3, QuietAllRespawned DEF Quiet, Sound
<1>6. Excused(World, w)
  BY <1>2, <1>3, <1>5, ExcusedAllRespawned DEF Old
<1> HIDE DEF w
<1> QED
  BY <1>1, <1>2, <1>4, <1>5, <1>6, NewSpriteTold

LEMMA LeaveParachuteTold ==
    ASSUME IInv, Honest, NEW i \in Sprites, LeaveParachute(i)
    PROVE  Told
<1> DEFINE k == holdedthing[i]
           th == [things[k] EXCEPT !.holdingsprite = 0]
           w == [World EXCEPT !.thing[k] = th]
           v == LetGo(w, i)
<1>1. k # 0 /\ things[k].style = Parachute /\ Becomes(LetGo([World EXCEPT !.thing[k].holdingsprite = 0], i))
  BY DEF LeaveParachute
<1>2. World \in Worlds /\ Excused(World, World) /\ World.thing = things
  BY ExcusedFirst DEF IInv, Sound, World
<1>3. k \in Things /\ i \in 0 .. MaxSprites /\ 0 \in 0 .. MaxSprites
  <2>1. holdedthing \in [Sprites -> 0 .. MaxThings]
    BY DEF IInv, Sound, World, Worlds
  <2>2. k \in 0 .. MaxThings
    BY <2>1
  <2> QED
    BY <1>1, <2>2, SpritesAssumption, ThingsAssumption DEF Sprites, Things
<1>4. Becomes(v)
  BY <1>1 DEF World
<1> HIDE DEF k
<1>5. th \in Thing /\ th.style = Parachute
  BY <1>1, <1>2, <1>3, ThingTyped, HolderFields
<1> HIDE DEF th
<1>6. w \in Worlds /\ w.thing = [World.thing EXCEPT ![k] = th] /\ w.held = World.held
  BY <1>2, <1>3, <1>5, SetThing
<1>7. \A l \in Things : w.thing[l] = IF l = k THEN th ELSE World.thing[l]
  BY <1>2, <1>6 DEF Worlds
<1> HIDE DEF w
<1>8. Parachute \notin Flag
  BY DEF Flag, Alpha, Bravo, Parachute
<1>9. \A j \in Sprites, l \in Things :
        Lies(w, j, l) => Lies(World, j, l) /\ w.thing[l].style = World.thing[l].style
  BY <1>5, <1>6, <1>7, <1>8 DEF Lies, IsFlag
<1>10. Excused(World, w)
  BY <1>2, <1>6, <1>9, ExcusedLess
<1>11. Excused(World, v)
  BY <1>3, <1>10, ExcusedLetGo
<1> HIDE DEF v
<1> QED
  BY <1>2, <1>4, <1>11, ExcusedLast

LEMMA UpdateFlagTold ==
    ASSUME IInv, Honest, NEW k \in Things, UpdateFlag(k)
    PROVE  Told
<1> DEFINE s == things[k].style
<1>1. PICK near \in BOOLEAN, meets \in BOOLEAN, out \in BOOLEAN,
           j \in {i \in Sprites : Alive(i)} \cup {0} :
             Becomes(Updated(World, k, near, meets, out, j))
  BY DEF UpdateFlag, Updated
<1>2. FlagAt(World, k, s) /\ Sound(World) /\ Licit(World) /\ World \in Worlds
  <2>1. things[k].active /\ s \in Flag
    BY DEF UpdateFlag, Update, Turn, ActiveThings, IsFlag
  <2> QED
    BY <2>1 DEF FlagAt, IInv, World, Sound
<1>3. Excused(World, World)
  BY <1>2, ExcusedFirst
<1> DEFINE v == Updated(World, k, near, meets, out, j)
<1> HIDE DEF s
<1>4. Excused(World, v)
  BY <1>2, <1>3, ExcusedUpdated
<1>5. Becomes(v)
  BY <1>1
<1> HIDE DEF v
<1> QED
  BY <1>2, <1>4, <1>5, ExcusedLast

LEMMA UpdateParachuteTold ==
    ASSUME IInv, Honest, NEW k \in Things, UpdateParachute(k)
    PROVE  Told
<1> DEFINE h == things[k].holdingsprite
           told == IF h = 0 THEN World ELSE [World EXCEPT !.held[h] = k]
<1>1. Becomes(told) \/ Becomes(KillThing(told, k))
  BY DEF UpdateParachute
<1>2. World \in Worlds /\ Excused(World, World) /\ World.thing[k].holdingsprite = h
  BY ExcusedFirst DEF IInv, Sound, World
<1> HIDE DEF h
<1>3. Excused(World, told)
  BY <1>2, ExcusedHandle
<1> HIDE DEF told
<1>4. Excused(World, KillThing(told, k))
  BY <1>3, ExcusedKillThing
<1> QED
  BY <1>1, <1>2, <1>3, <1>4, ExcusedLast

LEMMA ChangeMapTold ==
    ASSUME IInv, ChangeMap
    PROVE  Told
<1> DEFINE f == [k \in Things |-> Dead(things[k])]
           v == [World EXCEPT !.thing = f]
<1>1. things \in [Things -> Thing] /\ World \in Worlds
  BY DEF IInv, Sound, World, Worlds
<1>2. \A k \in Things : Dead(things[k]) \in Thing /\ ~Dead(things[k]).active
  BY <1>1, DeadFields
<1>3. f \in [Things -> Thing] /\ \A k \in Things : ~f[k].active
  BY <1>2
<1>4. Becomes(v)
  BY DEF ChangeMap
<1> HIDE DEF f
<1>5. v \in Worlds /\ v.thing = f
  BY <1>1, <1>3, SetThings
<1> HIDE DEF v
<1>6. Excused(World, v)
  BY <1>3, <1>5 DEF Excused, Lies
<1> QED
  BY <1>1, <1>4, <1>6, ExcusedLast

\* Every step leaves the handles honest, or a flag is in a new place.
LEMMA StepTold ==
    ASSUME IInv, Honest, [Next]_vars
    PROVE  Told
<1>1. World \in Worlds /\ Excused(World, World)
  BY ExcusedFirst DEF IInv, Sound
<1>2. CASE UNCHANGED world
  BY <1>1, <1>2, ExcusedLast DEF Becomes, World, world
<1>3. ASSUME NEW i \in Sprites, KickPlayer(i) \/ Leave(i) PROVE Told
  BY <1>1, <1>3, ExcusedKilled, ExcusedLast DEF KickPlayer, Leave
<1>4. ASSUME NEW i \in Sprites, Die(i) \/ ThrowFlag(i) PROVE Told
  BY <1>1, <1>4, ExcusedReleaseAll, ExcusedLast DEF Die, ThrowFlag
<1>5. ASSUME NEW i \in Sprites, Respawn(i) \/ RespawnNext(i) PROVE Told
  <2>1. PICK opens \in BOOLEAN : Becomes(Respawned(World, i, opens))
    BY <1>5 DEF Respawn, RespawnNext
  <2> QED
    BY <1>1, <2>1, ExcusedRespawned, ExcusedLast
<1>6. CASE UNCHANGED vars
  BY <1>2, <1>6 DEF vars
<1>7. CASE NextFrame \/ UpdateSprites
  BY <1>2, <1>7 DEF NextFrame, UpdateSprites
<1> QED
  BY <1>3, <1>4, <1>5, <1>6, <1>7, CheckFlagsTold, FlagsCreatedTold, JoinTold, ChangeTeamTold,
     LeaveParachuteTold, UpdateFlagTold, UpdateParachuteTold, ChangeMapTold DEF Next, Frame

-----------------------------------------------------------------------------
(* The theorems *)

\* Every variable of the model of things and flags keeps its type, however many
\* sprites and things there are.
THEOREM TypeCorrect == Spec => []TypeOK
BY Invariant, TypeFromInv, PTL

\* creatething, the check every two seconds and changemap together never leave two
\* flags of one team in the table of things.  (There may be none.)
THEOREM OneFlagPerTeam == Spec => []OneFlagEach
<1>1. IInv => OneFlagEach
  BY DEF IInv, Sound, One, OneFlagEach, World
<1> QED
  BY <1>1, Invariant, PTL

\* checkspritecollision, changeteam and the reuse of a slot never leave a flag with
\* a member of its own team.
THEOREM OwnFlagNeverCarried == Spec => []NobodyCarriesOwnFlag
<1>1. IInv => NobodyCarriesOwnFlag
  BY DEF IInv, Licit, NobodyCarriesOwnFlag, World
<1> QED
  BY <1>1, Invariant, PTL

\* Sprite::die releases every flag that names the sprite, and nothing hands a flag to
\* a corpse, which is a dead player still in play.  (Of a slot that Sprite::kill has
\* emptied nothing is said: it may keep a flag.)
THEOREM CorpsesCarryNothing == Spec => []DeadCarryNothing
<1>1. IInv => DeadCarryNothing
  <2> SUFFICES ASSUME IInv, NEW i \in Sprites, NEW k \in Things, Playing(i), deadmeat[i],
                      IsFlag(things[k]), things[k].holdingsprite = i
               PROVE  FALSE
    BY DEF DeadCarryNothing, HeldBy
  <2>1. i # 0
    BY SpritesAssumption DEF Sprites
  <2> QED
    BY <2>1 DEF IInv, Licit, World
<1> QED
  BY <1>1, Invariant, PTL

\* A capture is one point for a carrier whose own flag is at home, and its flag goes
\* back to its base in the same update.
THEOREM CapturesCountOnce == Spec => CaptureCountsOnce
<1>1. IInv /\ [Next]_vars => [CountedOnce]_vars
  BY StepGood
<1> QED
  BY <1>1, Invariant, PTL DEF Spec, CaptureCountsOnce

\* Once every handle that names a flag is the handle of who the flag names, whatever is
\* done to sprites and things, in several calls a step, leaves it so; only where a flag
\* is created in a place where it was not can an old handle come to name it.  (Not the
\* other way round: a flag may name a sprite whose handle does not name it yet.)
THEOREM HandlesKeptHonest == Spec => HandlesStayHonest
<1>1. IInv /\ [Next]_vars => [Honest => Honest' \/ FlagInNewPlace]_vars
  BY StepTold DEF Told
<1> QED
  BY <1>1, Invariant, PTL DEF Spec, HandlesStayHonest

=============================================================================
