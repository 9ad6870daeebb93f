---------------------------- MODULE LobbyProofs -----------------------------
(***************************************************************************)
(* Theorems about the rooms, for any number of users, sockets and rooms.   *)
(* A departure, a settled number of bots and a passed on host each leave a *)
(* room that is Sound, and of its users exactly those one expects: the     *)
(* rest follows from these two facts.                                      *)
(***************************************************************************)
EXTENDS LobbySafety, FiniteSetTheorems, FunctionTheorems, SequenceTheorems, WellFoundedInduction, TLAPS

-----------------------------------------------------------------------------
(***************************************************************************)
(* Positions.                                                              *)
(***************************************************************************)
LEMMA Smallest ==
  ASSUME NEW S \in SUBSET Nat, S # {}
  PROVE  \E n \in S : \A m \in S : n <= m
  <1>1. \E n \in S : \A m \in S : ~ (<<m, n>> \in OpToRel(<, Nat))
    BY NatLessThanWellFounded, WFMin
  <1>2. PICK n \in S : \A m \in S : ~ (<<m, n>> \in OpToRel(<, Nat))
    BY <1>1
  <1>3. \A m \in S : ~ (m < n)
    BY <1>2 DEF OpToRel
  <1> QED
    BY <1>3

\* Each position of a set has its rank, and each rank its position.
LEMMA NthIsBijection ==
  ASSUME NEW n \in Nat, NEW S \in SUBSET (1 .. n)
  PROVE  /\ IsFiniteSet(S) /\ Cardinality(S) \in Nat /\ Cardinality(S) <= n
         /\ \A k \in 1 .. Cardinality(S) : Nth(S, k) \in S
         /\ \A k, l \in 1 .. Cardinality(S) : Nth(S, k) = Nth(S, l) => k = l
         /\ \A i \in S : \E k \in 1 .. Cardinality(S) : Nth(S, k) = i
  <1> DEFINE upTo(i) == {j \in S : j <= i}
             c == Cardinality(S)
             rank == [i \in S |-> Cardinality(upTo(i))]
  <1>1. IsFiniteSet(S) /\ c \in Nat /\ c <= n
    <2>1. IsFiniteSet(1 .. n) /\ Cardinality(1 .. n) = n
      BY FS_Interval
    <2> QED
      BY <2>1, FS_Subset, FS_CardinalityType
  <1>2. \A i \in S : IsFiniteSet(upTo(i)) /\ Cardinality(upTo(i)) \in 1 .. c
    <2> SUFFICES ASSUME NEW i \in S
                 PROVE  IsFiniteSet(upTo(i)) /\ Cardinality(upTo(i)) \in 1 .. c
      OBVIOUS
    <2>1. upTo(i) \in SUBSET S /\ i \in upTo(i)
      OBVIOUS
    <2>2. IsFiniteSet(upTo(i)) /\ Cardinality(upTo(i)) <= c
      BY <1>1, <2>1, FS_Subset
    <2>3. Cardinality(upTo(i)) \in Nat /\ Cardinality(upTo(i)) # 0
      BY <2>1, <2>2, FS_CardinalityType, FS_EmptySet
    <2> QED
      BY <1>1, <2>2, <2>3
  <1>3. \A i, j \in S : rank[i] = rank[j] => i = j
    <2>1. ASSUME NEW i \in S, NEW j \in S, i < j
          PROVE  Cardinality(upTo(i)) # Cardinality(upTo(j))
      <3>1. \A k \in S : k \in Nat
        OBVIOUS
      <3>2. j \in upTo(j) /\ j \notin upTo(i)
        BY <2>1, <3>1
      <3>3. \A k \in S : k <= i => k <= j
        BY <2>1, <3>1
      <3> QED
        BY <1>2, <3>2, <3>3, FS_Subset
    <2> QED
      BY <2>1
  <1>4. rank \in Injection(S, 1 .. c)
    BY <1>2, <1>3, Fun_IsInj
  <1>5. IsFiniteSet(1 .. c) /\ Cardinality(1 .. c) = c
    BY <1>1, FS_Interval
  <1>6. rank \in Surjection(S, 1 .. c)
    BY <1>4, <1>5, FS_Injection
  <1>7. \A k \in 1 .. c : \E i \in S : rank[i] = k
    <2> HIDE DEF rank
    <2> QED
      BY <1>6, Fun_SurjectionProperties
  <1>8. \A k \in 1 .. c : Nth(S, k) \in S /\ rank[Nth(S, k)] = k
    <2> SUFFICES ASSUME NEW k \in 1 .. c
                 PROVE  Nth(S, k) \in S /\ rank[Nth(S, k)] = k
      OBVIOUS
    <2>1. \E i \in S : Cardinality({j \in S : j <= i}) = k
      BY <1>7
    <2> QED
      BY <2>1 DEF Nth
  <1>9. \A i \in S : Nth(S, rank[i]) = i
    BY <1>2, <1>3, <1>8
  <1> QED
    BY <1>1, <1>2, <1>8, <1>9

LEMMA KeptIsPart ==
  ASSUME NEW T, NEW q \in Seq(T), NEW S \in SUBSET DOMAIN q
  PROVE  /\ Kept(q, S) \in Seq(T) /\ Len(Kept(q, S)) <= Len(q)
         /\ Range(Kept(q, S)) = {q[i] : i \in S}
         /\ Len(Kept(q, S)) = Cardinality(S) /\ DOMAIN Kept(q, S) = 1 .. Cardinality(S)
         /\ \A k \in DOMAIN Kept(q, S) : Kept(q, S)[k] = q[Nth(S, k)]
  <1>1. DOMAIN q = 1 .. Len(q) /\ Len(q) \in Nat /\ \A i \in DOMAIN q : q[i] \in T
    BY LenProperties, ElementOfSeq
  <1> DEFINE c == Cardinality(S)
  <1>2. /\ c \in Nat /\ c <= Len(q)
        /\ \A k \in 1 .. c : Nth(S, k) \in S
        /\ \A i \in S : \E k \in 1 .. c : Nth(S, k) = i
    BY <1>1, NthIsBijection
  <1>3. \A k \in 1 .. c : q[Nth(S, k)] \in T
    BY <1>1, <1>2
  <1>4. Kept(q, S) \in Seq(T)
    <2> HIDE DEF c
    <2>1. [k \in 1 .. c |-> q[Nth(S, k)]] \in Seq(T)
      BY <1>2, <1>3, SMT
    <2> QED
      BY <2>1 DEF Kept, c
  <1>5. Len(Kept(q, S)) = c /\ DOMAIN Kept(q, S) = 1 .. c
    BY <1>2, <1>4, LenProperties DEF Kept
  <1>6. Range(Kept(q, S)) = {q[i] : i \in S}
    BY <1>2, <1>5 DEF Kept, Range
  <1> QED
    BY <1>2, <1>4, <1>5, <1>6 DEF Kept

-----------------------------------------------------------------------------
(***************************************************************************)
(* Rooms.                                                                  *)
(***************************************************************************)
\* Nobody sits twice among the members ms, and the table mt, if there is one, is theirs.
Distinct(ms)     == \A i, j \in DOMAIN ms : ms[i].username = ms[j].username => i = j
Mirrors(mt, ms)  == mt # << >> => mt = [i \in DOMAIN ms |-> ms[i].username]
Seating(ms, mt)  == /\ ms \in Seq(Member) /\ Len(ms) <= MaxMembers /\ Distinct(ms)
                    /\ mt \in Seq(Name) /\ Mirrors(mt, ms)

\* A room as it is between two handlers, but that its users may all have gone.
Sound(r) ==
  /\ r \in Room /\ r.settings.bot_count \in 0 .. MaxBots
  /\ Seating(r.members, r.match)

LEMMA MembersOf ==
  ASSUME NEW ms \in Seq(Member)
  PROVE  /\ DOMAIN ms = 1 .. Len(ms) /\ Len(ms) \in Nat
         /\ \A i \in DOMAIN ms : ms[i] \in Member
         /\ \A m \in Range(ms) : m \in Member
         /\ [i \in DOMAIN ms |-> ms[i].username] \in Seq(Name)
  <1>1. DOMAIN ms = 1 .. Len(ms) /\ Len(ms) \in Nat /\ \A i \in DOMAIN ms : ms[i] \in Member
    BY LenProperties, ElementOfSeq
  <1>2. \A i \in 1 .. Len(ms) : ms[i].username \in Name
    BY <1>1 DEF Member
  <1>3. [i \in 1 .. Len(ms) |-> ms[i].username] \in Seq(Name)
    BY <1>1, <1>2, SMT
  <1> QED
    BY <1>1, <1>3 DEF Range

LEMMA WithoutSome ==
  ASSUME NEW r, r.members \in Seq(Member), Distinct(r.members), NEW N
  PROVE  /\ Without(r, N) \in Seq(Member) /\ Len(Without(r, N)) <= Len(r.members)
         /\ Distinct(Without(r, N))
         /\ Range(Without(r, N)) = {m \in Range(r.members) : m.username \notin N}
  <1> DEFINE S == {i \in DOMAIN r.members : r.members[i].username \notin N}
             q == Kept(r.members, S)
  <1>1. S \in SUBSET DOMAIN r.members
    OBVIOUS
  <1>2. DOMAIN r.members = 1 .. Len(r.members) /\ Len(r.members) \in Nat
    BY MembersOf
  <1> HIDE DEF S
  <1>3. /\ q \in Seq(Member) /\ Len(q) <= Len(r.members)
        /\ Range(q) = {r.members[i] : i \in S}
        /\ DOMAIN q = 1 .. Cardinality(S)
        /\ \A k \in DOMAIN q : q[k] = r.members[Nth(S, k)]
    BY <1>1, KeptIsPart
  <1>4. /\ \A k \in 1 .. Cardinality(S) : Nth(S, k) \in S
        /\ \A k, l \in 1 .. Cardinality(S) : Nth(S, k) = Nth(S, l) => k = l
    BY <1>1, <1>2, NthIsBijection
  <1> HIDE DEF q
  <1>5. Distinct(q)
    BY <1>1, <1>3, <1>4 DEF Distinct
  <1>6. Range(q) = {m \in Range(r.members) : m.username \notin N}
    BY <1>3 DEF S, Range
  <1>7. Without(r, N) = q
    BY DEF Without, S, q
  <1> QED
    BY <1>3, <1>5, <1>6, <1>7

LEMMA NoTable == << >> \in Seq(Name) /\ \A ms : Mirrors(<< >>, ms)
  BY EmptySeq DEF Mirrors

\* The table without a player mirrors the room without him.
LEMMA DroppedMirrors ==
  ASSUME NEW r, r.members \in Seq(Member), Mirrors(r.match, r.members), NEW n
  PROVE  /\ Dropped(r.match, n) \in Seq(Name)
         /\ Mirrors(Dropped(r.match, n), Without(r, {n}))
  <1> DEFINE S == {i \in DOMAIN r.members : r.members[i].username \notin {n}}
             T == {i \in DOMAIN r.match : r.match[i] # n}
  <1>0. CASE r.match = << >>
    <2>1. DOMAIN << >> = {} /\ T = {}
      BY <1>0, EmptySeq, LenProperties
    <2>2. Cardinality(T) = 0
      BY <2>1, FS_EmptySet
    <2>3. Dropped(r.match, n) = Kept(r.match, T)
      BY DEF Dropped, T
    <2> HIDE DEF T
    <2>4. Dropped(r.match, n) = << >>
      BY <2>2, <2>3 DEF Kept
    <2> QED
      BY <2>4, NoTable
  <1> SUFFICES ASSUME r.match # << >>
               PROVE  /\ Dropped(r.match, n) \in Seq(Name)
                      /\ Mirrors(Dropped(r.match, n), Without(r, {n}))
    BY <1>0
  <1>1. DOMAIN r.members = 1 .. Len(r.members) /\ Len(r.members) \in Nat
    BY MembersOf
  <1>2. r.match \in Seq(Name) /\ r.match = [i \in DOMAIN r.members |-> r.members[i].username]
    BY MembersOf DEF Mirrors
  <1>3. S = T /\ S \in SUBSET DOMAIN r.members /\ T \in SUBSET DOMAIN r.match
    BY <1>2
  <1>4. \A k \in 1 .. Cardinality(S) : Nth(S, k) \in S
    BY <1>1, <1>3, NthIsBijection
  <1> HIDE DEF S, T
  <1>5. \A k \in 1 .. Cardinality(S) : r.match[Nth(S, k)] = r.members[Nth(S, k)].username
    BY <1>2, <1>3, <1>4
  <1>6. Kept(r.match, T) = [k \in 1 .. Cardinality(S) |-> r.match[Nth(S, k)]]
    BY <1>3 DEF Kept
  <1>7. Kept(r.match, T) = [k \in 1 .. Cardinality(S) |-> r.members[Nth(S, k)].username]
    BY <1>5, <1>6
  <1>8. /\ DOMAIN Kept(r.members, S) = 1 .. Cardinality(S)
        /\ \A k \in 1 .. Cardinality(S) : Kept(r.members, S)[k] = r.members[Nth(S, k)]
    BY <1>3, KeptIsPart
  <1>9. Kept(r.match, T) = [k \in DOMAIN Kept(r.members, S) |-> Kept(r.members, S)[k].username]
    BY <1>7, <1>8
  <1>10. Kept(r.match, T) \in Seq(Name)
    BY <1>2, <1>3, KeptIsPart
  <1>11. Dropped(r.match, n) = Kept(r.match, T) /\ Without(r, {n}) = Kept(r.members, S)
    BY DEF Dropped, Without, S, T
  <1> QED
    BY <1>9, <1>10, <1>11 DEF Mirrors

\* Room r with other members and another table.
Reseat(r, ms, mt) == [r EXCEPT !.members = ms, !.match = mt]

LEMMA Reseated ==
  ASSUME NEW r, Sound(r), NEW ms, NEW mt, Seating(ms, mt),
         NEW q, q = Reseat(r, ms, mt)
  PROVE  /\ Sound(q) /\ q.members = ms /\ q.match = mt
         /\ q.host = r.host /\ q.settings = r.settings
  BY DEF Sound, Seating, Room, Reseat

LEMMA NoMatchKeeps ==
  ASSUME NEW r, Sound(r), NEW q, q = NoMatch(r)
  PROVE  /\ Sound(q) /\ ~InMatch(q) /\ q.members = r.members
         /\ q.host = r.host /\ q.settings = r.settings
  <1>1. Seating(r.members, << >>)
    BY NoTable DEF Sound, Seating
  <1>2. /\ q \in Room /\ q.members = r.members /\ q.match = << >> /\ ~q.foreign
        /\ q.host = r.host /\ q.settings = r.settings
    BY NoTable DEF Sound, Room, NoMatch
  <1> QED
    BY <1>1, <1>2 DEF Sound, InMatch

LEMMA MayEndKeeps ==
  ASSUME NEW r, Sound(r), NEW q \in MayEnd(r)
  PROVE  /\ Sound(q) /\ q.members = r.members
         /\ q.host = r.host /\ q.settings = r.settings
  <1>1. q = r \/ q = NoMatch(r)
    BY DEF MayEnd, Aborted
  <1>2. CASE q = NoMatch(r)
    BY <1>2, NoMatchKeeps
  <1> QED
    BY <1>1, <1>2

LEMMA ReseatedKeeps ==
  ASSUME NEW r, Sound(r), NEW ms, NEW mt, Seating(ms, mt),
         NEW q \in MayEnd(Reseat(r, ms, mt))
  PROVE  Sound(q) /\ q.members = ms /\ q.host = r.host /\ q.settings = r.settings
  <1> DEFINE o == Reseat(r, ms, mt)
  <1>1. Sound(o) /\ o.members = ms /\ o.host = r.host /\ o.settings = r.settings
    BY Reseated
  <1> QED
    BY <1>1, MayEndKeeps

\* What a room keeps of r when n goes: all the other users, and no bot counts here.
UsersLeft(r, n, q) ==
  /\ Humans(q) = {m \in Humans(r) : m.username # n}
  /\ q.host = r.host /\ q.settings = r.settings

Swapped(r, n, b) ==
  [i \in DOMAIN r.members |->
    IF r.members[i].username = n
    THEN [r.members[i] EXCEPT !.username = b, !.is_connected = TRUE] ELSE r.members[i]]

LEMMA SwappedSeating ==
  ASSUME NEW r, Sound(r), NEW n \in Name, NEW b \in FreeBots(r),
         NEW ms, ms = Swapped(r, n, b)
  PROVE  /\ Seating(ms, Renamed(r.match, n, b))
         /\ \A m : m \in Range(ms) /\ ~IsBot(m) <=>
                   m \in Range(r.members) /\ ~IsBot(m) /\ m.username # n
  <1>1. /\ r.members \in Seq(Member) /\ Distinct(r.members) /\ Len(r.members) <= MaxMembers
        /\ DOMAIN r.members = 1 .. Len(r.members) /\ Len(r.members) \in Nat
        /\ \A i \in DOMAIN r.members : r.members[i] \in Member
    BY MembersOf DEF Sound, Seating
  <1>2. b \in BotName /\ b \in Name /\ \A i \in DOMAIN r.members : r.members[i].username # b
    BY DEF FreeBots, Usernames, Range, Name
  <1>3. DOMAIN ms = DOMAIN r.members
    BY DEF Swapped
  <1>4. \A i \in DOMAIN ms :
          IF r.members[i].username = n THEN ms[i] \in Member /\ ms[i].username = b
          ELSE ms[i] = r.members[i]
    BY <1>1, <1>2 DEF Member, Swapped
  <1>5. ms \in Seq(Member) /\ Len(ms) = Len(r.members)
    <2>1. \A i \in 1 .. Len(r.members) : ms[i] \in Member
      BY <1>1, <1>3, <1>4
    <2>2. [i \in 1 .. Len(r.members) |-> ms[i]] \in Seq(Member)
      BY <1>1, <2>1, SMT
    <2>3. ms = [i \in 1 .. Len(r.members) |-> ms[i]]
      BY <1>1, <1>3 DEF Swapped
    <2>4. ms \in Seq(Member)
      BY <2>2, <2>3
    <2>5. DOMAIN ms = 1 .. Len(ms) /\ Len(ms) \in Nat
      BY <2>4, MembersOf
    <2> QED
      BY <1>1, <1>3, <2>4, <2>5
  <1>6. Distinct(ms)
    BY <1>1, <1>2, <1>3, <1>4 DEF Distinct
  <1>7. ASSUME r.match = << >> PROVE Seating(ms, Renamed(r.match, n, b))
    <2>1. Renamed(r.match, n, b) = << >>
      BY <1>7 DEF Renamed
    <2> QED
      BY <1>1, <1>5, <1>6, <2>1, NoTable DEF Seating
  <1>8. ASSUME r.match # << >> PROVE Seating(ms, Renamed(r.match, n, b))
    <2>1. r.match = [i \in DOMAIN r.members |-> r.members[i].username]
      BY <1>8 DEF Sound, Seating, Mirrors
    <2>2. \A i \in DOMAIN ms : ms[i].username = IF r.match[i] = n THEN b ELSE r.match[i]
      BY <1>1, <1>3, <1>4, <2>1
    <2>3. DOMAIN r.match = DOMAIN ms
      BY <1>1, <1>3, <2>1
    <2>4. Renamed(r.match, n, b) = [i \in DOMAIN ms |-> ms[i].username]
      BY <2>2, <2>3 DEF Renamed
    <2>5. Renamed(r.match, n, b) \in Seq(Name)
      BY <1>5, <2>4, MembersOf
    <2> QED
      BY <1>1, <1>5, <1>6, <2>4, <2>5 DEF Seating, Mirrors
  <1>9. Seating(ms, Renamed(r.match, n, b))
    BY <1>7, <1>8
  <1>10. ASSUME NEW m, m \in Range(ms), ~IsBot(m)
         PROVE  m \in Range(r.members) /\ m.username # n
    BY <1>2, <1>3, <1>4, <1>10 DEF Range, IsBot
  <1>11. ASSUME NEW m, m \in Range(r.members), m.username # n
         PROVE  m \in Range(ms)
    BY <1>3, <1>4, <1>11 DEF Range
  <1> QED
    BY <1>9, <1>10, <1>11

LEMMA ReplacedKeeps ==
  ASSUME NEW r, Sound(r), NEW n \in Name, NEW q \in ReplacedByBot(r, n)
  PROVE  Sound(q) /\ UsersLeft(r, n, q)
  <1>1. PICK b \in FreeBots(r) :
          q \in MayEnd(Reseat(r, Swapped(r, n, b), Renamed(r.match, n, b)))
    BY DEF ReplacedByBot, Swapped, Sound, Room, Reseat
  <1>2. PICK ms : ms = Swapped(r, n, b)
    OBVIOUS
  <1>3. /\ Seating(ms, Renamed(r.match, n, b))
        /\ \A m : m \in Range(ms) /\ ~IsBot(m) <=>
                  m \in Range(r.members) /\ ~IsBot(m) /\ m.username # n
    BY <1>2, SwappedSeating
  <1>4. q \in MayEnd(Reseat(r, ms, Renamed(r.match, n, b)))
    BY <1>1, <1>2
  <1>5. Sound(q) /\ q.members = ms /\ q.host = r.host /\ q.settings = r.settings
    BY <1>3, <1>4, ReseatedKeeps
  <1>6. Humans(q) = {m \in Humans(r) : m.username # n}
    BY <1>3, <1>5 DEF Humans
  <1> QED
    BY <1>5, <1>6 DEF UsersLeft

LEMMA RemovedKeeps ==
  ASSUME NEW r, Sound(r), NEW n \in Name, NEW q \in Removed(r, n)
  PROVE  Sound(q) /\ UsersLeft(r, n, q)
  <1> DEFINE ms == Without(r, {n})
  <1>1. /\ r \in Room /\ r.members \in Seq(Member) /\ Distinct(r.members)
        /\ Len(r.members) <= MaxMembers /\ Len(r.members) \in Nat /\ MaxMembers \in Nat
    BY MembersOf, LobbyAssumption DEF Sound, Seating
  <1>2. /\ ms \in Seq(Member) /\ Len(ms) <= Len(r.members) /\ Len(ms) \in Nat
        /\ Distinct(ms) /\ Range(ms) = {m \in Range(r.members) : m.username \notin {n}}
    BY <1>1, WithoutSome, MembersOf
  <1> HIDE DEF ms
  <1>3. ASSUME NEW mt \in Seq(Name), Mirrors(mt, ms),
               NEW p \in MayEnd(Reseat(r, ms, mt))
        PROVE  Sound(p) /\ UsersLeft(r, n, p)
    <2>1. Seating(ms, mt)
      BY <1>1, <1>2, <1>3 DEF Seating
    <2>2. Sound(p) /\ p.members = ms /\ p.host = r.host /\ p.settings = r.settings
      BY <1>3, <2>1, ReseatedKeeps
    <2>3. Humans(p) = {m \in Humans(r) : m.username # n}
      BY <1>2, <2>2 DEF Humans
    <2> QED
      BY <2>2, <2>3 DEF UsersLeft
  <1>4. ASSUME q = NoMatch(Reseat(r, ms, << >>))
        PROVE  Sound(q) /\ UsersLeft(r, n, q)
    <2>1. q \in MayEnd(Reseat(r, ms, << >>))
      BY <1>4 DEF MayEnd
    <2> QED
      BY <1>3, <2>1, NoTable
  <1>5. CASE ~Contains(r, n)
    <2>1. \A m \in Range(r.members) : m.username # n
      BY <1>5 DEF Contains, Usernames, Range
    <2>2. q = r
      BY <1>5 DEF Removed
    <2> QED
      BY <2>1, <2>2 DEF Humans, UsersLeft
  <1>6. CASE Contains(r, n) /\ ~InMatch(r)
    <2>1. q = [r EXCEPT !.members = ms]
      BY <1>6 DEF Removed, ms
    <2>2. q = NoMatch(Reseat(r, ms, << >>))
      BY <1>1, <1>6, <2>1 DEF InMatch, NoMatch, Reseat, Room
    <2> QED
      BY <1>4, <2>2
  <1>7. CASE Contains(r, n) /\ InMatch(r) /\ r.settings.quit_deletes_match
    <2>1. q = NoMatch([r EXCEPT !.members = ms])
      BY <1>7 DEF Removed, ms
    <2>2. q = NoMatch(Reseat(r, ms, << >>))
      BY <1>1, <2>1 DEF NoMatch, Reseat, Room
    <2> QED
      BY <1>4, <2>2
  <1>8. CASE /\ Contains(r, n) /\ InMatch(r) /\ ~r.settings.quit_deletes_match
             /\ r.settings.allow_bot_replacement
    <2>1. q \in ReplacedByBot(r, n)
      BY <1>8 DEF Removed
    <2> QED
      BY <2>1, ReplacedKeeps
  <1>9. CASE /\ Contains(r, n) /\ InMatch(r) /\ ~r.settings.quit_deletes_match
             /\ ~r.settings.allow_bot_replacement
    <2>1. q \in MayEnd(Reseat(r, ms, Dropped(r.match, n)))
      BY <1>1, <1>9 DEF Removed, RemovedFromTable, ms, Room, Reseat
    <2>2. Mirrors(r.match, r.members)
      BY DEF Sound, Seating
    <2>3. Dropped(r.match, n) \in Seq(Name) /\ Mirrors(Dropped(r.match, n), ms)
      BY <1>1, <2>2, DroppedMirrors DEF ms
    <2> QED
      BY <1>3, <2>1, <2>3
  <1> QED
    BY <1>5, <1>6, <1>7, <1>8, <1>9

\* A room keeps its users.
SameUsers(r, q) ==
  Humans(q) = Humans(r) /\ q.host = r.host /\ q.settings = r.settings

LEMMA SeatsAreCounted ==
  ASSUME NEW r, r.members \in Seq(Member)
  PROVE  /\ Count(r, User) \in Nat /\ Count(r, BotName) \in Nat
         /\ Count(r, User) + Count(r, BotName) = Len(r.members)
  <1> DEFINE U == {i \in DOMAIN r.members : r.members[i].username \in User}
             B == {i \in DOMAIN r.members : r.members[i].username \in BotName}
             n == Len(r.members)
  <1>1. DOMAIN r.members = 1 .. n /\ n \in Nat /\ \A i \in 1 .. n : r.members[i] \in Member
    BY MembersOf
  <1>2. U \cup B = 1 .. n /\ U \cap B = {}
    BY <1>1, LobbyAssumption DEF Member, Name
  <1>3. IsFiniteSet(1 .. n) /\ Cardinality(1 .. n) = n
    BY <1>1, FS_Interval
  <1> HIDE DEF U, B, n
  <1>4. IsFiniteSet(U) /\ IsFiniteSet(B)
    <2>1. U \in SUBSET (1 .. n) /\ B \in SUBSET (1 .. n)
      BY <1>2
    <2> QED
      BY <1>3, <2>1, FS_Subset
  <1>5. Cardinality(U \cup B) = Cardinality(U) + Cardinality(B) - Cardinality(U \cap B)
    BY <1>4, FS_Union
  <1>6. Cardinality(U \cap B) = 0 /\ Cardinality(U \cup B) = Cardinality(1 .. n)
    BY <1>2, FS_EmptySet, Zenon
  <1>7. Cardinality(U) \in Nat /\ Cardinality(B) \in Nat
    BY <1>4, FS_CardinalityType
  <1>8. Cardinality(U) + Cardinality(B) = n
    BY <1>3, <1>5, <1>6, <1>7
  <1>9. Count(r, User) = Cardinality(U) /\ Count(r, BotName) = Cardinality(B)
    BY DEF Count, U, B
  <1> QED
    BY <1>7, <1>8, <1>9 DEF n

LEMMA Joined ==
  ASSUME NEW a \in Seq(Member), NEW b \in Seq(Member), NEW c, c = a \o b
  PROVE  /\ c \in Seq(Member) /\ Len(c) = Len(a) + Len(b)
         /\ \A i \in 1 .. Len(a) + Len(b) : c[i] = IF i <= Len(a) THEN a[i] ELSE b[i - Len(a)]
  BY ConcatProperties

\* Bots with other names than the members' sit down behind them.
LEMMA SeatedBehind ==
  ASSUME NEW r, Sound(r), NEW k \in Nat, Len(r.members) + k <= MaxMembers,
         NEW f \in [1 .. k -> FreeBots(r)], IsInjective(f),
         NEW ext, ext = [i \in 1 .. k |-> Bot(f[i])], NEW ms, ms = r.members \o ext
  PROVE  /\ ms \in Seq(Member) /\ Len(ms) <= MaxMembers /\ Distinct(ms)
         /\ \A m : m \in Range(ms) /\ ~IsBot(m) <=> m \in Range(r.members) /\ ~IsBot(m)
  <1> DEFINE n == Len(r.members)
  <1>1. /\ r.members \in Seq(Member) /\ Distinct(r.members) /\ n \in Nat
        /\ DOMAIN r.members = 1 .. n /\ \A i \in 1 .. n : r.members[i] \in Member
    BY MembersOf DEF Sound, Seating
  <1>2. \A i \in 1 .. k :
          /\ f[i] \in BotName /\ f[i] \in Name
          /\ \A j \in 1 .. n : r.members[j].username # f[i]
    BY <1>1 DEF FreeBots, Usernames, Range, Name
  <1>3. \A i \in 1 .. k : Bot(f[i]) \in Member /\ Bot(f[i]).username = f[i]
    BY <1>2 DEF Bot, Present, Member
  <1>4. ext \in Seq(Member) /\ Len(ext) = k
    <2>1. [i \in 1 .. k |-> Bot(f[i])] \in Seq(Member)
      BY <1>3, SMT
    <2>2. DOMAIN ext = 1 .. Len(ext) /\ Len(ext) \in Nat
      BY <2>1, MembersOf
    <2> QED
      BY <2>1, <2>2
  <1>5. \A i \in 1 .. k : ext[i] = Bot(f[i])
    OBVIOUS
  <1>6. /\ ms \in Seq(Member) /\ Len(ms) = n + k
        /\ \A i \in 1 .. n + k : ms[i] = IF i <= n THEN r.members[i] ELSE ext[i - n]
    <2>1. /\ Len(ms) = Len(r.members) + Len(ext) /\ ms \in Seq(Member)
          /\ \A i \in 1 .. Len(r.members) + Len(ext) :
               ms[i] = IF i <= Len(r.members) THEN r.members[i] ELSE ext[i - Len(r.members)]
      BY <1>1, <1>4, Joined
    <2> QED
      BY <1>4, <2>1
  <1>7. \A i \in 1 .. n + k :
          \/ i \in 1 .. n /\ ms[i] = r.members[i]
          \/ i - n \in 1 .. k /\ ms[i] = Bot(f[i - n]) /\ ms[i].username = f[i - n]
    <2>1. \A i \in 1 .. n + k : i \in 1 .. n \/ (i - n \in 1 .. k /\ ~(i <= n))
      BY <1>1
    <2> QED
      BY <1>3, <1>5, <1>6, <2>1
  <1>8. DOMAIN ms = 1 .. n + k
    BY <1>6, MembersOf
  <1> HIDE DEF n
  <1>9. Distinct(ms)
    <2>1. SUFFICES ASSUME NEW i \in 1 .. n + k, NEW j \in 1 .. n + k,
                          ms[i].username = ms[j].username
                   PROVE  i = j
      BY <1>8 DEF Distinct
    <2>2. CASE i \in 1 .. n /\ j \in 1 .. n
      <3>1. ms[i] = r.members[i] /\ ms[j] = r.members[j]
        BY <1>1, <1>6, <2>2
      <3> QED
        BY <1>1, <2>1, <2>2, <3>1 DEF Distinct
    <2>3. CASE i \notin 1 .. n /\ j \notin 1 .. n
      <3>1. i - n \in 1 .. k /\ j - n \in 1 .. k /\ f[i - n] = f[j - n]
        BY <1>7, <2>1, <2>3
      <3>2. i - n = j - n
        BY <3>1 DEF IsInjective
      <3> QED
        BY <1>1, <3>2
    <2>4. ~ (i \in 1 .. n <=> j \notin 1 .. n)
      <3>1. ASSUME NEW a \in 1 .. n + k, NEW b \in 1 .. n + k, a \in 1 .. n, b \notin 1 .. n
            PROVE  ms[a].username # ms[b].username
        <4>1. ms[a] = r.members[a]
          BY <1>1, <1>6, <3>1
        <4>2. b - n \in 1 .. k /\ ms[b].username = f[b - n]
          BY <1>7, <3>1
        <4> QED
          BY <1>2, <3>1, <4>1, <4>2
      <3> QED
        BY <2>1, <3>1
    <2> QED
      BY <2>2, <2>3, <2>4
  <1>10. ASSUME NEW m, m \in Range(ms), ~IsBot(m)
         PROVE  m \in Range(r.members)
    <2>1. PICK i \in 1 .. n + k : ms[i] = m
      BY <1>8, <1>10 DEF Range
    <2>2. i \in 1 .. n /\ ms[i] = r.members[i]
      BY <1>2, <1>7, <1>10, <2>1 DEF IsBot
    <2> QED
      BY <1>1, <2>1, <2>2 DEF Range
  <1>11. ASSUME NEW m, m \in Range(r.members)
         PROVE  m \in Range(ms)
    BY <1>1, <1>6, <1>8, <1>11 DEF Range
  <1> QED
    BY <1>6, <1>9, <1>10, <1>11

LEMMA SyncedKeeps ==
  ASSUME NEW r, Sound(r), NEW q \in Synced(r)
  PROVE  Sound(q) /\ SameUsers(r, q)
  <1> DEFINE d == DesiredBots(r)
             k == d - Count(r, BotName)
  <1>1. /\ r \in Room /\ r.members \in Seq(Member) /\ Distinct(r.members)
        /\ Len(r.members) <= MaxMembers /\ Len(r.members) \in Nat /\ MaxMembers \in Nat
        /\ r.settings.bot_count \in Int
    BY MembersOf, LobbyAssumption DEF Sound, Seating
  <1>2. /\ Count(r, User) \in Nat /\ Count(r, BotName) \in Nat
        /\ Count(r, User) + Count(r, BotName) = Len(r.members)
    BY <1>1, SeatsAreCounted
  <1>3. d \in Int /\ d <= MaxMembers - Count(r, User)
    BY <1>1, <1>2 DEF DesiredBots
  <1>4. k \in Int /\ Len(r.members) + k <= MaxMembers
    BY <1>1, <1>2, <1>3
  <1> HIDE DEF d
  <1>5. CASE InMatch(r)
    <2>1. q = r
      BY <1>5 DEF Synced
    <2> QED
      BY <2>1 DEF SameUsers
  <1>6. ASSUME ~InMatch(r), NEW ms, q = [r EXCEPT !.members = ms],
               ms \in Seq(Member), Len(ms) <= MaxMembers, Distinct(ms),
               \A m : m \in Range(ms) /\ ~IsBot(m) <=> m \in Range(r.members) /\ ~IsBot(m)
        PROVE  Sound(q) /\ SameUsers(r, q)
    <2>1. Seating(ms, << >>)
      BY <1>6, NoTable DEF Seating
    <2>2. q = Reseat(r, ms, << >>)
      BY <1>1, <1>6 DEF InMatch, Reseat, Room
    <2>3. Sound(q) /\ q.members = ms /\ q.host = r.host /\ q.settings = r.settings
      BY <2>1, <2>2, Reseated
    <2> QED
      BY <1>6, <2>3 DEF Humans, SameUsers
  <1>7. CASE ~InMatch(r) /\ k > 0
    <2>1. PICK f \in [1 .. k -> FreeBots(r)] :
            /\ IsInjective(f)
            /\ q = [r EXCEPT !.members = r.members \o [i \in 1 .. k |-> Bot(f[i])]]
      BY <1>1, <1>7 DEF Synced, d, Room
    <2>2. PICK ms, ext : ext = [i \in 1 .. k |-> Bot(f[i])] /\ ms = r.members \o ext
      OBVIOUS
    <2>3. k \in Nat
      BY <1>4, <1>7
    <2> HIDE DEF k
    <2>4. /\ ms \in Seq(Member) /\ Len(ms) <= MaxMembers /\ Distinct(ms)
          /\ \A m : m \in Range(ms) /\ ~IsBot(m) <=> m \in Range(r.members) /\ ~IsBot(m)
      BY <1>4, <2>1, <2>2, <2>3, SeatedBehind
    <2>5. q = [r EXCEPT !.members = ms]
      BY <2>1, <2>2
    <2> QED
      BY <1>6, <1>7, <2>4, <2>5
  <1>8. CASE ~InMatch(r) /\ ~(k > 0)
    <2> DEFINE ms == Without(r, SurplusBots(r))
    <2>1. q = [r EXCEPT !.members = ms]
      BY <1>8 DEF Synced, d
    <2>2. \A n \in SurplusBots(r) : n \in BotName
      BY DEF SurplusBots, IsBot
    <2>3. /\ ms \in Seq(Member) /\ Len(ms) <= Len(r.members) /\ Distinct(ms)
          /\ Range(ms) = {m \in Range(r.members) : m.username \notin SurplusBots(r)}
      BY <1>1, WithoutSome
    <2> HIDE DEF ms
    <2>4. Len(ms) <= MaxMembers
      BY <1>1, <2>3, MembersOf
    <2>5. \A m : m \in Range(ms) /\ ~IsBot(m) <=> m \in Range(r.members) /\ ~IsBot(m)
      BY <2>2, <2>3 DEF IsBot
    <2> QED
      BY <1>6, <1>8, <2>1, <2>3, <2>4, <2>5
  <1> QED
    BY <1>5, <1>7, <1>8

LEMMA FirstOfSome ==
  ASSUME NEW r, r.members \in Seq(Member), NEW S, \E m \in Range(r.members) : m \in S
  PROVE  First(r, S) \in DOMAIN r.members /\ r.members[First(r, S)] \in S
  <1> DEFINE P == {i \in DOMAIN r.members : r.members[i] \in S}
  <1>1. DOMAIN r.members = 1 .. Len(r.members) /\ Len(r.members) \in Nat
    BY MembersOf
  <1>2. P \in SUBSET Nat /\ P # {}
    BY <1>1 DEF Range
  <1>3. PICK i \in P : \A j \in P : i <= j
    BY <1>2, Smallest
  <1>4. \A j \in 1 .. i - 1 : r.members[j] \notin S
    BY <1>1, <1>3
  <1>5. \E k \in DOMAIN r.members :
          r.members[k] \in S /\ \A j \in 1 .. k - 1 : r.members[j] \notin S
    BY <1>3, <1>4
  <1> QED
    BY <1>5 DEF First

LEMMA UsersAreUsers ==
  ASSUME NEW r, Sound(r)
  PROVE  \A m \in Humans(r) : m.username \in User /\ m \in Member
  BY MembersOf DEF Sound, Seating, Humans, IsBot, Member, Name

\* The host is the one of r, or if that was n a connected user, if there is any.
HostFollows(r, n, q) ==
  /\ r.host # n => q.host = r.host
  /\ r.host = n /\ Connected(q) # {} => \E m \in Connected(q) : m.username = q.host

LEMMA PassedOnKeeps ==
  ASSUME NEW r, Sound(r), NEW n, NEW q, q = PassedOn(r, n)
  PROVE  /\ Sound(q) /\ Humans(q) = Humans(r) /\ q.settings = r.settings
         /\ HostFollows(r, n, q)
  <1>1. CASE r.host # n \/ Connected(r) = {}
    <2>1. q = r
      BY <1>1 DEF PassedOn
    <2> QED
      BY <1>1, <2>1 DEF HostFollows
  <1>2. CASE r.host = n /\ Connected(r) # {}
    <2> DEFINE m == r.members[First(r, Connected(r))]
    <2>1. m \in Connected(r)
      BY <1>2, FirstOfSome DEF Connected, Humans, Sound, Seating
    <2>2. m.username \in User
      BY <2>1, UsersAreUsers DEF Connected
    <2>3. q = [r EXCEPT !.host = m.username]
      BY <1>2 DEF PassedOn
    <2> HIDE DEF m
    <2>4. q.members = r.members /\ q.match = r.match /\ q.settings = r.settings
          /\ q.host = m.username /\ q \in Room
      BY <2>2, <2>3 DEF Sound, Room
    <2>5. Humans(q) = Humans(r) /\ Connected(q) = Connected(r)
      BY <2>4 DEF Humans, Connected
    <2> QED
      BY <1>2, <2>1, <2>4, <2>5 DEF Sound, HostFollows
  <1> QED
    BY <1>1, <1>2

\* What a handler that lets n go makes of the room.
Departed(r, n, q) ==
  /\ Sound(q) /\ Humans(q) # {}
  /\ Humans(q) = {m \in Humans(r) : m.username # n}
  /\ HostFollows(r, n, q)

LEMMA LeavesSound ==
  ASSUME NEW r, Sound(r), NEW n \in Name,
         NEW q \in {PassedOn(p, n) : p \in UNION {Synced(o) : o \in Surviving(r, n)}}
  PROVE  Departed(r, n, q)
  <1>1. PICK p \in UNION {Synced(o) : o \in Surviving(r, n)} : q = PassedOn(p, n)
    OBVIOUS
  <1>1a. PICK o \in Surviving(r, n) : p \in Synced(o)
    BY <1>1
  <1>2. Sound(o) /\ UsersLeft(r, n, o) /\ Humans(o) # {}
    BY RemovedKeeps DEF Surviving, Survives
  <1>3. Sound(p) /\ SameUsers(o, p)
    BY <1>1a, <1>2, SyncedKeeps
  <1>4. Sound(q) /\ Humans(q) = Humans(p) /\ HostFollows(p, n, q)
    BY <1>1, <1>3, PassedOnKeeps
  <1> QED
    BY <1>2, <1>3, <1>4 DEF UsersLeft, SameUsers, HostFollows, Departed

LEMMA EvictionSound ==
  ASSUME NEW r, Sound(r), NEW n \in Name,
         NEW q \in UNION {Synced(PassedOn(o, n)) : o \in Surviving(r, n)}
  PROVE  Departed(r, n, q)
  <1>1. PICK o \in Surviving(r, n) : q \in Synced(PassedOn(o, n))
    OBVIOUS
  <1>2. Sound(o) /\ UsersLeft(r, n, o) /\ Humans(o) # {}
    BY RemovedKeeps DEF Surviving, Survives
  <1> DEFINE p == PassedOn(o, n)
  <1>3. Sound(p) /\ Humans(p) = Humans(o) /\ HostFollows(o, n, p)
    BY <1>2, PassedOnKeeps
  <1> HIDE DEF p
  <1>4. Sound(q) /\ SameUsers(p, q)
    BY <1>1, <1>3, SyncedKeeps DEF p
  <1> QED
    BY <1>2, <1>3, <1>4 DEF UsersLeft, SameUsers, HostFollows, Connected, Departed

LEMMA KickSound ==
  ASSUME NEW r, Sound(r), NEW n \in Name, n # r.host,
         NEW q \in UNION {Synced(o) : o \in Surviving(r, n)}
  PROVE  Departed(r, n, q)
  <1>1. PICK o \in Surviving(r, n) : q \in Synced(o)
    OBVIOUS
  <1>2. Sound(o) /\ UsersLeft(r, n, o) /\ Humans(o) # {}
    BY RemovedKeeps DEF Surviving, Survives
  <1>3. Sound(q) /\ SameUsers(o, q)
    BY <1>1, <1>2, SyncedKeeps
  <1> QED
    BY <1>2, <1>3 DEF UsersLeft, SameUsers, HostFollows, Departed

\* Members who change in all but their names.
LEMMA RelabelledSound ==
  ASSUME NEW r, Sound(r), NEW ms, DOMAIN ms = DOMAIN r.members,
         ms = [i \in DOMAIN ms |-> ms[i]],
         \A i \in DOMAIN ms : ms[i] \in Member /\ ms[i].username = r.members[i].username,
         NEW q, q = [r EXCEPT !.members = ms]
  PROVE  Sound(q) /\ q.members = ms /\ q.host = r.host
  <1>1. /\ r.members \in Seq(Member) /\ DOMAIN r.members = 1 .. Len(r.members)
        /\ Len(r.members) \in Nat
    BY MembersOf DEF Sound, Seating
  <1>2. ms \in Seq(Member) /\ Len(ms) = Len(r.members)
    <2>1. [i \in 1 .. Len(r.members) |-> ms[i]] \in Seq(Member)
      BY <1>1, SMT
    <2>2. ms \in Seq(Member)
      BY <1>1, <2>1
    <2>3. DOMAIN ms = 1 .. Len(ms) /\ Len(ms) \in Nat
      BY <2>2, MembersOf
    <2> QED
      BY <1>1, <2>2, <2>3
  <1>3. Seating(ms, r.match)
    <2>1. Distinct(ms)
      BY DEF Sound, Seating, Distinct
    <2>2. Mirrors(r.match, ms)
      <3>1. [i \in DOMAIN ms |-> ms[i].username] =
            [i \in DOMAIN r.members |-> r.members[i].username]
        OBVIOUS
      <3> QED
        BY <3>1 DEF Sound, Seating, Mirrors
    <2> QED
      BY <1>2, <2>1, <2>2 DEF Sound, Seating
  <1>4. q = Reseat(r, ms, r.match)
    BY DEF Reseat, Sound, Room
  <1> QED
    BY <1>3, <1>4, Reseated

\* A member who changes, each by himself, to another with his name.
LEMMA EachRelabelled ==
  ASSUME NEW r, Sound(r), NEW f, DOMAIN f = Member,
         \A m \in Member : f[m] \in Member /\ f[m].username = m.username,
         NEW q, q = [r EXCEPT !.members = [i \in DOMAIN r.members |-> f[r.members[i]]]]
  PROVE  Sound(q) /\ Humans(q) = {f[m] : m \in Humans(r)} /\ q.host = r.host
  <1> DEFINE ms == [i \in DOMAIN r.members |-> f[r.members[i]]]
  <1>1. \A i \in DOMAIN r.members : r.members[i] \in Member
    BY MembersOf DEF Sound, Seating
  <1>2. /\ DOMAIN ms = DOMAIN r.members /\ ms = [i \in DOMAIN ms |-> ms[i]]
        /\ \A i \in DOMAIN ms : /\ ms[i] = f[r.members[i]]
                                /\ ms[i] \in Member /\ ms[i].username = r.members[i].username
    BY <1>1
  <1>3. q = [r EXCEPT !.members = ms]
    OBVIOUS
  <1> HIDE DEF ms
  <1>4. Sound(q) /\ q.members = ms /\ q.host = r.host
    BY <1>2, <1>3, RelabelledSound
  <1>5. ASSUME NEW m \in Humans(q) PROVE \E p \in Humans(r) : m = f[p]
    <2>1. PICK i \in DOMAIN ms : m = ms[i]
      BY <1>4, <1>5 DEF Humans, Range
    <2>2. r.members[i] \in Humans(r)
      BY <1>2, <1>4, <1>5, <2>1 DEF Humans, Range, IsBot
    <2> QED
      BY <1>2, <2>1, <2>2
  <1>6. ASSUME NEW p \in Humans(r) PROVE f[p] \in Humans(q)
    <2>1. PICK i \in DOMAIN r.members : p = r.members[i]
      BY <1>6 DEF Humans, Range
    <2> QED
      BY <1>2, <1>4, <1>6, <2>1 DEF Humans, Range, IsBot
  <1> QED
    BY <1>4, <1>5, <1>6

\* The member m once user u has opened socket s.
Back(u, s, m) == IF m.username = u THEN Present(u, s) ELSE m

LEMMA OpenedRoom ==
  ASSUME NEW r, Sound(r), NEW u \in User, NEW s \in Socket,
         NEW q, q = [r EXCEPT !.members = [i \in DOMAIN r.members |-> Back(u, s, r.members[i])]]
  PROVE  Sound(q) /\ Humans(q) = {Back(u, s, m) : m \in Humans(r)} /\ q.host = r.host
  <1>1. \A m \in Member : Back(u, s, m) \in Member /\ Back(u, s, m).username = m.username
    BY DEF Present, Member, Name, Back
  <1> DEFINE f == [m \in Member |-> Back(u, s, m)]
  <1>2. DOMAIN f = Member /\ \A m \in Member : f[m] = Back(u, s, m)
    OBVIOUS
  <1> HIDE DEF f
  <1>3. \A i \in DOMAIN r.members : r.members[i] \in Member
    BY MembersOf DEF Sound, Seating
  <1>4. q = [r EXCEPT !.members = [i \in DOMAIN r.members |-> f[r.members[i]]]]
    BY <1>2, <1>3
  <1>5. Sound(q) /\ Humans(q) = {f[m] : m \in Humans(r)} /\ q.host = r.host
    BY <1>1, <1>2, <1>4, EachRelabelled
  <1>6. \A m \in Humans(r) : f[m] = Back(u, s, m)
    BY <1>2, UsersAreUsers
  <1> QED
    BY <1>5, <1>6

LEMMA ClosedRoom ==
  ASSUME NEW r, Sound(r), NEW s,
         NEW q, q = [r EXCEPT !.members = [i \in DOMAIN r.members |-> Closed(r.members[i], s)]]
  PROVE  Sound(q) /\ Humans(q) = {Closed(m, s) : m \in Humans(r)} /\ q.host = r.host
  <1>1. \A m \in Member : Closed(m, s) \in Member /\ Closed(m, s).username = m.username
    BY DEF Away, Member, Closed
  <1> DEFINE f == [m \in Member |-> Closed(m, s)]
  <1>2. DOMAIN f = Member /\ \A m \in Member : f[m] = Closed(m, s)
    OBVIOUS
  <1> HIDE DEF f
  <1>3. \A i \in DOMAIN r.members : r.members[i] \in Member
    BY MembersOf DEF Sound, Seating
  <1>4. q = [r EXCEPT !.members = [i \in DOMAIN r.members |-> f[r.members[i]]]]
    BY <1>2, <1>3
  <1>5. Sound(q) /\ Humans(q) = {f[m] : m \in Humans(r)} /\ q.host = r.host
    BY <1>1, <1>2, <1>4, EachRelabelled
  <1>6. \A m \in Humans(r) : f[m] = Closed(m, s)
    BY <1>2, UsersAreUsers
  <1> QED
    BY <1>5, <1>6

\* The room HandleCreate makes, before its bots.
NewRoom(u, s) == [host |-> u, members |-> <<Present(u, s)>>, match |-> << >>, foreign |-> FALSE,
                  settings |-> DefaultSettings]

LEMMA CreatedRoom ==
  ASSUME NEW u \in User, NEW s \in Socket, NEW q \in Synced(NewRoom(u, s))
  PROVE  Sound(q) /\ Humans(q) = {Present(u, s)} /\ q.host = u
  <1> DEFINE ms == <<Present(u, s)>>
             r == NewRoom(u, s)
  <1>1. Present(u, s) \in Member /\ u \notin BotName /\ Present(u, s).username = u
    BY LobbyAssumption DEF Present, Member, Name
  <1>2. ms \in Seq(Member) /\ Len(ms) = 1 /\ DOMAIN ms = {1} /\ ms[1] = Present(u, s)
    BY <1>1, SMT
  <1>3. DefaultSettings \in Settings /\ DefaultSettings.bot_count = 0
    BY DEF DefaultSettings, Settings
  <1> HIDE DEF ms
  <1>4. Seating(ms, << >>)
    BY <1>2, NoTable, LobbyAssumption DEF Seating, Distinct
  <1>5. r.members = ms /\ r.match = << >> /\ r.host = u /\ r.settings = DefaultSettings
    BY DEF NewRoom, ms
  <1>6. r \in Room
    BY <1>2, <1>3, NoTable DEF NewRoom, Room, ms
  <1> HIDE DEF r
  <1>7. Sound(r)
    BY <1>3, <1>4, <1>5, <1>6, LobbyAssumption DEF Sound
  <1>8. Humans(r) = {Present(u, s)}
    BY <1>1, <1>2, <1>5 DEF Humans, Range, IsBot
  <1>9. Sound(q) /\ SameUsers(r, q)
    BY <1>7, SyncedKeeps DEF r
  <1> QED
    BY <1>5, <1>8, <1>9 DEF SameUsers

\* What a join makes of the room.
Arrived(r, u, s, q) ==
  Sound(q) /\ Humans(q) = Humans(r) \cup {Present(u, s)} /\ q.host = r.host

LEMMA TakenOverRoom ==
  ASSUME NEW r, Sound(r), Bots(r) # {}, NEW u \in User, ~Contains(r, u), NEW s \in Socket,
         NEW q, q = TakenOver(r, u, s)
  PROVE  Arrived(r, u, s, q)
  <1> DEFINE f == FirstBot(r)
             b == r.members[f].username
             ms == [r.members EXCEPT ![f] = Present(u, s)]
             mt == Renamed(r.match, b, u)
  <1>1. /\ r.members \in Seq(Member) /\ Distinct(r.members) /\ Len(r.members) <= MaxMembers
        /\ DOMAIN r.members = 1 .. Len(r.members) /\ Len(r.members) \in Nat
        /\ \A i \in DOMAIN r.members : r.members[i] \in Member
    BY MembersOf DEF Sound, Seating
  <1>2. f \in DOMAIN r.members /\ b \in BotName
    <2>1. \E m \in Range(r.members) : m \in Bots(r)
      BY DEF Bots
    <2>2. f \in DOMAIN r.members /\ r.members[f] \in Bots(r)
      BY <1>1, <2>1, FirstOfSome DEF FirstBot
    <2> HIDE DEF f
    <2> QED
      BY <2>2 DEF Bots, IsBot
  <1>3. \A i \in DOMAIN r.members : r.members[i].username # u
    BY DEF Contains, Usernames, Range
  <1>4. Present(u, s) \in Member /\ Present(u, s).username = u /\ u \notin BotName
    BY LobbyAssumption DEF Present, Member, Name
  <1> HIDE DEF f
  <1>5. /\ ms \in Seq(Member) /\ Len(ms) = Len(r.members) /\ DOMAIN ms = DOMAIN r.members
        /\ \A i \in DOMAIN ms : ms[i] = IF i = f THEN Present(u, s) ELSE r.members[i]
    BY <1>1, <1>2, <1>4, ExceptSeq
  <1>6. q = Reseat(r, ms, mt)
    BY DEF TakenOver, Reseat, f, Sound, Room
  <1> HIDE DEF ms, b
  <1>7. Distinct(ms)
    BY <1>1, <1>3, <1>4, <1>5 DEF Distinct
  <1>8. Mirrors(mt, ms) /\ mt \in Seq(Name)
    <2>1. CASE r.match = << >>
      <3>1. mt = << >>
        BY <2>1 DEF Renamed
      <3> QED
        BY <3>1, NoTable
    <2>2. CASE r.match # << >>
      <3>1. r.match = [i \in DOMAIN r.members |-> r.members[i].username]
        BY <2>2 DEF Sound, Seating, Mirrors
      <3>2. \A i \in DOMAIN ms : ms[i].username = IF r.match[i] = b THEN u ELSE r.match[i]
        BY <1>1, <1>2, <1>4, <1>5, <3>1 DEF Distinct, b
      <3>3. DOMAIN r.match = DOMAIN ms
        BY <1>5, <3>1
      <3>4. mt = [i \in DOMAIN ms |-> ms[i].username]
        BY <3>2, <3>3 DEF Renamed
      <3>5. mt \in Seq(Name)
        BY <1>5, <3>4, MembersOf
      <3> QED
        BY <3>4, <3>5 DEF Mirrors
    <2> QED
      BY <2>1, <2>2
  <1> HIDE DEF mt
  <1>9. Sound(q) /\ q.members = ms /\ q.host = r.host
    <2>1. Seating(ms, mt)
      BY <1>1, <1>5, <1>7, <1>8 DEF Seating
    <2> QED
      BY <1>6, <2>1, Reseated
  <1>10. Humans(q) = Humans(r) \cup {Present(u, s)}
    <2>1. ASSUME NEW m \in Humans(q), m # Present(u, s) PROVE m \in Humans(r)
      BY <1>5, <1>9, <2>1 DEF Humans, Range
    <2>2. Present(u, s) \in Humans(q)
      BY <1>2, <1>4, <1>5, <1>9 DEF Humans, Range, IsBot
    <2>3. ASSUME NEW m \in Humans(r) PROVE m \in Humans(q)
      BY <1>2, <1>5, <1>9, <2>3 DEF Humans, Range, IsBot, b
    <2> QED
      BY <2>1, <2>2, <2>3
  <1> QED
    BY <1>9, <1>10 DEF Arrived

LEMMA AddedRoom ==
  ASSUME NEW r, Sound(r), HasSeat(r), NEW u \in User, ~Contains(r, u), NEW s \in Socket,
         NEW q, q = Added(r, u, s)
  PROVE  Arrived(r, u, s, q)
  <1> DEFINE n == Len(r.members)
             ms == Append(r.members, Present(u, s))
             mt == IF r.match # << >> THEN Append(r.match, u) ELSE r.match
  <1>1. /\ r.members \in Seq(Member) /\ Distinct(r.members) /\ n < MaxMembers
        /\ DOMAIN r.members = 1 .. n /\ n \in Nat
    BY MembersOf DEF Sound, Seating, HasSeat
  <1>2. \A i \in DOMAIN r.members : r.members[i].username # u
    BY DEF Contains, Usernames, Range
  <1>3. /\ Present(u, s) \in Member /\ Present(u, s).username = u /\ u \notin BotName
        /\ u \in Name
    BY LobbyAssumption DEF Present, Member, Name
  <1>4. /\ ms \in Seq(Member) /\ Len(ms) = n + 1
        /\ \A i \in 1 .. n : ms[i] = r.members[i]
        /\ ms[n + 1] = Present(u, s)
    BY <1>1, <1>3, AppendProperties
  <1>5. q = Reseat(r, ms, mt)
    BY DEF Added, Reseat, Sound, Room
  <1>6. DOMAIN ms = 1 .. n + 1
    BY <1>1, <1>4, MembersOf
  <1> HIDE DEF ms, n
  <1>7. \A i \in 1 .. n + 1 : i \in 1 .. n \/ i = n + 1
    BY <1>1
  <1>8. Distinct(ms)
    BY <1>1, <1>2, <1>3, <1>4, <1>6, <1>7 DEF Distinct
  <1>9. Mirrors(mt, ms) /\ mt \in Seq(Name)
    <2>1. CASE r.match = << >>
      BY <2>1, NoTable
    <2>2. CASE r.match # << >>
      <3>1. r.match = [i \in 1 .. n |-> r.members[i].username] /\ r.match \in Seq(Name)
        BY <1>1, <2>2 DEF Sound, Seating, Mirrors
      <3>2. Len(r.match) = n /\ r.match \in Seq(Name)
        BY <1>1, <3>1, LenProperties
      <3>3. mt = Append(r.match, u)
        BY <2>2
      <3> HIDE DEF mt
      <3>4. /\ mt \in Seq(Name) /\ Len(mt) = n + 1
            /\ \A i \in 1 .. n : mt[i] = r.match[i]
            /\ mt[n + 1] = u
        BY <1>3, <3>2, <3>3, AppendProperties
      <3>5. \A i \in 1 .. n + 1 : mt[i] = ms[i].username
        BY <1>1, <1>3, <1>4, <1>7, <3>1, <3>4
      <3>6. mt = [i \in 1 .. n + 1 |-> mt[i]]
        BY <3>4, LenProperties
      <3>7. mt = [i \in DOMAIN ms |-> ms[i].username]
        BY <1>6, <3>5, <3>6
      <3> QED
        BY <3>4, <3>7 DEF Mirrors
    <2> QED
      BY <2>1, <2>2
  <1> HIDE DEF mt
  <1>10. Sound(q) /\ q.members = ms /\ q.host = r.host
    <2>1. Seating(ms, mt)
      BY <1>1, <1>4, <1>8, <1>9, LobbyAssumption DEF Seating
    <2> QED
      BY <1>5, <2>1, Reseated
  <1>11. Humans(q) = Humans(r) \cup {Present(u, s)}
    <2>1. \A m : m \in Range(ms) <=> m \in Range(r.members) \/ m = Present(u, s)
      BY <1>1, <1>4, <1>6, <1>7 DEF Range
    <2> QED
      BY <1>3, <1>10, <2>1 DEF Humans, IsBot
  <1> QED
    BY <1>10, <1>11 DEF Arrived

-----------------------------------------------------------------------------
(***************************************************************************)
(* Steps: whatever the handler, somebody goes, somebody comes, a room is   *)
(* made, or a room changes with its users as they were.                    *)
(***************************************************************************)
LobbyInv ==
  /\ next_id \in 1 .. MaxCreated + 1
  /\ DOMAIN lobbies \subseteq 1 .. next_id - 1
  /\ \A l \in DOMAIN lobbies : Sound(lobbies[l]) /\ Humans(lobbies[l]) # {}
  /\ DOMAIN sockets \subseteq Socket
  /\ \A s \in DOMAIN sockets : sockets[s] \in [username : User, lobby : Lobby \cup {NoLobby}]
  /\ latest \in [User -> Socket \cup {NoSocket}]

Departure(l, n) ==
  /\ l \in DOMAIN lobbies /\ n \in Name
  /\ \/ \E q : Departed(lobbies[l], n, q) /\ lobbies' = Updated(l, q)
     \/ lobbies' = Restrict(lobbies, DOMAIN lobbies \ {l})
  /\ sockets' = Released(lobbies[l], n) /\ UNCHANGED <<next_id, latest>>

Arrival(s, l) ==
  /\ Open(s) /\ sockets[s].lobby = NoLobby
  /\ l \in DOMAIN lobbies /\ ~Contains(lobbies[l], sockets[s].username)
  /\ \E q : /\ Arrived(lobbies[l], sockets[s].username, s, q)
            /\ lobbies' = Updated(l, q)
  /\ sockets' = Bound(s, l) /\ UNCHANGED <<next_id, latest>>

Creation(s) ==
  /\ Open(s) /\ sockets[s].lobby = NoLobby
  /\ next_id <= MaxCreated /\ next_id' = next_id + 1
  /\ \E q : /\ Sound(q) /\ Humans(q) = {Present(sockets[s].username, s)}
            /\ lobbies' = [l \in DOMAIN lobbies \cup {next_id} |->
                            IF l = next_id THEN q ELSE lobbies[l]]
  /\ sockets' = Bound(s, next_id) /\ UNCHANGED latest

Adjustment(l) ==
  /\ l \in DOMAIN lobbies
  /\ \E q : /\ Sound(q) /\ Humans(q) = Humans(lobbies[l])
            /\ lobbies' = Updated(l, q)
  /\ UNCHANGED <<next_id, sockets, latest>>

\* A user comes back to a room by a new socket, or he is in none.
Opening(u, s) ==
  /\ u \in User /\ s \in Socket /\ ~Open(s)
  /\ \/ /\ \A l \in DOMAIN lobbies : ~Contains(lobbies[l], u)
        /\ sockets' = Plugged(s, u, NoLobby) /\ UNCHANGED lobbies
     \/ \E l \in DOMAIN lobbies : \E q :
          /\ Contains(lobbies[l], u) /\ sockets' = Plugged(s, u, l)
          /\ Sound(q) /\ q.host = lobbies[l].host
          /\ Humans(q) = {Back(u, s, m) : m \in Humans(lobbies[l])}
          /\ lobbies' = Updated(l, q)
  /\ latest' = [latest EXCEPT ![u] = s]
  /\ UNCHANGED next_id

Closing(s) ==
  /\ Open(s)
  /\ LET l == sockets[s].lobby
     IN  \/ l \notin DOMAIN lobbies /\ UNCHANGED lobbies
         \/ /\ l \in DOMAIN lobbies
            /\ \E q : /\ Sound(q) /\ q.host = lobbies[l].host
                      /\ Humans(q) = {Closed(m, s) : m \in Humans(lobbies[l])}
                      /\ lobbies' = Updated(l, q)
  /\ sockets' = Restrict(sockets, DOMAIN sockets \ {s})
  /\ latest' = [u \in User |-> IF latest[u] = s THEN NoSocket ELSE latest[u]]
  /\ UNCHANGED next_id

LEMMA SocketTypes ==
  ASSUME LobbyInv, NEW s \in DOMAIN sockets
  PROVE  /\ s \in Socket /\ sockets[s].username \in User /\ sockets[s].username \in Name
         /\ sockets[s].lobby \in Lobby \cup {NoLobby}
  BY DEF LobbyInv, Name

LEMMA LeaveDeparts ==
  ASSUME LobbyInv, NEW s \in Socket, NEW l \in Lobby, HandleLeave(s, l)
  PROVE  Departure(l, sockets[s].username)
  <1> DEFINE u == sockets[s].username
             r == lobbies[l]
             rest == {PassedOn(q, u) : q \in UNION {Synced(p) : p \in Surviving(r, u)}}
  <1>1. s \in DOMAIN sockets /\ l \in DOMAIN lobbies
    BY DEF HandleLeave, Sends, Open
  <1>2. u \in Name /\ Sound(r)
    BY <1>1, SocketTypes DEF LobbyInv
  <1>3. Remove(l, r, u, rest)
    BY DEF HandleLeave
  <1> HIDE DEF u, r
  <1>4. \A q \in rest : Departed(r, u, q)
    BY <1>2, LeavesSound
  <1> HIDE DEF rest
  <1>5. \/ \E q : Departed(r, u, q) /\ lobbies' = Updated(l, q)
        \/ lobbies' = Restrict(lobbies, DOMAIN lobbies \ {l})
    BY <1>3, <1>4 DEF Remove
  <1>6. sockets' = Released(r, u) /\ UNCHANGED <<next_id, latest>>
    BY <1>3 DEF Remove
  <1> QED
    BY <1>1, <1>2, <1>5, <1>6 DEF Departure, u, r

LEMMA EvictDeparts ==
  ASSUME LobbyInv, NEW l \in Lobby, NEW u \in User, Evict(l, u)
  PROVE  Departure(l, u)
  <1> DEFINE r == lobbies[l]
             rest == UNION {Synced(PassedOn(p, u)) : p \in Surviving(r, u)}
  <1>1. l \in DOMAIN lobbies /\ u \in Name /\ Sound(r)
    BY DEF Evict, LobbyInv, Name
  <1>2. Remove(l, r, u, rest)
    BY DEF Evict
  <1> HIDE DEF r
  <1>3. \A q \in rest : Departed(r, u, q)
    BY <1>1, EvictionSound
  <1> HIDE DEF rest
  <1>4. \/ \E q : Departed(r, u, q) /\ lobbies' = Updated(l, q)
        \/ lobbies' = Restrict(lobbies, DOMAIN lobbies \ {l})
    BY <1>2, <1>3 DEF Remove
  <1>5. sockets' = Released(r, u) /\ UNCHANGED <<next_id, latest>>
    BY <1>2 DEF Remove
  <1> QED
    BY <1>1, <1>4, <1>5 DEF Departure, r

LEMMA ResetBots ==
  ASSUME NEW c \in Settings, NEW n \in 0 .. MaxBots, NEW d, d = [c EXCEPT !.bot_count = n]
  PROVE  d \in Settings /\ d.bot_count \in 0 .. MaxBots
  BY LobbyAssumption DEF Settings

LEMMA KickDeparts ==
  ASSUME LobbyInv, NEW s \in Socket, NEW l \in Lobby, NEW n \in MayBeKicked,
         HandleKick(s, l, n)
  PROVE  Departure(l, n) /\ n # lobbies[l].host
  <1> DEFINE r == lobbies[l]
             o == IF n \in BotName THEN [r EXCEPT !.settings.bot_count = OneBotFewer(@)] ELSE r
             rest == UNION {Synced(p) : p \in Surviving(o, n)}
  <1>1. l \in DOMAIN lobbies /\ n \in Name /\ Sound(r) /\ n # r.host
    BY LobbyAssumption DEF HandleKick, Hosts, Sends, LobbyInv
  <1>2. Remove(l, o, n, rest)
    BY DEF HandleKick
  <1> HIDE DEF r
  <1>3. r.settings.bot_count \in 0 .. MaxBots /\ r.settings \in Settings
    BY <1>1 DEF Sound, Room
  <1>4. OneBotFewer(r.settings.bot_count) \in 0 .. MaxBots
    BY <1>3, LobbyAssumption DEF OneBotFewer
  <1>5. /\ o.members = r.members /\ o.match = r.match /\ o.host = r.host /\ o \in Room
        /\ o.settings.bot_count \in 0 .. MaxBots
    <2>1. CASE n \notin BotName
      BY <1>1, <2>1 DEF Sound
    <2>2. CASE n \in BotName
      <3>1. PICK c \in 0 .. MaxBots : c = OneBotFewer(r.settings.bot_count)
        BY <1>4
      <3>2. PICK t : t = [r.settings EXCEPT !.bot_count = c]
        OBVIOUS
      <3>2a. t \in Settings /\ t.bot_count \in 0 .. MaxBots
        BY <1>3, <3>1, <3>2, ResetBots
      <3>3. o = [r EXCEPT !.settings = t]
        BY <1>1, <1>3, <2>2, <3>1, <3>2 DEF Sound, Room
      <3> HIDE DEF o
      <3> QED
        BY <1>1, <3>2a, <3>3 DEF Sound, Room
    <2> QED
      BY <2>1, <2>2
  <1> HIDE DEF o
  <1>6. Sound(o) /\ Humans(o) = Humans(r) /\ n # o.host
    BY <1>1, <1>5 DEF Sound, Humans
  <1>7. \A q \in rest : Departed(o, n, q)
    BY <1>1, <1>6, KickSound
  <1>8. \A q \in rest : Departed(r, n, q)
    BY <1>5, <1>6, <1>7 DEF Departed, HostFollows
  <1> HIDE DEF rest
  <1>9. \/ \E q : Departed(r, n, q) /\ lobbies' = Updated(l, q)
        \/ lobbies' = Restrict(lobbies, DOMAIN lobbies \ {l})
    BY <1>2, <1>8 DEF Remove
  <1>10. sockets' = Released(r, n) /\ UNCHANGED <<next_id, latest>>
    BY <1>2, <1>5 DEF Remove, Released
  <1> QED
    BY <1>1, <1>9, <1>10 DEF Departure, r

LEMMA JoinArrives ==
  ASSUME LobbyInv, NEW s \in Socket, NEW l \in Lobby, HandleJoin(s, l)
  PROVE  Arrival(s, l)
  <1> DEFINE u == sockets[s].username
             r == lobbies[l]
  <1>1. /\ Open(s) /\ sockets[s].lobby = NoLobby /\ l \in DOMAIN lobbies /\ ~Contains(r, u)
        /\ \/ Bots(r) # {} /\ lobbies' = Updated(l, TakenOver(r, u, s))
           \/ HasSeat(r) /\ lobbies' = Updated(l, Added(r, u, s))
        /\ sockets' = Bound(s, l) /\ UNCHANGED <<next_id, latest>>
    BY DEF HandleJoin
  <1>2. u \in User /\ Sound(r)
    BY <1>1, SocketTypes DEF LobbyInv, Open
  <1> HIDE DEF u, r
  <1>3. \E q : Arrived(r, u, s, q) /\ lobbies' = Updated(l, q)
    BY <1>1, <1>2, TakenOverRoom, AddedRoom
  <1> QED
    BY <1>1, <1>3 DEF Arrival, u, r

LEMMA CreateCreates ==
  ASSUME LobbyInv, NEW s \in Socket, HandleCreate(s)
  PROVE  Creation(s)
  <1> DEFINE u == sockets[s].username
  <1>1. /\ Open(s) /\ sockets[s].lobby = NoLobby /\ next_id <= MaxCreated
        /\ next_id' = next_id + 1 /\ sockets' = Bound(s, next_id) /\ UNCHANGED latest
    BY DEF HandleCreate
  <1>2. PICK q \in Synced(NewRoom(u, s)) :
          lobbies' = [l \in DOMAIN lobbies \cup {next_id} |->
                       IF l = next_id THEN q ELSE lobbies[l]]
    BY DEF HandleCreate, NewRoom
  <1>3. u \in User
    BY <1>1, SocketTypes DEF Open
  <1>4. Sound(q) /\ Humans(q) = {Present(u, s)}
    BY <1>3, CreatedRoom
  <1> QED
    BY <1>1, <1>2, <1>4 DEF Creation

LEMMA PromoteAdjusts ==
  ASSUME LobbyInv, NEW s \in Socket, NEW l \in Lobby, NEW n \in User, HandlePromote(s, l, n)
  PROVE  Adjustment(l)
  <1>1. l \in DOMAIN lobbies /\ lobbies' = Updated(l, [lobbies[l] EXCEPT !.host = n])
        /\ UNCHANGED <<next_id, sockets, latest>>
    BY DEF HandlePromote, Hosts, Sends, Updated
  <1>2. PICK q : q = [lobbies[l] EXCEPT !.host = n]
    OBVIOUS
  <1>3. Sound(q) /\ Humans(q) = Humans(lobbies[l])
    BY <1>1, <1>2 DEF LobbyInv, Sound, Room, Humans
  <1> QED
    BY <1>1, <1>2, <1>3 DEF Adjustment

LEMMA StartAdjusts ==
  ASSUME LobbyInv, NEW s \in Socket, NEW l \in Lobby, HandleStartGame(s, l)
  PROVE  Adjustment(l)
  <1> DEFINE r == lobbies[l]
  <1>1. l \in DOMAIN lobbies /\ lobbies' = Updated(l, [r EXCEPT !.match = Usernames(r)])
        /\ UNCHANGED <<next_id, sockets, latest>>
    BY DEF HandleStartGame, Hosts, Sends, Updated
  <1>2. Sound(r)
    BY <1>1 DEF LobbyInv
  <1> HIDE DEF r
  <1>3. Usernames(r) \in Seq(Name) /\ Mirrors(Usernames(r), r.members)
    BY <1>2, MembersOf DEF Sound, Seating, Usernames, Mirrors
  <1>4. Seating(r.members, Usernames(r))
    BY <1>2, <1>3 DEF Sound, Seating
  <1>5. PICK q : q = [r EXCEPT !.match = Usernames(r)]
    OBVIOUS
  <1>6. q = Reseat(r, r.members, Usernames(r))
    BY <1>2, <1>5 DEF Reseat, Sound, Room
  <1>7. Sound(q) /\ q.members = r.members
    BY <1>2, <1>4, <1>6, Reseated
  <1> QED
    BY <1>1, <1>5, <1>7 DEF Adjustment, Humans, r

\* Resumed at the room's own table the match mirrors it, and at another there is none to.
LEMMA ResumedRoom ==
  ASSUME NEW r, Sound(r), NEW other \in BOOLEAN, NEW q, q = Resumed(r, other)
  PROVE  Sound(q) /\ q.members = r.members
  <1>1. Usernames(r) \in Seq(Name) /\ Mirrors(Usernames(r), r.members)
    BY MembersOf DEF Sound, Seating, Usernames, Mirrors
  <1>2. PICK mt : mt = IF other THEN << >> ELSE Usernames(r)
    OBVIOUS
  <1>3. Seating(r.members, mt)
    BY <1>1, <1>2, NoTable DEF Sound, Seating
  <1>4. q = [r EXCEPT !.match = mt, !.foreign = other]
    BY <1>2 DEF Resumed
  <1>5. mt \in Seq(Name)
    BY <1>3 DEF Seating
  <1>6. /\ q \in Room /\ q.members = r.members /\ q.match = mt
        /\ q.settings = r.settings
    BY <1>4, <1>5 DEF Sound, Room
  <1> QED
    BY <1>3, <1>6 DEF Sound

LEMMA ResumeAdjusts ==
  ASSUME LobbyInv, NEW s \in Socket, NEW l \in Lobby, HandleResumeSavedMatch(s, l)
  PROVE  Adjustment(l)
  <1>1. l \in DOMAIN lobbies /\ UNCHANGED <<next_id, sockets, latest>>
    BY DEF HandleResumeSavedMatch, Hosts, Sends
  <1>2. PICK other \in BOOLEAN : lobbies' = Updated(l, Resumed(lobbies[l], other))
    BY DEF HandleResumeSavedMatch
  <1>3. PICK q : q = Resumed(lobbies[l], other)
    OBVIOUS
  <1>4. Sound(lobbies[l])
    BY <1>1 DEF LobbyInv
  <1>5. Sound(q) /\ q.members = lobbies[l].members
    BY <1>3, <1>4, ResumedRoom
  <1> QED
    BY <1>1, <1>2, <1>3, <1>5 DEF Adjustment, Humans

LEMMA MatchOverAdjusts ==
  ASSUME LobbyInv, NEW l \in Lobby, NotifyMatchOver(l)
  PROVE  Adjustment(l)
  <1>1. /\ l \in DOMAIN lobbies /\ lobbies' = Updated(l, NoMatch(lobbies[l]))
        /\ UNCHANGED <<next_id, sockets, latest>>
    BY DEF NotifyMatchOver
  <1>2. PICK q : q = NoMatch(lobbies[l])
    OBVIOUS
  <1>3. Sound(lobbies[l])
    BY <1>1 DEF LobbyInv
  <1>4. Sound(q) /\ q.members = lobbies[l].members
    BY <1>2, <1>3, NoMatchKeeps
  <1> QED
    BY <1>1, <1>2, <1>4 DEF Adjustment, Humans

LEMMA SettingsAdjust ==
  ASSUME LobbyInv, NEW s \in Socket, NEW l \in Lobby, NEW c \in Requests,
         HandleUpdateSettings(s, l, c)
  PROVE  Adjustment(l)
  <1> DEFINE r == lobbies[l]
             o == [r EXCEPT !.settings = Clamped(c)]
  <1>1. /\ l \in DOMAIN lobbies
        /\ \E p : (p = o \/ p \in Synced(o)) /\ lobbies' = Updated(l, p)
        /\ UNCHANGED <<next_id, sockets, latest>>
    BY DEF HandleUpdateSettings, Hosts, Sends
  <1>2. Sound(r)
    BY <1>1 DEF LobbyInv
  <1> HIDE DEF r
  <1>3. Clamped(c) \in Settings /\ Clamped(c).bot_count \in 0 .. MaxBots
    <2>1. c \in Settings /\ c.bot_count \in Int
      BY LobbyAssumption DEF Settings
    <2>2. PICK n \in 0 .. MaxBots :
            n = IF c.bot_count < 0 THEN 0
                ELSE IF c.bot_count > MaxBots THEN MaxBots ELSE c.bot_count
      BY <2>1, LobbyAssumption
    <2>3. Clamped(c) = [c EXCEPT !.bot_count = n]
      BY <2>2 DEF Clamped
    <2> QED
      BY <2>1, <2>3, ResetBots
  <1>4. Sound(o) /\ Humans(o) = Humans(r)
    BY <1>2, <1>3 DEF Sound, Room, Humans
  <1> HIDE DEF o
  <1>5. PICK p : (p = o \/ p \in Synced(o)) /\ lobbies' = Updated(l, p)
    BY <1>1
  <1>6. Sound(p) /\ Humans(p) = Humans(r)
    BY <1>4, <1>5, SyncedKeeps DEF SameUsers
  <1> QED
    BY <1>1, <1>5, <1>6 DEF Adjustment, r

LEMMA OpenOpens ==
  ASSUME LobbyInv, NEW u \in User, NEW s \in Socket, OnOpen(u, s)
  PROVE  Opening(u, s)
  <1>1. ~Open(s) /\ latest' = [latest EXCEPT ![u] = s] /\ UNCHANGED next_id
    BY DEF OnOpen
  <1>2. CASE /\ {l \in DOMAIN lobbies : Contains(lobbies[l], u)} = {}
             /\ sockets' = Plugged(s, u, NoLobby) /\ UNCHANGED lobbies
    BY <1>1, <1>2 DEF Opening
  <1>3. ASSUME NEW l \in DOMAIN lobbies, Contains(lobbies[l], u), sockets' = Plugged(s, u, l),
               lobbies' = [lobbies EXCEPT ![l].members =
                 [i \in DOMAIN @ |-> IF @[i].username = u THEN Present(u, s) ELSE @[i]]]
        PROVE  Opening(u, s)
    <2> DEFINE r == lobbies[l]
               q == [r EXCEPT !.members = [i \in DOMAIN r.members |-> Back(u, s, r.members[i])]]
    <2>1. lobbies' = Updated(l, q)
      BY <1>3 DEF Updated, Back
    <2>2. Sound(r)
      BY DEF LobbyInv
    <2> HIDE DEF r
    <2>3. Sound(q) /\ Humans(q) = {Back(u, s, m) : m \in Humans(r)} /\ q.host = r.host
      BY <2>2, OpenedRoom
    <2> HIDE DEF q
    <2> QED
      BY <1>1, <1>3, <2>1, <2>3 DEF Opening, r
  <1> QED
    BY <1>2, <1>3 DEF OnOpen

LEMMA CloseCloses ==
  ASSUME LobbyInv, NEW s \in Socket, OnClose(s)
  PROVE  Closing(s)
  <1> DEFINE l == sockets[s].lobby
             r == lobbies[l]
             q == [r EXCEPT !.members = [i \in DOMAIN r.members |-> Closed(r.members[i], s)]]
  <1>1. /\ Open(s) /\ UNCHANGED next_id
        /\ sockets' = Restrict(sockets, DOMAIN sockets \ {s})
        /\ latest' = [u \in User |-> IF latest[u] = s THEN NoSocket ELSE latest[u]]
    BY DEF OnClose
  <1>2. CASE l \notin DOMAIN lobbies
    BY <1>1, <1>2 DEF OnClose, Sends, Closing
  <1>3. CASE l \in DOMAIN lobbies
    <2>1. lobbies' = Updated(l, q)
      BY <1>1, <1>3 DEF OnClose, Sends, Updated
    <2>2. Sound(r)
      BY <1>3 DEF LobbyInv
    <2> HIDE DEF r
    <2>3. Sound(q) /\ Humans(q) = {Closed(m, s) : m \in Humans(r)} /\ q.host = r.host
      BY <2>2, ClosedRoom
    <2> HIDE DEF q
    <2> QED
      BY <1>1, <1>3, <2>1, <2>3 DEF Closing, r
  <1> QED
    BY <1>2, <1>3

Step ==
  \/ \E u \in User, s \in Socket : Opening(u, s)
  \/ \E s \in Socket : Closing(s) \/ Creation(s)
  \/ \E s \in Socket, l \in Lobby : Arrival(s, l)
  \/ \E l \in Lobby, n \in User \cup MayBeKicked : Departure(l, n)
  \/ \E l \in Lobby : Adjustment(l)

LEMMA HandlersStep ==
  ASSUME LobbyInv, Next
  PROVE  Step
  <1>1. ASSUME NEW u \in User, NEW s \in Socket, OnOpen(u, s) PROVE Step
    BY <1>1, OpenOpens DEF Step
  <1>2. ASSUME NEW s \in Socket, OnClose(s) PROVE Step
    BY <1>2, CloseCloses DEF Step
  <1>3. ASSUME NEW s \in Socket, HandleCreate(s) PROVE Step
    BY <1>3, CreateCreates DEF Step
  <1>4. ASSUME NEW s \in Socket, NEW l \in Lobby, HandleJoin(s, l) PROVE Step
    BY <1>4, JoinArrives DEF Step
  <1>5. ASSUME NEW s \in Socket, NEW l \in Lobby, HandleLeave(s, l) PROVE Step
    <2>1. sockets[s].username \in User
      BY <1>5, SocketTypes DEF HandleLeave, Sends, Open
    <2> QED
      BY <1>5, <2>1, LeaveDeparts DEF Step
  <1>6. ASSUME NEW s \in Socket, NEW l \in Lobby, HandleStartGame(s, l) PROVE Step
    BY <1>6, StartAdjusts DEF Step
  <1>7. ASSUME NEW s \in Socket, NEW l \in Lobby, NEW n \in User, HandlePromote(s, l, n)
        PROVE  Step
    BY <1>7, PromoteAdjusts DEF Step
  <1>8. ASSUME NEW s \in Socket, NEW l \in Lobby, NEW n \in MayBeKicked, HandleKick(s, l, n)
        PROVE  Step
    BY <1>8, KickDeparts DEF Step
  <1>9. ASSUME NEW s \in Socket, NEW l \in Lobby, NEW c \in Requests,
               HandleUpdateSettings(s, l, c)
        PROVE  Step
    BY <1>9, SettingsAdjust DEF Step
  <1>10. ASSUME NEW l \in Lobby, NotifyMatchOver(l) PROVE Step
    BY <1>10, MatchOverAdjusts DEF Step
  <1>11. ASSUME NEW l \in Lobby, NEW u \in User, Evict(l, u) PROVE Step
    BY <1>11, EvictDeparts DEF Step
  <1>12. ASSUME NEW s \in Socket, NEW l \in Lobby, HandleResumeSavedMatch(s, l) PROVE Step
    BY <1>12, ResumeAdjusts DEF Step
  <1> QED
    BY <1>1, <1>2, <1>3, <1>4, <1>5, <1>6, <1>7, <1>8, <1>9, <1>10, <1>11, <1>12 DEF Next

LEMMA LobbyInitial == Init => LobbyInv
  <1>1. 1 \in 1 .. MaxCreated + 1
    BY LobbyAssumption
  <1>2. DOMAIN << >> = {}
    BY EmptySeq, LenProperties
  <1> QED
    BY <1>1, <1>2 DEF Init, LobbyInv

\* A room of the lobbies after one of them has become q.
LEMMA UpdatedRooms ==
  ASSUME NEW l \in DOMAIN lobbies, NEW q, lobbies' = Updated(l, q)
  PROVE  /\ DOMAIN lobbies' = DOMAIN lobbies /\ lobbies'[l] = q
         /\ \A k \in DOMAIN lobbies : k # l => lobbies'[k] = lobbies[k]
  BY DEF Updated

LEMMA BoundSockets ==
  ASSUME NEW s \in DOMAIN sockets, NEW l, sockets' = Bound(s, l), LobbyInv
  PROVE  /\ DOMAIN sockets' = DOMAIN sockets
         /\ sockets'[s].lobby = l /\ sockets'[s].username = sockets[s].username
         /\ l \in Lobby =>
              sockets'[s] \in [username : User, lobby : Lobby \cup {NoLobby}]
         /\ \A t \in DOMAIN sockets : t # s => sockets'[t] = sockets[t]
  BY DEF Bound, LobbyInv

LEMMA ReleasedSockets ==
  ASSUME NEW r, NEW n, sockets' = Released(r, n), LobbyInv
  PROVE  /\ DOMAIN sockets' = DOMAIN sockets
         /\ \A s \in DOMAIN sockets :
              /\ sockets'[s].username = sockets[s].username
              /\ sockets'[s] \in [username : User, lobby : Lobby \cup {NoLobby}]
              /\ IF \E m \in Range(r.members) :
                      m.username = n /\ m.is_connected /\ m.socket = s
                 THEN sockets'[s].lobby = NoLobby ELSE sockets'[s] = sockets[s]
  BY DEF Released, LobbyInv

LEMMA PluggedSockets ==
  ASSUME NEW s \in Socket, NEW u \in User, NEW l \in Lobby \cup {NoLobby}, ~Open(s),
         sockets' = Plugged(s, u, l), LobbyInv
  PROVE  /\ DOMAIN sockets' = DOMAIN sockets \cup {s}
         /\ sockets'[s].lobby = l /\ sockets'[s].username = u
         /\ sockets'[s] \in [username : User, lobby : Lobby \cup {NoLobby}]
         /\ \A t \in DOMAIN sockets : t # s /\ sockets'[t] = sockets[t]
  BY DEF Plugged, LobbyInv, Open

LEMMA PluggedTypes ==
  ASSUME NEW s \in Socket, NEW u \in User, NEW l \in Lobby \cup {NoLobby}, ~Open(s),
         sockets' = Plugged(s, u, l), LobbyInv
  PROVE  /\ DOMAIN sockets' \subseteq Socket
         /\ \A t \in DOMAIN sockets' :
              sockets'[t] \in [username : User, lobby : Lobby \cup {NoLobby}]
  BY DEF Plugged, LobbyInv

LEMMA RoomIds ==
  ASSUME LobbyInv, NEW l \in DOMAIN lobbies
  PROVE  l \in Lobby /\ l # next_id
  BY LobbyAssumption DEF LobbyInv, Lobby

LEMMA LobbyStep ==
  ASSUME LobbyInv, [Next]_vars
  PROVE  LobbyInv'
  <1>1. CASE UNCHANGED vars
    BY <1>1 DEF vars, LobbyInv
  <1>2. ASSUME NEW u \in User, NEW s \in Socket, Opening(u, s) PROVE LobbyInv'
    <2>1. latest' \in [User -> Socket \cup {NoSocket}] /\ next_id' = next_id /\ ~Open(s)
      BY <1>2 DEF Opening, LobbyInv
    <2>2. CASE sockets' = Plugged(s, u, NoLobby) /\ UNCHANGED lobbies
      <3>1. NoLobby \in Lobby \cup {NoLobby}
        OBVIOUS
      <3> QED
        BY <2>1, <2>2, <3>1, PluggedTypes DEF LobbyInv
    <2>3. ASSUME NEW l \in DOMAIN lobbies, NEW q, sockets' = Plugged(s, u, l), Sound(q),
                 Humans(q) = {Back(u, s, m) : m \in Humans(lobbies[l])},
                 lobbies' = Updated(l, q)
          PROVE  LobbyInv'
      <3>1. Humans(q) # {}
        BY <2>3 DEF LobbyInv
      <3>2. l \in Lobby \cup {NoLobby}
        BY RoomIds
      <3>3. /\ DOMAIN sockets' \subseteq Socket
            /\ \A t \in DOMAIN sockets' :
                 sockets'[t] \in [username : User, lobby : Lobby \cup {NoLobby}]
        BY <2>1, <2>3, <3>2, PluggedTypes
      <3> QED
        BY <2>1, <2>3, <3>1, <3>3, UpdatedRooms DEF LobbyInv
    <2> QED
      BY <1>2, <2>2, <2>3 DEF Opening
  <1>3. ASSUME NEW s \in Socket, Closing(s) PROVE LobbyInv'
    <2>1. /\ latest' \in [User -> Socket \cup {NoSocket}] /\ next_id' = next_id
          /\ DOMAIN sockets' \subseteq DOMAIN sockets
          /\ \A t \in DOMAIN sockets' : sockets'[t] = sockets[t]
      BY <1>3 DEF Closing, LobbyInv, Restrict
    <2>2. CASE UNCHANGED lobbies
      BY <2>1, <2>2 DEF LobbyInv
    <2>3. ASSUME NEW l \in DOMAIN lobbies, NEW q, Sound(q), lobbies' = Updated(l, q),
                 Humans(q) = {Closed(m, s) : m \in Humans(lobbies[l])}
          PROVE  LobbyInv'
      <3>1. Humans(q) # {}
        BY <2>3 DEF LobbyInv
      <3> QED
        BY <2>1, <2>3, <3>1, UpdatedRooms DEF LobbyInv
    <2> QED
      BY <1>3, <2>2, <2>3 DEF Closing
  <1>4. ASSUME NEW s \in Socket, Creation(s) PROVE LobbyInv'
    <2>1. PICK q : /\ Sound(q) /\ Humans(q) = {Present(sockets[s].username, s)}
                   /\ lobbies' = [l \in DOMAIN lobbies \cup {next_id} |->
                                   IF l = next_id THEN q ELSE lobbies[l]]
      BY <1>4 DEF Creation
    <2>2. /\ next_id' = next_id + 1 /\ next_id <= MaxCreated /\ next_id \in Lobby
          /\ sockets' = Bound(s, next_id) /\ latest' = latest /\ s \in DOMAIN sockets
      BY <1>4, LobbyAssumption DEF Creation, Open, LobbyInv, Lobby
    <2>3. /\ DOMAIN lobbies' = DOMAIN lobbies \cup {next_id} /\ lobbies'[next_id] = q
          /\ \A l \in DOMAIN lobbies : lobbies'[l] = lobbies[l]
      BY <2>1, RoomIds
    <2>4. next_id' \in 1 .. MaxCreated + 1 /\ DOMAIN lobbies' \subseteq 1 .. next_id' - 1
      BY <2>2, <2>3, LobbyAssumption DEF LobbyInv
    <2>5. Humans(q) # {}
      BY <2>1
    <2> QED
      BY <2>1, <2>2, <2>3, <2>4, <2>5, BoundSockets DEF LobbyInv
  <1>5. ASSUME NEW s \in Socket, NEW l \in Lobby, Arrival(s, l) PROVE LobbyInv'
    <2>1. PICK q : Arrived(lobbies[l], sockets[s].username, s, q) /\ lobbies' = Updated(l, q)
      BY <1>5 DEF Arrival
    <2>2. /\ l \in DOMAIN lobbies /\ s \in DOMAIN sockets /\ sockets' = Bound(s, l)
          /\ UNCHANGED <<next_id, latest>>
      BY <1>5 DEF Arrival, Open
    <2>3. Sound(q) /\ Humans(q) # {}
      BY <2>1 DEF Arrived
    <2> QED
      BY <2>1, <2>2, <2>3, BoundSockets, UpdatedRooms DEF LobbyInv
  <1>6. ASSUME NEW l \in Lobby, NEW n, Departure(l, n) PROVE LobbyInv'
    <2>1. /\ l \in DOMAIN lobbies /\ sockets' = Released(lobbies[l], n)
          /\ UNCHANGED <<next_id, latest>>
      BY <1>6 DEF Departure
    <2>2. ASSUME NEW q, Departed(lobbies[l], n, q), lobbies' = Updated(l, q)
          PROVE  LobbyInv'
      <3>1. Sound(q) /\ Humans(q) # {}
        BY <2>2 DEF Departed
      <3> QED
        BY <2>1, <2>2, <3>1, ReleasedSockets, UpdatedRooms DEF LobbyInv
    <2>3. CASE lobbies' = Restrict(lobbies, DOMAIN lobbies \ {l})
      <3>1. DOMAIN lobbies' \subseteq DOMAIN lobbies
            /\ \A k \in DOMAIN lobbies' : lobbies'[k] = lobbies[k]
        BY <2>3 DEF Restrict
      <3> QED
        BY <2>1, <3>1, ReleasedSockets DEF LobbyInv
    <2> QED
      BY <1>6, <2>2, <2>3 DEF Departure
  <1>7. ASSUME NEW l \in Lobby, Adjustment(l) PROVE LobbyInv'
    <2>1. PICK q : /\ Sound(q) /\ Humans(q) = Humans(lobbies[l])
                   /\ lobbies' = Updated(l, q)
      BY <1>7 DEF Adjustment
    <2>2. l \in DOMAIN lobbies /\ UNCHANGED <<next_id, sockets, latest>>
      BY <1>7 DEF Adjustment
    <2>3. Humans(q) # {}
      BY <2>1, <2>2 DEF LobbyInv
    <2> QED
      BY <2>1, <2>2, <2>3, UpdatedRooms DEF LobbyInv
  <1>8. CASE Next
    BY <1>2, <1>3, <1>4, <1>5, <1>6, <1>7, <1>8, HandlersStep DEF Step
  <1> QED
    BY <1>1, <1>8

LEMMA SoundRooms ==
  ASSUME LobbyInv
  PROVE  LobbyTypeOK /\ RoomFits /\ SeatsMirrored
  <1>1. LobbyTypeOK
    BY DEF LobbyInv, LobbyTypeOK, Sound
  <1>2. RoomFits
    <2> SUFFICES ASSUME NEW l \in DOMAIN lobbies
                 PROVE  /\ Len(lobbies[l].members) <= MaxMembers
                        /\ IsInjective(Usernames(lobbies[l]))
                        /\ Humans(lobbies[l]) # {}
      BY DEF RoomFits
    <2>1. Sound(lobbies[l]) /\ Humans(lobbies[l]) # {}
      BY DEF LobbyInv
    <2>2. IsInjective(Usernames(lobbies[l]))
      BY <2>1 DEF IsInjective, Usernames, Sound, Seating, Distinct
    <2> QED
      BY <2>1, <2>2 DEF Sound, Seating
  <1>3. SeatsMirrored
    BY DEF LobbyInv, SeatsMirrored, InMatch, Sound, Seating, Mirrors, Usernames
  <1> QED
    BY <1>1, <1>2, <1>3

\* The lobby controller keeps its types: a host is a user, the settings stay within the
\* bounds of ClampSettings whoever is kicked, and no room has an id yet to be given.
THEOREM LobbyTypeCorrect == Spec => []LobbyTypeOK
  BY LobbyInitial, LobbyStep, SoundRooms, PTL DEF Spec

\* No room ever has more members than seats, a member twice, or bots only: SyncBots
\* fills no seat that a user has and finds names that nobody has.
THEOREM RoomsFit == Spec => []RoomFits
  BY LobbyInitial, LobbyStep, SoundRooms, PTL DEF Spec

\* The players of a match that was started in the room, or resumed at a table like it, are
\* the members of the room, in their order, through takeovers, replacements by bots and
\* departures, until it ends or the host resumes another over it.
THEOREM TablesMirrorRooms == Spec => []SeatsMirrored
  BY LobbyInitial, LobbyStep, SoundRooms, PTL DEF Spec

-----------------------------------------------------------------------------
(***************************************************************************)
(* The host.                                                               *)
(***************************************************************************)
LEMMA UserIsMember ==
  ASSUME NEW r, Sound(r), NEW u \in User
  PROVE  Contains(r, u) <=> \E m \in Humans(r) : m.username = u
  <1>1. u \notin BotName
    BY LobbyAssumption
  <1> QED
    BY <1>1 DEF Contains, Usernames, Range, Humans, IsBot

\* Who was the host of a room and is not in it any more has a follower.
Followed(r, q) ==
  (Contains(r, r.host) /\ ~Contains(q, r.host) /\ Connected(q) # {})
  => \E m \in Connected(q) : m.username = q.host

LEMMA DepartureFollowed ==
  ASSUME NEW r, Sound(r), NEW n, NEW q, Departed(r, n, q)
  PROVE  Followed(r, q)
  <1>1. r.host \in User /\ Sound(q)
    BY DEF Sound, Room, Departed
  <1>2. CASE r.host = n
    BY <1>2 DEF Departed, HostFollows, Followed
  <1>3. CASE r.host # n
    <2>1. Contains(r, r.host) => Contains(q, r.host)
      BY <1>1, <1>3, UserIsMember DEF Departed
    <2> QED
      BY <2>1 DEF Followed
  <1> QED
    BY <1>2, <1>3

\* A room that keeps the names of its users keeps its host.
LEMMA StayFollowed ==
  ASSUME NEW r, Sound(r), NEW q, Sound(q),
         \A m \in Humans(r) : \E p \in Humans(q) : p.username = m.username
  PROVE  Followed(r, q)
  <1>1. r.host \in User
    BY DEF Sound, Room
  <1> QED
    BY <1>1, UserIsMember DEF Followed

Follows == \A l \in DOMAIN lobbies \cap DOMAIN lobbies' : Followed(lobbies[l], lobbies'[l])

LEMMA UpdateFollows ==
  ASSUME LobbyInv, NEW l \in DOMAIN lobbies, NEW q, lobbies' = Updated(l, q),
         Followed(lobbies[l], q)
  PROVE  Follows
  BY UpdatedRooms DEF Follows, Followed

LEMMA HostStep ==
  ASSUME LobbyInv, Next
  PROVE  Follows
  <1>1. ASSUME UNCHANGED lobbies PROVE Follows
    BY <1>1 DEF Follows, Followed
  <1>2. ASSUME NEW u \in User, NEW s \in Socket, Opening(u, s) PROVE Follows
    <2>1. ASSUME NEW l \in DOMAIN lobbies, NEW q, Sound(q), lobbies' = Updated(l, q),
                 Humans(q) = {Back(u, s, m) : m \in Humans(lobbies[l])}
          PROVE  Follows
      <3>1. \A m : Back(u, s, m).username = m.username
        BY DEF Back, Present
      <3>2. Sound(lobbies[l])
        BY DEF LobbyInv
      <3>3. Followed(lobbies[l], q)
        BY <2>1, <3>1, <3>2, StayFollowed
      <3> QED
        BY <2>1, <3>3, UpdateFollows
    <2> QED
      BY <1>1, <1>2, <2>1 DEF Opening
  <1>3. ASSUME NEW s \in Socket, Closing(s) PROVE Follows
    <2>1. ASSUME NEW l \in DOMAIN lobbies, NEW q, Sound(q), lobbies' = Updated(l, q),
                 Humans(q) = {Closed(m, s) : m \in Humans(lobbies[l])}
          PROVE  Follows
      <3>1. Sound(lobbies[l])
        BY DEF LobbyInv
      <3>2. \A m \in Humans(lobbies[l]) : Closed(m, s).username = m.username
        BY <3>1, UsersAreUsers DEF Closed, Away, Member
      <3>3. Followed(lobbies[l], q)
        BY <2>1, <3>1, <3>2, StayFollowed
      <3> QED
        BY <2>1, <3>3, UpdateFollows
    <2> QED
      BY <1>1, <1>3, <2>1 DEF Closing
  <1>4. ASSUME NEW s \in Socket, Creation(s) PROVE Follows
    <2>1. \A l \in DOMAIN lobbies : lobbies'[l] = lobbies[l]
      BY <1>4, RoomIds DEF Creation
    <2> QED
      BY <2>1 DEF Follows, Followed
  <1>5. ASSUME NEW s \in Socket, NEW l \in Lobby, Arrival(s, l) PROVE Follows
    <2>1. PICK q : /\ Arrived(lobbies[l], sockets[s].username, s, q)
                   /\ lobbies' = Updated(l, q)
      BY <1>5 DEF Arrival
    <2>2. l \in DOMAIN lobbies /\ Sound(lobbies[l])
      BY <1>5 DEF Arrival, LobbyInv
    <2>3. Followed(lobbies[l], q)
      BY <2>1, <2>2, StayFollowed DEF Arrived
    <2> QED
      BY <2>1, <2>2, <2>3, UpdateFollows
  <1>6. ASSUME NEW l \in Lobby, NEW n, Departure(l, n) PROVE Follows
    <2>1. l \in DOMAIN lobbies /\ Sound(lobbies[l])
      BY <1>6 DEF Departure, LobbyInv
    <2>2. ASSUME NEW q, Departed(lobbies[l], n, q), lobbies' = Updated(l, q)
          PROVE  Follows
      BY <2>1, <2>2, DepartureFollowed, UpdateFollows
    <2>3. ASSUME lobbies' = Restrict(lobbies, DOMAIN lobbies \ {l})
          PROVE  Follows
      <3>1. \A k \in DOMAIN lobbies' : lobbies'[k] = lobbies[k]
        BY <2>3 DEF Restrict
      <3> QED
        BY <3>1 DEF Follows, Followed
    <2> QED
      BY <1>6, <2>2, <2>3 DEF Departure
  <1>7. ASSUME NEW l \in Lobby, Adjustment(l) PROVE Follows
    <2>1. PICK q : /\ Sound(q) /\ Humans(q) = Humans(lobbies[l])
                   /\ lobbies' = Updated(l, q)
      BY <1>7 DEF Adjustment
    <2>2. l \in DOMAIN lobbies /\ Sound(lobbies[l])
      BY <1>7 DEF Adjustment, LobbyInv
    <2>3. Followed(lobbies[l], q)
      BY <2>1, <2>2, StayFollowed
    <2> QED
      BY <2>1, <2>2, <2>3, UpdateFollows
  <1> QED
    BY <1>2, <1>3, <1>4, <1>5, <1>6, <1>7, HandlersStep DEF Step

\* A room whose host has gone, by his own will, by eviction or by the end of his seat,
\* has a connected host at once if anybody connected is left in it.
THEOREM HostsArePassedOn == Spec => HostPassedOn
  <1>1. LobbyInv /\ [Next]_vars =>
          [\A l \in DOMAIN lobbies \cap DOMAIN lobbies' :
             LET r == lobbies[l]
                 q == lobbies'[l]
             IN  (Contains(r, r.host) /\ ~Contains(q, r.host) /\ Connected(q) # {})
                 => \E m \in Connected(q) : m.username = q.host]_vars
    BY HostStep DEF Follows, Followed
  <1> QED
    BY <1>1, LobbyInitial, LobbyStep, PTL DEF Spec, HostPassedOn

-----------------------------------------------------------------------------
(***************************************************************************)
(* The socket a user opened last.                                          *)
(***************************************************************************)
\* The latest socket of u, if it is open, is his; in a room, u is a member by it.
Seated(u) ==
  latest[u] # NoSocket =>
    LET t == latest[u]
    IN  /\ Open(t) /\ sockets[t].username = u
        /\ sockets[t].lobby \in DOMAIN lobbies
             => Present(u, t) \in Humans(lobbies[sockets[t].lobby])

\* No socket is bound to a room yet to be made.
BoundToMade ==
  \A s \in DOMAIN sockets : sockets[s].lobby \in (1 .. next_id - 1) \cup {NoLobby}

LatestInv == LobbyInv /\ BoundToMade /\ \A u \in User : Seated(u)

\* A step that leaves the latest socket of u alone, or takes it out of the rooms, and
\* takes the member by it out of none.
LEMMA StaysSeated ==
  ASSUME NEW u \in User, Seated(u), latest'[u] = latest[u],
         latest[u] \in DOMAIN sockets =>
           LET t == latest[u]
           IN  /\ t \in DOMAIN sockets' /\ sockets'[t].username = sockets[t].username
               /\ \/ sockets'[t].lobby \notin DOMAIN lobbies'
                  \/ /\ sockets'[t].lobby = sockets[t].lobby
                     /\ sockets[t].lobby \in DOMAIN lobbies
                     /\ Present(u, t) \in Humans(lobbies[sockets[t].lobby]) =>
                          Present(u, t) \in Humans(lobbies'[sockets[t].lobby])
  PROVE  Seated(u)'
  BY DEF Seated, Open

LEMMA LatestInitial == Init => LatestInv
  <1>1. ASSUME Init PROVE BoundToMade /\ \A u \in User : Seated(u)
    <2>1. DOMAIN sockets = {}
      BY <1>1, EmptySeq, LenProperties DEF Init
    <2> QED
      BY <1>1, <2>1 DEF Init, BoundToMade, Seated
  <1> QED
    BY <1>1, LobbyInitial DEF LatestInv

LEMMA LatestStep ==
  ASSUME LatestInv, [Next]_vars
  PROVE  LatestInv'
  <1>1. LobbyInv /\ LobbyInv'
    BY LobbyStep DEF LatestInv
  <1>2. NoLobby \notin DOMAIN lobbies /\ NoLobby \notin DOMAIN lobbies'
    BY <1>1, LobbyAssumption DEF LobbyInv, Lobby
  <1> SUFFICES (BoundToMade /\ \A u \in User : Seated(u))'
    BY <1>1 DEF LatestInv
  <1>3. \A u \in User : latest[u] \in Socket \cup {NoSocket}
    BY <1>1 DEF LobbyInv
  <1>4. CASE UNCHANGED vars
    BY <1>4 DEF vars, LatestInv, BoundToMade, Seated, Open
  <1>5. ASSUME NEW u \in User, NEW s \in Socket, Opening(u, s)
        PROVE  (BoundToMade /\ \A v \in User : Seated(v))'
    <2>1. /\ ~Open(s) /\ latest' = [latest EXCEPT ![u] = s] /\ next_id' = next_id
      BY <1>5 DEF Opening
    <2>2. latest'[u] = s /\ \A v \in User : v # u => latest'[v] = latest[v]
      BY <1>1, <2>1 DEF LobbyInv
    <2>3. CASE sockets' = Plugged(s, u, NoLobby) /\ UNCHANGED lobbies
      <3>1. /\ DOMAIN sockets' = DOMAIN sockets \cup {s}
            /\ sockets'[s].lobby = NoLobby /\ sockets'[s].username = u
            /\ \A t \in DOMAIN sockets : t # s /\ sockets'[t] = sockets[t]
        BY <1>1, <2>1, <2>3, PluggedSockets
      <3>2. BoundToMade'
        BY <2>1, <3>1 DEF LatestInv, BoundToMade
      <3>3. Seated(u)'
        BY <1>2, <2>2, <3>1 DEF Seated, Open
      <3>4. ASSUME NEW v \in User, v # u PROVE Seated(v)'
        BY <2>2, <2>3, <3>1, <3>4, StaysSeated DEF LatestInv, Seated
      <3> QED
        BY <3>2, <3>3, <3>4
    <2>4. ASSUME NEW l \in DOMAIN lobbies, NEW q, Contains(lobbies[l], u),
                 sockets' = Plugged(s, u, l), lobbies' = Updated(l, q),
                 Humans(q) = {Back(u, s, m) : m \in Humans(lobbies[l])}
          PROVE  (BoundToMade /\ \A v \in User : Seated(v))'
      <3>0. l \in Lobby \cup {NoLobby} /\ l \in 1 .. next_id - 1 /\ Sound(lobbies[l])
        BY <1>1, RoomIds DEF LobbyInv
      <3>1. /\ DOMAIN sockets' = DOMAIN sockets \cup {s}
            /\ sockets'[s].lobby = l /\ sockets'[s].username = u
            /\ \A t \in DOMAIN sockets : t # s /\ sockets'[t] = sockets[t]
        BY <1>1, <2>1, <2>4, <3>0, PluggedSockets
      <3>2. BoundToMade'
        BY <2>1, <3>0, <3>1 DEF LatestInv, BoundToMade
      <3>3. /\ DOMAIN lobbies' = DOMAIN lobbies /\ lobbies'[l] = q
            /\ \A k \in DOMAIN lobbies : k # l => lobbies'[k] = lobbies[k]
        BY <2>4, UpdatedRooms
      <3>4. Present(u, s) \in Humans(q)
        BY <2>4, <3>0, UserIsMember DEF Back
      <3>5. Seated(u)'
        BY <2>2, <3>1, <3>3, <3>4 DEF Seated, Open
      <3>6. ASSUME NEW v \in User, v # u PROVE Seated(v)'
        <4>1. \A t : Present(v, t) \in Humans(lobbies[l]) => Present(v, t) \in Humans(q)
          BY <2>4, <3>6 DEF Back, Present
        <4> QED
          BY <2>2, <3>1, <3>3, <3>6, <4>1, StaysSeated DEF LatestInv, Seated
      <3> QED
        BY <3>2, <3>5, <3>6
    <2> QED
      BY <1>5, <2>3, <2>4 DEF Opening
  <1>6. ASSUME NEW s \in Socket, Closing(s)
        PROVE  (BoundToMade /\ \A v \in User : Seated(v))'
    <2>1. /\ next_id' = next_id /\ DOMAIN sockets' = DOMAIN sockets \ {s}
          /\ \A t \in DOMAIN sockets' : sockets'[t] = sockets[t]
          /\ latest' = [v \in User |-> IF latest[v] = s THEN NoSocket ELSE latest[v]]
      BY <1>6 DEF Closing, Restrict
    <2>2. BoundToMade'
      BY <2>1 DEF LatestInv, BoundToMade
    <2> SUFFICES ASSUME NEW v \in User, latest[v] # s PROVE Seated(v)'
      BY <2>1, <2>2 DEF Seated
    <2>3. latest'[v] = latest[v]
      BY <2>1
    <2>4. CASE UNCHANGED lobbies
      BY <2>1, <2>3, <2>4, StaysSeated DEF LatestInv, Seated
    <2>5. ASSUME NEW l \in DOMAIN lobbies, NEW q, lobbies' = Updated(l, q),
                 Humans(q) = {Closed(m, s) : m \in Humans(lobbies[l])}
          PROVE  Seated(v)'
      <3>1. /\ DOMAIN lobbies' = DOMAIN lobbies /\ lobbies'[l] = q
            /\ \A k \in DOMAIN lobbies : k # l => lobbies'[k] = lobbies[k]
        BY <2>5, UpdatedRooms
      <3>2. Closed(Present(v, latest[v]), s) = Present(v, latest[v])
        BY DEF Closed, Present
      <3>3. Present(v, latest[v]) \in Humans(lobbies[l]) => Present(v, latest[v]) \in Humans(q)
        BY <2>5, <3>2
      <3> QED
        BY <2>1, <2>3, <3>1, <3>3, StaysSeated DEF LatestInv, Seated
    <2> QED
      BY <1>6, <2>4, <2>5 DEF Closing
  <1>7. ASSUME NEW s \in Socket, Creation(s)
        PROVE  (BoundToMade /\ \A v \in User : Seated(v))'
    <2>1. PICK q : /\ Humans(q) = {Present(sockets[s].username, s)}
                   /\ lobbies' = [l \in DOMAIN lobbies \cup {next_id} |->
                                   IF l = next_id THEN q ELSE lobbies[l]]
      BY <1>7 DEF Creation
    <2>2. /\ next_id' = next_id + 1 /\ sockets' = Bound(s, next_id) /\ latest' = latest
          /\ s \in DOMAIN sockets /\ sockets[s].lobby = NoLobby /\ next_id <= MaxCreated
      BY <1>7 DEF Creation, Open
    <2>3. /\ DOMAIN lobbies' = DOMAIN lobbies \cup {next_id} /\ lobbies'[next_id] = q
          /\ \A l \in DOMAIN lobbies : lobbies'[l] = lobbies[l]
      BY <1>1, <2>1, RoomIds
    <2>4. /\ DOMAIN sockets' = DOMAIN sockets
          /\ sockets'[s].lobby = next_id /\ sockets'[s].username = sockets[s].username
          /\ \A t \in DOMAIN sockets : t # s => sockets'[t] = sockets[t]
      BY <1>1, <2>2, BoundSockets
    <2>5. \A t \in DOMAIN sockets : sockets[t].lobby # next_id
      BY <2>2, LobbyAssumption DEF LatestInv, BoundToMade, LobbyInv, Lobby
    <2>6. next_id \in Nat /\ next_id \in 1 .. next_id' - 1
      BY <1>1, <2>2, LobbyAssumption DEF LobbyInv
    <2>7. BoundToMade'
      BY <2>2, <2>4, <2>6 DEF LatestInv, BoundToMade
    <2>8. ASSUME NEW v \in User PROVE Seated(v)'
      <3>1. CASE latest[v] = s
        <4>1. Seated(v) /\ latest'[v] = s
          BY <2>2, <3>1 DEF LatestInv
        <4> QED
          BY <2>1, <2>2, <2>3, <2>4, <3>1, <4>1 DEF Seated, Open
      <3>2. CASE latest[v] # s
        BY <2>2, <2>3, <2>4, <2>5, <3>2, StaysSeated DEF LatestInv, Seated
      <3> QED
        BY <3>1, <3>2
    <2> QED
      BY <2>7, <2>8
  <1>8. ASSUME NEW s \in Socket, NEW l \in Lobby, Arrival(s, l)
        PROVE  (BoundToMade /\ \A v \in User : Seated(v))'
    <2>1. PICK q : /\ Arrived(lobbies[l], sockets[s].username, s, q)
                   /\ lobbies' = Updated(l, q)
      BY <1>8 DEF Arrival
    <2>2. /\ l \in DOMAIN lobbies /\ s \in DOMAIN sockets /\ sockets[s].lobby = NoLobby
          /\ sockets' = Bound(s, l) /\ next_id' = next_id /\ latest' = latest
      BY <1>8 DEF Arrival, Open
    <2>3. /\ DOMAIN lobbies' = DOMAIN lobbies /\ lobbies'[l] = q
          /\ \A k \in DOMAIN lobbies : k # l => lobbies'[k] = lobbies[k]
      BY <2>1, <2>2, UpdatedRooms
    <2>4. /\ DOMAIN sockets' = DOMAIN sockets
          /\ sockets'[s].lobby = l /\ sockets'[s].username = sockets[s].username
          /\ \A t \in DOMAIN sockets : t # s => sockets'[t] = sockets[t]
      BY <1>1, <2>2, BoundSockets
    <2>5. BoundToMade'
      BY <1>1, <2>2, <2>4 DEF LatestInv, BoundToMade, LobbyInv
    <2>6. ASSUME NEW v \in User PROVE Seated(v)'
      <3>1. CASE latest[v] = s
        <4>1. Seated(v) /\ latest'[v] = s
          BY <2>2, <3>1 DEF LatestInv
        <4> QED
          BY <2>1, <2>2, <2>3, <2>4, <3>1, <4>1 DEF Seated, Open, Arrived
      <3>2. CASE latest[v] # s
        BY <2>1, <2>2, <2>3, <2>4, <3>2, StaysSeated DEF LatestInv, Seated, Arrived
      <3> QED
        BY <3>1, <3>2
    <2> QED
      BY <2>5, <2>6
  <1>9. ASSUME NEW l \in Lobby, NEW n, Departure(l, n)
        PROVE  (BoundToMade /\ \A v \in User : Seated(v))'
    <2>1. /\ l \in DOMAIN lobbies /\ sockets' = Released(lobbies[l], n)
          /\ next_id' = next_id /\ latest' = latest
      BY <1>9 DEF Departure
    <2>2. /\ DOMAIN sockets' = DOMAIN sockets
          /\ \A s \in DOMAIN sockets :
               /\ sockets'[s].username = sockets[s].username
               /\ sockets'[s] = sockets[s] \/ sockets'[s].lobby = NoLobby
               /\ (\E m \in Range(lobbies[l].members) :
                      m.username = n /\ m.is_connected /\ m.socket = s)
                  => sockets'[s].lobby = NoLobby
      BY <1>1, <2>1, ReleasedSockets
    <2>3. BoundToMade'
      BY <2>1, <2>2 DEF LatestInv, BoundToMade
    <2>4. \A t : Present(n, t) \in Humans(lobbies[l]) /\ t \in DOMAIN sockets
                => sockets'[t].lobby = NoLobby
      BY <2>2 DEF Humans, Present
    <2>5. ASSUME NEW q, Departed(lobbies[l], n, q), lobbies' = Updated(l, q),
                 NEW v \in User
          PROVE  Seated(v)'
      <3>1. /\ DOMAIN lobbies' = DOMAIN lobbies /\ lobbies'[l] = q
            /\ \A k \in DOMAIN lobbies : k # l => lobbies'[k] = lobbies[k]
        BY <2>1, <2>5, UpdatedRooms
      <3>2. v # n => \A t : Present(v, t) \in Humans(lobbies[l])
                              => Present(v, t) \in Humans(q)
        BY <2>5 DEF Departed, Present
      <3>3. Seated(v) /\ latest'[v] = latest[v]
        BY <2>1 DEF LatestInv
      <3> QED
        BY <1>2, <2>2, <2>4, <3>1, <3>2, <3>3, StaysSeated DEF Seated
    <2>6. ASSUME lobbies' = Restrict(lobbies, DOMAIN lobbies \ {l}), NEW v \in User
          PROVE  Seated(v)'
      <3>1. /\ DOMAIN lobbies' \subseteq DOMAIN lobbies
            /\ \A k \in DOMAIN lobbies' : lobbies'[k] = lobbies[k]
        BY <2>6 DEF Restrict
      <3>2. Seated(v) /\ latest'[v] = latest[v]
        BY <2>1 DEF LatestInv
      <3> QED
        BY <1>2, <2>2, <3>1, <3>2, StaysSeated DEF Seated
    <2> QED
      BY <1>9, <2>3, <2>5, <2>6 DEF Departure
  <1>10. ASSUME NEW l \in Lobby, Adjustment(l)
         PROVE  (BoundToMade /\ \A v \in User : Seated(v))'
    <2>1. PICK q : /\ Humans(q) = Humans(lobbies[l]) /\ lobbies' = Updated(l, q)
      BY <1>10 DEF Adjustment
    <2>2. l \in DOMAIN lobbies /\ UNCHANGED <<next_id, sockets, latest>>
      BY <1>10 DEF Adjustment
    <2>3. /\ DOMAIN lobbies' = DOMAIN lobbies /\ lobbies'[l] = q
          /\ \A k \in DOMAIN lobbies : k # l => lobbies'[k] = lobbies[k]
      BY <2>1, <2>2, UpdatedRooms
    <2>4. BoundToMade'
      BY <2>2 DEF LatestInv, BoundToMade
    <2>5. ASSUME NEW v \in User PROVE Seated(v)'
      BY <2>1, <2>2, <2>3, StaysSeated DEF LatestInv, Seated
    <2> QED
      BY <2>4, <2>5
  <1> QED
    BY <1>1, <1>4, <1>5, <1>6, <1>7, <1>8, <1>9, <1>10, HandlersStep DEF Step

\* Whichever of his older sockets close, and whoever else goes or comes, the socket a user
\* opened last is the one by which the room it is bound to has him as a member.
THEOREM LatestSocketsCount == Spec => []LatestSocketCounts
  <1>1. LatestInv => LatestSocketCounts
    <2> SUFFICES ASSUME LatestInv, NEW u \in User, Open(latest[u]),
                        Sends(latest[u], sockets[latest[u]].lobby)
                 PROVE  Present(u, latest[u])
                          \in Range(lobbies[sockets[latest[u]].lobby].members)
      BY DEF LatestSocketCounts
    <2>1. latest[u] # NoSocket
      BY LobbyAssumption DEF LatestInv, LobbyInv, Open
    <2> QED
      BY <2>1 DEF LatestInv, Seated, Sends, Humans
  <1> QED
    BY <1>1, LatestInitial, LatestStep, PTL DEF Spec

-----------------------------------------------------------------------------
(***************************************************************************)
(* The sockets of connected users.                                         *)
(***************************************************************************)
\* The member m of room l is reached by his socket.
Reached(l, m) ==
  /\ m.socket # NoSocket /\ Open(m.socket)
  /\ sockets[m.socket].username = m.username /\ sockets[m.socket].lobby = l

ReachInv == LobbyInv /\ \A l \in DOMAIN lobbies : \A m \in Connected(lobbies[l]) : Reached(l, m)

LEMMA ReachInitial == Init => ReachInv
  <1>1. ASSUME Init PROVE DOMAIN lobbies = {}
    BY <1>1, EmptySeq, LenProperties DEF Init
  <1> QED
    BY <1>1, LobbyInitial DEF ReachInv

LEMMA ReachStep ==
  ASSUME MayBeKicked \subseteq User, ReachInv, [Next]_vars
  PROVE  ReachInv'
  <1>1. LobbyInv /\ LobbyInv'
    BY LobbyStep DEF ReachInv
  <1>2. \A l \in DOMAIN lobbies : \A m \in Connected(lobbies[l]) : Reached(l, m)
    BY DEF ReachInv
  <1> SUFFICES \A k \in DOMAIN lobbies' : \A m \in Connected(lobbies'[k]) : Reached(k, m)'
    BY <1>1 DEF ReachInv, Connected, Humans, Reached, Open
  <1>3. NoLobby \notin DOMAIN lobbies /\ NoSocket \notin Socket /\ NoSocket \notin DOMAIN sockets
    BY <1>1, LobbyAssumption DEF LobbyInv, Lobby
  <1>4. CASE UNCHANGED vars
    BY <1>2, <1>4 DEF vars, Reached, Open
  <1>5. ASSUME NEW u \in User, NEW s \in Socket, Opening(u, s),
               NEW k \in DOMAIN lobbies', NEW m \in Connected(lobbies'[k])
        PROVE  Reached(k, m)'
    <2>1. ~Open(s)
      BY <1>5 DEF Opening
    <2>2. CASE sockets' = Plugged(s, u, NoLobby) /\ UNCHANGED lobbies
      <3>1. \A t \in DOMAIN sockets : t \in DOMAIN sockets' /\ sockets'[t] = sockets[t]
        BY <1>1, <2>1, <2>2, PluggedSockets
      <3>2. Reached(k, m)
        BY <1>2, <1>5, <2>2
      <3> QED
        BY <3>1, <3>2 DEF Reached, Open
    <2>3. ASSUME NEW l \in DOMAIN lobbies, NEW q, sockets' = Plugged(s, u, l),
                 Humans(q) = {Back(u, s, p) : p \in Humans(lobbies[l])},
                 lobbies' = Updated(l, q)
          PROVE  Reached(k, m)'
      <3>0. l \in Lobby \cup {NoLobby}
        BY <1>1, RoomIds
      <3>1. /\ DOMAIN sockets' = DOMAIN sockets \cup {s}
            /\ sockets'[s].lobby = l /\ sockets'[s].username = u
            /\ \A t \in DOMAIN sockets : t # s /\ sockets'[t] = sockets[t]
        BY <1>1, <2>1, <2>3, <3>0, PluggedSockets
      <3>2. /\ DOMAIN lobbies' = DOMAIN lobbies /\ lobbies'[l] = q
            /\ \A j \in DOMAIN lobbies : j # l => lobbies'[j] = lobbies[j]
        BY <2>3, UpdatedRooms
      <3>3. CASE k = l /\ m = Present(u, s)
        BY <1>3, <3>1, <3>3 DEF Reached, Open, Present
      <3>4. CASE ~(k = l /\ m = Present(u, s))
        <4>1. m \in Connected(lobbies[k])
          BY <1>5, <2>3, <3>2, <3>4 DEF Connected, Back
        <4>2. Reached(k, m)
          BY <1>2, <3>2, <4>1
        <4> QED
          BY <3>1, <4>2 DEF Reached, Open
      <3> QED
        BY <3>3, <3>4
    <2> QED
      BY <1>5, <2>2, <2>3 DEF Opening
  <1>6. ASSUME NEW s \in Socket, Closing(s),
               NEW k \in DOMAIN lobbies', NEW m \in Connected(lobbies'[k])
        PROVE  Reached(k, m)'
    <2>1. /\ DOMAIN sockets' = DOMAIN sockets \ {s}
          /\ \A t \in DOMAIN sockets' : sockets'[t] = sockets[t]
      BY <1>6 DEF Closing, Restrict
    <2>2. SUFFICES k \in DOMAIN lobbies /\ m \in Connected(lobbies[k]) /\ m.socket # s
      BY <1>2, <2>1 DEF Reached, Open
    <2>3. CASE UNCHANGED lobbies /\ sockets[s].lobby \notin DOMAIN lobbies
      BY <1>2, <1>6, <2>3 DEF Reached
    <2>4. ASSUME NEW q, sockets[s].lobby \in DOMAIN lobbies,
                 Humans(q) = {Closed(p, s) : p \in Humans(lobbies[sockets[s].lobby])},
                 lobbies' = Updated(sockets[s].lobby, q)
          PROVE  k \in DOMAIN lobbies /\ m \in Connected(lobbies[k]) /\ m.socket # s
      <3>1. PICK l \in DOMAIN lobbies : l = sockets[s].lobby
        BY <2>4
      <3>2. /\ DOMAIN lobbies' = DOMAIN lobbies /\ lobbies'[l] = q
            /\ \A j \in DOMAIN lobbies : j # l => lobbies'[j] = lobbies[j]
        BY <2>4, <3>1, UpdatedRooms
      <3>3. CASE k # l
        <4>1. m \in Connected(lobbies[k]) /\ k \in DOMAIN lobbies
          BY <1>6, <3>2, <3>3
        <4> QED
          BY <1>2, <3>1, <3>3, <4>1 DEF Reached
      <3>4. CASE k = l
        <4>1. m \in Humans(q) /\ m.is_connected
          BY <1>6, <3>2, <3>4 DEF Connected
        <4>2. PICK p \in Humans(lobbies[l]) : m = Closed(p, s)
          BY <2>4, <3>1, <4>1
        <4>3. p \in Member
          BY <1>1, UsersAreUsers DEF LobbyInv
        <4>4. Away(p).is_connected = FALSE
          BY <4>3 DEF Away, Member
        <4>5. m = p /\ ~(p.username = sockets[s].username /\ p.socket = s)
          BY <4>1, <4>2, <4>4 DEF Closed
        <4>6. m \in Connected(lobbies[l])
          BY <4>1, <4>2, <4>5 DEF Connected
        <4> QED
          BY <1>2, <3>4, <4>5, <4>6 DEF Reached
      <3> QED
        BY <3>3, <3>4
    <2> QED
      BY <1>6, <2>3, <2>4 DEF Closing
  <1>7. ASSUME NEW s \in Socket, Creation(s),
               NEW k \in DOMAIN lobbies', NEW m \in Connected(lobbies'[k])
        PROVE  Reached(k, m)'
    <2>1. PICK q : /\ Humans(q) = {Present(sockets[s].username, s)}
                   /\ lobbies' = [l \in DOMAIN lobbies \cup {next_id} |->
                                   IF l = next_id THEN q ELSE lobbies[l]]
      BY <1>7 DEF Creation
    <2>2. /\ sockets' = Bound(s, next_id)
          /\ s \in DOMAIN sockets /\ sockets[s].lobby = NoLobby
      BY <1>7 DEF Creation, Open
    <2>3. /\ DOMAIN lobbies' = DOMAIN lobbies \cup {next_id} /\ lobbies'[next_id] = q
          /\ \A l \in DOMAIN lobbies : l # next_id /\ lobbies'[l] = lobbies[l]
      BY <1>1, <2>1, RoomIds
    <2>4. /\ DOMAIN sockets' = DOMAIN sockets
          /\ sockets'[s].lobby = next_id /\ sockets'[s].username = sockets[s].username
          /\ \A t \in DOMAIN sockets : t # s => sockets'[t] = sockets[t]
      BY <1>1, <2>2, BoundSockets
    <2>5. CASE k = next_id
      <3>1. m = Present(sockets[s].username, s)
        BY <1>7, <2>1, <2>3, <2>5 DEF Connected
      <3> QED
        BY <1>3, <2>2, <2>4, <2>5, <3>1 DEF Reached, Open, Present
    <2>6. CASE k \in DOMAIN lobbies
      <3>1. Reached(k, m) /\ m.socket # s
        BY <1>2, <1>3, <1>7, <2>2, <2>3, <2>6 DEF Reached
      <3> QED
        BY <2>4, <3>1 DEF Reached, Open
    <2> QED
      BY <1>7, <2>3, <2>5, <2>6
  <1>8. ASSUME NEW s \in Socket, NEW l \in Lobby, Arrival(s, l),
               NEW k \in DOMAIN lobbies', NEW m \in Connected(lobbies'[k])
        PROVE  Reached(k, m)'
    <2>1. PICK q : /\ Arrived(lobbies[l], sockets[s].username, s, q)
                   /\ lobbies' = Updated(l, q)
      BY <1>8 DEF Arrival
    <2>2. /\ l \in DOMAIN lobbies /\ s \in DOMAIN sockets /\ sockets[s].lobby = NoLobby
          /\ sockets' = Bound(s, l)
      BY <1>8 DEF Arrival, Open
    <2>3. /\ DOMAIN lobbies' = DOMAIN lobbies /\ lobbies'[l] = q
          /\ \A j \in DOMAIN lobbies : j # l => lobbies'[j] = lobbies[j]
      BY <2>1, <2>2, UpdatedRooms
    <2>4. /\ DOMAIN sockets' = DOMAIN sockets
          /\ sockets'[s].lobby = l /\ sockets'[s].username = sockets[s].username
          /\ \A t \in DOMAIN sockets : t # s => sockets'[t] = sockets[t]
      BY <1>1, <2>2, BoundSockets
    <2>5. CASE k = l /\ m = Present(sockets[s].username, s)
      BY <1>3, <2>2, <2>4, <2>5 DEF Reached, Open, Present
    <2>6. CASE ~(k = l /\ m = Present(sockets[s].username, s))
      <3>1. m \in Connected(lobbies[k]) /\ k \in DOMAIN lobbies
        BY <1>8, <2>1, <2>3, <2>6 DEF Connected, Arrived
      <3>2. Reached(k, m) /\ m.socket # s
        BY <1>2, <1>3, <2>2, <3>1 DEF Reached
      <3> QED
        BY <2>4, <3>2 DEF Reached, Open
    <2> QED
      BY <2>5, <2>6
  <1>9. ASSUME NEW l \in Lobby, NEW n \in User, Departure(l, n),
               NEW k \in DOMAIN lobbies', NEW m \in Connected(lobbies'[k])
        PROVE  Reached(k, m)'
    <2>1. l \in DOMAIN lobbies /\ sockets' = Released(lobbies[l], n) /\ n \notin BotName
      BY <1>9, LobbyAssumption DEF Departure
    <2>2. /\ k \in DOMAIN lobbies /\ m \in Connected(lobbies[k])
          /\ k = l => m.username # n
      <3>1. ASSUME NEW q, Departed(lobbies[l], n, q), lobbies' = Updated(l, q)
            PROVE  /\ k \in DOMAIN lobbies /\ m \in Connected(lobbies[k])
                   /\ k = l => m.username # n
        BY <1>9, <2>1, <3>1, UpdatedRooms DEF Departed, Connected
      <3>2. CASE lobbies' = Restrict(lobbies, DOMAIN lobbies \ {l})
        BY <1>9, <3>2 DEF Restrict
      <3> QED
        BY <1>9, <3>1, <3>2 DEF Departure
    <2>3. Reached(k, m)
      BY <1>2, <2>2
    <2>4. ~ \E p \in Range(lobbies[l].members) :
             p.username = n /\ p.is_connected /\ p.socket = m.socket
      <3> SUFFICES ASSUME NEW p \in Range(lobbies[l].members),
                          p.username = n, p.is_connected, p.socket = m.socket
                   PROVE  FALSE
        OBVIOUS
      <3>1. p \in Connected(lobbies[l])
        BY <2>1 DEF Connected, Humans, IsBot
      <3>2. Reached(l, p)
        BY <1>2, <2>1, <3>1
      <3> QED
        BY <2>2, <2>3, <3>2 DEF Reached
    <2>5. m.socket \in DOMAIN sockets' /\ sockets'[m.socket] = sockets[m.socket]
      BY <1>1, <2>1, <2>3, <2>4, ReleasedSockets DEF Reached, Open
    <2> QED
      BY <2>3, <2>5 DEF Reached, Open
  <1>10. ASSUME NEW l \in Lobby, Adjustment(l),
                NEW k \in DOMAIN lobbies', NEW m \in Connected(lobbies'[k])
         PROVE  Reached(k, m)'
    <2>1. PICK q : /\ Humans(q) = Humans(lobbies[l]) /\ lobbies' = Updated(l, q)
      BY <1>10 DEF Adjustment
    <2>2. l \in DOMAIN lobbies /\ sockets' = sockets
      BY <1>10 DEF Adjustment
    <2>3. m \in Connected(lobbies[k]) /\ k \in DOMAIN lobbies
      BY <1>10, <2>1, <2>2, UpdatedRooms DEF Connected
    <2> QED
      BY <1>2, <2>2, <2>3 DEF Reached, Open
  <1> QED
    BY <1>1, <1>4, <1>5, <1>6, <1>7, <1>8, <1>9, <1>10, HandlersStep DEF Step

\* Where only users are kicked, a user shown as connected is reached by his socket: the bot
\* that replaces a user keeps the address of his socket, and to kick it would unbind
\* whoever has that address by then.
THEOREM SocketsAlwaysAgree ==
  ASSUME MayBeKicked \subseteq User
  PROVE  Spec => []SocketsAgree
  <1>1. ReachInv => SocketsAgree
    BY DEF ReachInv, Reached, SocketsAgree
  <1>2. ReachInv /\ [Next]_vars => ReachInv'
    BY ReachStep
  <1> QED
    BY <1>1, <1>2, ReachInitial, PTL DEF Spec
=============================================================================
