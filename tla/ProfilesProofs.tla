--------------------------- MODULE ProfilesProofs ---------------------------
(***************************************************************************)
(* What the handlers of Profiles keep true on any page, stale or not, with *)
(* any dialogs open and any saves lost: ids, selection and types.  Every   *)
(* copy of the store that a handler may still work on or load (the state,  *)
(* the page, the stores captured by waiting dialogs, the file) is a sound  *)
(* one with ids handed out before; a handler makes sound stores of sound   *)
(* ones, whichever copy it starts from.                                    *)
(***************************************************************************)
EXTENDS Profiles, SequenceTheorems, FiniteSetTheorems, TLAPS

\* s is a store whose networks have ids of their own, below n.
Sound(s, n) ==
  /\ s \in Store
  /\ Distinct(s)
  /\ \A i \in DOMAIN s.profiles : s.profiles[i].id < n

\* A batch under fresh ids: n, n + 1 and so on.
Numbered(new, n) ==
  new \in Seq(Profile) /\ \A i \in DOMAIN new : new[i].id = n + i - 1

-----------------------------------------------------------------------------
(* What handlers make of stores.                                           *)

LEMMA StoreFacts ==
  ASSUME NEW s \in Store
  PROVE  /\ s.profiles \in Seq(Profile) /\ Len(s.profiles) \in Nat
         /\ DOMAIN s.profiles = 1..Len(s.profiles)
         /\ \A i \in 1..Len(s.profiles) :
              /\ s.profiles[i] \in Profile
              /\ s.profiles[i].id \in Nat /\ s.profiles[i].cfg \in Cfg
              /\ s.profiles[i].mode \in StartupMode
         /\ s.selected \in Nat /\ s.auto \in BOOLEAN
<1>1. s.profiles \in Seq(Profile) /\ s.selected \in Nat /\ s.auto \in BOOLEAN
  BY DEF Store
<1>2. /\ Len(s.profiles) \in Nat /\ DOMAIN s.profiles = 1..Len(s.profiles)
      /\ \A i \in 1..Len(s.profiles) : s.profiles[i] \in Profile
  BY <1>1, LenProperties, ElementOfSeq
<1> QED
  BY <1>1, <1>2 DEF Profile

\* Ids handed out later do not make a store unsound.
LEMMA SoundLater ==
  ASSUME NEW s, NEW n \in Nat, NEW m \in Nat, n <= m, Sound(s, n)
  PROVE  Sound(s, m)
<1>1. \A i \in DOMAIN s.profiles : s.profiles[i].id \in Nat
  BY StoreFacts DEF Sound
<1> QED
  BY <1>1 DEF Sound

LEMMA ClampFacts ==
  ASSUME NEW i \in Nat, NEW n \in Nat
  PROVE  /\ Clamp(i, n) \in Nat /\ Clamp(Clamp(i, n), n) = Clamp(i, n)
         /\ n > 0 => Clamp(i, n) < n
  BY DEF Clamp

\* Changing what a network is set to, or the mode it starts in.
LEMMA EditSound ==
  ASSUME NEW n, NEW s, Sound(s, n), InRange(s), NEW i \in DOMAIN s.profiles,
         NEW p \in Profile, p.id = s.profiles[i].id,
         NEW t \in Store, t.profiles = [s.profiles EXCEPT ![i] = p],
         t.selected = s.selected
  PROVE  Sound(t, n) /\ InRange(t)
<1>1. s \in Store
  BY DEF Sound
<1>2. Len(t.profiles) = Len(s.profiles) /\ DOMAIN t.profiles = DOMAIN s.profiles
  BY <1>1, StoreFacts, ExceptSeq
<1>3. \A j \in DOMAIN t.profiles : t.profiles[j].id = s.profiles[j].id
  BY <1>2
<1> QED
  BY <1>2, <1>3 DEF Sound, Distinct, InRange

LEMMA SelectSound ==
  ASSUME NEW n, NEW s, Sound(s, n), NEW k \in Nat
  PROVE  LET t == [s EXCEPT !.selected = k]
         IN  Sound(t, n) /\ t.profiles = s.profiles /\ t.selected = k
  BY DEF Sound, Store, Distinct

LEMMA UpdateStore ==
  ASSUME NEW s \in Store, NEW c \in Seq(Profile), NEW k \in Nat
  PROVE  /\ [s EXCEPT !.profiles = c, !.selected = k] \in Store
         /\ [s EXCEPT !.profiles = c, !.selected = k].profiles = c
         /\ [s EXCEPT !.profiles = c, !.selected = k].selected = k
  BY DEF Store

LEMMA KeyedNumbered ==
  ASSUME NEW batch, NEW k \in Nat, DOMAIN batch = 1..k, next \in Nat,
         \A i \in 1..k : batch[i].cfg \in Cfg /\ batch[i].mode \in StartupMode
  PROVE  Numbered(Keyed(batch), next) /\ Len(Keyed(batch)) = k
<1>1. Keyed(batch) \in [1..k -> Profile]
  BY DEF Keyed, Profile
<1>2. Keyed(batch) \in Seq(Profile)
  BY <1>1
<1>3. Len(Keyed(batch)) = k
  BY <1>1, <1>2, LenProperties
<1> QED
  BY <1>1, <1>2, <1>3 DEF Numbered, Keyed

\* New networks at the end, the first of them selected.
LEMMA ExtendedSound ==
  ASSUME NEW n \in Nat, NEW s, Sound(s, n), NEW new, Numbered(new, n), new # <<>>
  PROVE  Sound(Extended(s, new), n + Len(new)) /\ InRange(Extended(s, new))
<1> DEFINE t == Extended(s, new)
<1>1. s \in Store /\ new \in Seq(Profile) /\ Len(new) \in Nat \ {0}
      /\ DOMAIN new = 1..Len(new)
  BY EmptySeq, LenProperties DEF Sound, Numbered
<1>2. PICK c \in Seq(Profile) : c = s.profiles \o new
  BY <1>1, StoreFacts, ConcatProperties
<1>3. /\ Len(c) = Len(s.profiles) + Len(new)
      /\ DOMAIN c = 1..Len(s.profiles) + Len(new)
      /\ \A i \in 1..Len(s.profiles) + Len(new) :
           c[i] = IF i <= Len(s.profiles) THEN s.profiles[i]
                  ELSE new[i - Len(s.profiles)]
  BY <1>1, <1>2, StoreFacts, ConcatProperties, LenProperties
<1>4. t \in Store /\ t.profiles = c /\ t.selected = Len(s.profiles)
  <2>1. PICK k \in Nat : k = Len(s.profiles)
    BY <1>1, StoreFacts
  <2>2. t = [s EXCEPT !.profiles = c, !.selected = k]
    BY <1>2, <2>1 DEF Extended
  <2>3. s \in Store
    BY <1>1
  <2> HIDE DEF t
  <2>4. t \in Store /\ t.profiles = c /\ t.selected = k
    BY ONLY <2>2, <2>3, c \in Seq(Profile), k \in Nat DEF Store
  <2> QED
    BY <2>1, <2>4
<1>5. \A i \in 1..Len(s.profiles) : s.profiles[i].id \in Nat /\ s.profiles[i].id < n
  BY <1>1, StoreFacts DEF Sound
<1>6. \A i \in 1..Len(new) : new[i].id = n + i - 1
  BY <1>1 DEF Numbered
<1>7. \A i \in DOMAIN c :
        c[i].id = IF i <= Len(s.profiles) THEN s.profiles[i].id
                           ELSE n + (i - Len(s.profiles)) - 1
  <2> SUFFICES ASSUME NEW i \in 1..Len(s.profiles) + Len(new)
               PROVE  c[i].id = IF i <= Len(s.profiles) THEN s.profiles[i].id
                                ELSE n + (i - Len(s.profiles)) - 1
    BY <1>3
  <2>1. CASE i <= Len(s.profiles)
    BY <2>1, <1>3
  <2>2. CASE ~(i <= Len(s.profiles))
    <3>1. Len(s.profiles) \in Nat
      BY <1>1, StoreFacts
    <3>2. i - Len(s.profiles) \in 1..Len(new)
      BY <2>2, <1>1, <3>1
    <3> QED
      BY <2>2, <1>3, <1>6, <3>2
  <2> QED
    BY <2>1, <2>2
<1>8. \A i \in DOMAIN c : c[i].id < n + Len(new)
  BY <1>1, <1>3, <1>5, <1>7, StoreFacts
<1>9. Distinct(t)
  <2> SUFFICES ASSUME NEW i \in DOMAIN c, NEW j \in DOMAIN c,
                      c[i].id = c[j].id
               PROVE  i = j
    BY <1>4 DEF Distinct
  <2>1. \A a, b \in 1..Len(s.profiles) :
          s.profiles[a].id = s.profiles[b].id => a = b
    BY <1>1, StoreFacts DEF Sound, Distinct
  <2>2. Len(s.profiles) \in Nat /\ i \in Nat /\ j \in Nat
    BY <1>1, <1>3, StoreFacts
  <2>3. CASE i <= Len(s.profiles) /\ j <= Len(s.profiles)
    BY <2>1, <2>2, <2>3, <1>3, <1>7
  <2>4. CASE i <= Len(s.profiles) /\ ~(j <= Len(s.profiles))
    <3>1. c[i].id \in Nat /\ c[i].id < n
      <4>1. i \in 1..Len(s.profiles)
        BY <2>2, <2>4, <1>3
      <4>2. c[i].id = s.profiles[i].id
        BY <2>4, <1>7
      <4> QED
        BY <4>1, <4>2, <1>5
    <3>2. c[j].id >= n
      BY <2>2, <2>4, <1>3, <1>7
    <3> QED
      BY <3>1, <3>2
  <2>5. CASE ~(i <= Len(s.profiles)) /\ j <= Len(s.profiles)
    <3>1. c[j].id \in Nat /\ c[j].id < n
      <4>1. j \in 1..Len(s.profiles)
        BY <2>2, <2>5, <1>3
      <4>2. c[j].id = s.profiles[j].id
        BY <2>5, <1>7
      <4> QED
        BY <4>1, <4>2, <1>5
    <3>2. c[i].id >= n
      BY <2>2, <2>5, <1>3, <1>7
    <3> QED
      BY <3>1, <3>2
  <2>6. CASE ~(i <= Len(s.profiles)) /\ ~(j <= Len(s.profiles))
    BY <2>2, <2>6, <1>3, <1>7
  <2> QED
    BY <2>3, <2>4, <2>5, <2>6
<1>10. InRange(t)
  BY <1>1, <1>3, <1>4, StoreFacts DEF InRange, Clamp
<1> QED
  BY <1>4, <1>8, <1>9, <1>10 DEF Sound

LEMMA RemoveFacts ==
  ASSUME NEW S, NEW q \in Seq(S), NEW i \in 1..Len(q)
  PROVE  /\ RemoveAt(q, i) \in Seq(S)
         /\ Len(RemoveAt(q, i)) = Len(q) - 1
         /\ \A j \in 1..Len(q) - 1 :
              RemoveAt(q, i)[j] = IF j < i THEN q[j] ELSE q[j + 1]
<1>1. Len(q) \in Nat /\ \A j \in 1..Len(q) : q[j] \in S
  BY LenProperties, ElementOfSeq
<1>2. PICK u \in Seq(S) :
        u = SubSeq(q, 1, i - 1) /\ Len(u) = i - 1 /\ \A j \in 1..i - 1 : u[j] = q[j]
  <2>1. i - 1 \in Int /\ 1 \in Int /\ \A j \in 1..i - 1 : q[j] \in S
    BY <1>1
  <2>2. SubSeq(q, 1, i - 1) \in Seq(S)
    BY <2>1, SubSeqProperties
  <2>3. Len(SubSeq(q, 1, i - 1)) = i - 1
    BY <2>1, <1>1, SubSeqProperties
  <2>4. \A j \in 1..i - 1 : SubSeq(q, 1, i - 1)[j] = q[j]
    <3>1. \A j \in 1..(i - 1) - 1 + 1 : SubSeq(q, 1, i - 1)[j] = q[1 + j - 1]
      BY <2>1, SubSeqProperties
    <3>2. (i - 1) - 1 + 1 = i - 1 /\ \A j \in 1..i - 1 : 1 + j - 1 = j
      BY <1>1
    <3> QED
      BY <3>1, <3>2
  <2> QED
    BY <2>2, <2>3, <2>4
<1>3. PICK v \in Seq(S) :
        /\ v = SubSeq(q, i + 1, Len(q)) /\ Len(v) = Len(q) - i
        /\ \A j \in 1..Len(q) - i : v[j] = q[j + i]
  <2>1. i + 1 \in Int /\ \A j \in i + 1..Len(q) : q[j] \in S
    BY <1>1
  <2>2. SubSeq(q, i + 1, Len(q)) \in Seq(S)
    BY <2>1, <1>1, SubSeqProperties
  <2>3. Len(SubSeq(q, i + 1, Len(q))) = Len(q) - i
    BY <2>1, <1>1, SubSeqProperties
  <2>4. \A j \in 1..Len(q) - i : SubSeq(q, i + 1, Len(q))[j] = q[j + i]
    <3>1. \A j \in 1..Len(q) - (i + 1) + 1 :
            SubSeq(q, i + 1, Len(q))[j] = q[(i + 1) + j - 1]
      BY <2>1, <1>1, SubSeqProperties
    <3>2. \A j \in 1..Len(q) - i : (i + 1) + j - 1 = j + i
      BY <1>1
    <3>3. Len(q) - (i + 1) + 1 = Len(q) - i
      BY <1>1
    <3> QED
      BY <3>1, <3>2, <3>3
  <2> QED
    BY <2>2, <2>3, <2>4
<1>4. RemoveAt(q, i) = u \o v
  BY <1>2, <1>3 DEF RemoveAt
<1>5. /\ u \o v \in Seq(S) /\ Len(u \o v) = Len(q) - 1
      /\ \A j \in 1..Len(q) - 1 :
           (u \o v)[j] = IF j <= i - 1 THEN u[j] ELSE v[j - (i - 1)]
  <2>1. /\ u \o v \in Seq(S) /\ Len(u \o v) = Len(u) + Len(v)
        /\ \A j \in 1..Len(u) + Len(v) :
             (u \o v)[j] = IF j <= Len(u) THEN u[j] ELSE v[j - Len(u)]
    BY ConcatProperties
  <2>2. Len(u) + Len(v) = Len(q) - 1
    <3>1. Len(u) = i - 1 /\ Len(v) = Len(q) - i
      BY <1>2, <1>3
    <3>2. Len(q) \in Nat /\ i \in Int
      BY <1>1
    <3> QED
      BY ONLY <3>1, <3>2
  <2> QED
    BY <2>1, <2>2, <1>2
<1>6. ASSUME NEW j \in 1..Len(q) - 1
      PROVE  (u \o v)[j] = IF j < i THEN q[j] ELSE q[j + 1]
  <2>1. CASE j < i
    BY <2>1, <1>1, <1>2, <1>5
  <2>2. CASE ~(j < i)
    <3>1. j - (i - 1) \in 1..Len(q) - i /\ (j - (i - 1)) + i = j + 1
      BY <2>2, <1>1
    <3>2. v[j - (i - 1)] = q[j + 1]
      BY <3>1, <1>3
    <3> QED
      BY <2>2, <3>2, <1>1, <1>5
  <2> QED
    BY <2>1, <2>2
<1> QED
  BY <1>4, <1>5, <1>6

\* A network less, and the index of the selected one in range again.
LEMMA DeleteSound ==
  ASSUME NEW n, NEW s, Sound(s, n), NEW i \in DOMAIN s.profiles
  PROVE  LET t == [s EXCEPT !.profiles = RemoveAt(@, i),
                            !.selected = Clamp(@, Len(s.profiles) - 1)]
         IN  Sound(t, n) /\ InRange(t)
<1> DEFINE t == [s EXCEPT !.profiles = RemoveAt(@, i),
                          !.selected = Clamp(@, Len(s.profiles) - 1)]
<1>1. s \in Store /\ i \in 1..Len(s.profiles) /\ Len(s.profiles) \in Nat
      /\ s.profiles \in Seq(Profile) /\ s.selected \in Nat
  BY StoreFacts DEF Sound
<1>2. PICK c \in Seq(Profile) : c = RemoveAt(s.profiles, i)
  BY <1>1, RemoveFacts
<1>3. /\ Len(c) = Len(s.profiles) - 1 /\ DOMAIN c = 1..Len(s.profiles) - 1
      /\ \A j \in 1..Len(s.profiles) - 1 :
           c[j] = IF j < i THEN s.profiles[j] ELSE s.profiles[j + 1]
  BY <1>1, <1>2, RemoveFacts, LenProperties
<1>4. PICK k \in Nat : k = Clamp(s.selected, Len(s.profiles) - 1)
  <2>1. Len(s.profiles) - 1 \in Nat
    BY <1>1
  <2> QED
    BY <1>1, <2>1, ClampFacts
<1>5. t \in Store /\ t.profiles = c /\ t.selected = k
  <2>1. t = [s EXCEPT !.profiles = c, !.selected = k]
    BY <1>2, <1>4
  <2> HIDE DEF t
  <2>2. s \in Store
    BY <1>1
  <2> QED
    BY ONLY <2>1, <2>2, c \in Seq(Profile), k \in Nat DEF Store
<1> HIDE DEF t
<1>6. ASSUME NEW j \in DOMAIN c
      PROVE  LET m == IF j < i THEN j ELSE j + 1
             IN  m \in 1..Len(s.profiles) /\ c[j] = s.profiles[m]
  BY <1>1, <1>3
<1>7. \A j \in DOMAIN c : c[j].id < n
  BY <1>1, <1>6, StoreFacts DEF Sound
<1>8. Distinct(t)
  <2> SUFFICES ASSUME NEW a \in DOMAIN c, NEW b \in DOMAIN c, c[a].id = c[b].id
               PROVE  a = b
    BY <1>5 DEF Distinct
  <2> DEFINE M(j) == IF j < i THEN j ELSE j + 1
  <2>1. M(a) \in 1..Len(s.profiles) /\ c[a] = s.profiles[M(a)]
    BY <1>6
  <2>2. M(b) \in 1..Len(s.profiles) /\ c[b] = s.profiles[M(b)]
    BY <1>6
  <2>3. a \in Nat /\ b \in Nat
    BY <1>1, <1>3
  <2>4. \A x, y \in 1..Len(s.profiles) :
          s.profiles[x].id = s.profiles[y].id => x = y
    BY <1>1, StoreFacts DEF Sound, Distinct
  <2>5. M(a) = M(b)
    <3> HIDE DEF M
    <3> QED
      BY <2>1, <2>2, <2>4
  <2> QED
    BY <1>1, <2>3, <2>5
<1>9. InRange(t)
  <2>1. Len(c) \in Nat /\ k = Clamp(s.selected, Len(c)) /\ s.selected \in Nat
    BY <1>1, <1>3, <1>4
  <2>2. Clamp(k, Len(c)) = k
    BY <2>1, ClampFacts
  <2> QED
    BY <1>5, <2>2 DEF InRange
<1>10. Sound(t, n) /\ InRange(t)
  BY <1>5, <1>7, <1>8, <1>9 DEF Sound
<1> QED
  BY <1>10 DEF t

LEMMA DefaultSound == Sound(DefaultStore, 1) /\ InRange(DefaultStore)
<1>1. [id |-> 0, cfg |-> DefaultCfg, mode |-> "Off"] \in Profile
  BY ProfilesAssumption DEF Profile, StartupMode
<1>2. DefaultStore \in Store
  BY <1>1 DEF DefaultStore, Store
<1>3. Len(DefaultStore.profiles) = 1 /\ DefaultStore.profiles[1].id = 0
  BY DEF DefaultStore
<1>4. DOMAIN DefaultStore.profiles = {1}
  BY <1>2, <1>3, StoreFacts
<1> QED
  BY <1>2, <1>3, <1>4 DEF Sound, Distinct, InRange, Clamp, DefaultStore

\* Only the networks of a store decide whether it is sound.
LEMMA SameProfiles ==
  ASSUME NEW n, NEW s, Sound(s, n), InRange(s), NEW t \in Store,
         t.profiles = s.profiles, t.selected = s.selected
  PROVE  Sound(t, n) /\ InRange(t)
  BY DEF Sound, Distinct, InRange

LEMMA MigrateSound ==
  ASSUME NEW n, NEW s, Sound(s, n), InRange(s)
  PROVE  Sound(Migrate(s), n) /\ InRange(Migrate(s))
<1> DEFINE i == Current(s)
<1>1. s \in Store /\ s.profiles \in Seq(Profile)
  BY StoreFacts DEF Sound
<1>2. CASE ~s.auto
  BY <1>2 DEF Migrate
<1>3. CASE s.auto /\ ~(i \in DOMAIN s.profiles /\ s.profiles[i].mode = "Off")
  <2>1. Migrate(s) = [s EXCEPT !.auto = FALSE, !.profiles = s.profiles]
    BY <1>3 DEF Migrate
  <2>2. /\ Migrate(s) \in Store /\ Migrate(s).profiles = s.profiles
        /\ Migrate(s).selected = s.selected
    BY <1>1, <2>1 DEF Store
  <2> QED
    BY <2>2, SameProfiles
<1>4. CASE s.auto /\ i \in DOMAIN s.profiles /\ s.profiles[i].mode = "Off"
  <2>1. PICK k \in 1..Len(s.profiles) : k = i
    BY <1>1, <1>4, StoreFacts
  <2>2. PICK p \in Profile :
          p = [s.profiles[k] EXCEPT !.mode = "All"] /\ p.id = s.profiles[k].id
    <3>1. s.profiles[k] \in Profile
      BY <1>1, StoreFacts
    <3>2. /\ [s.profiles[k] EXCEPT !.mode = "All"] \in Profile
          /\ [s.profiles[k] EXCEPT !.mode = "All"].id = s.profiles[k].id
      BY <3>1 DEF Profile, StartupMode
    <3> QED
      BY <3>2
  <2>3. PICK c \in Seq(Profile) : c = [s.profiles EXCEPT ![k] = p]
    BY <1>1, ExceptSeq
  <2>4. Migrate(s) = [s EXCEPT !.auto = FALSE, !.profiles = c]
    BY <1>4, <2>1, <2>2, <2>3 DEF Migrate
  <2>5. /\ Migrate(s) \in Store /\ Migrate(s).profiles = c
        /\ Migrate(s).selected = s.selected
    BY ONLY <1>1, <2>4, c \in Seq(Profile) DEF Store
  <2>6. k \in DOMAIN s.profiles
    BY <1>1, StoreFacts
  <2>7. PICK t \in Store : t = Migrate(s)
    BY <2>5
  <2>8. t.profiles = [s.profiles EXCEPT ![k] = p] /\ t.selected = s.selected
    BY <2>3, <2>5, <2>7
  <2>9. p.id = s.profiles[k].id
    BY <2>2
  <2>10. Sound(t, n) /\ InRange(t)
    BY ONLY Sound(s, n), InRange(s), p \in Profile, t \in Store,
            <2>6, <2>8, <2>9, EditSound
  <2> QED
    BY <2>7, <2>10
<1> QED
  BY <1>2, <1>3, <1>4

\* Whatever sound store is on disk, load makes a sound one of it.
LEMMA LoadSound ==
  ASSUME NEW n, NEW s, Sound(s, n)
  PROVE  Sound(Load(s), n) /\ InRange(Load(s))
<1>1. PICK k \in Nat : /\ k = Clamp(s.selected, Len(s.profiles))
                       /\ Clamp(k, Len(s.profiles)) = k
  BY StoreFacts, ClampFacts DEF Sound
<1>2. PICK t : t = [s EXCEPT !.selected = k]
  OBVIOUS
<1>3. Sound(t, n) /\ t.profiles = s.profiles /\ t.selected = k
  BY <1>2, SelectSound
<1>4. InRange(t)
  BY <1>1, <1>3 DEF InRange
<1>5. Load(s) = Migrate(t)
  BY <1>1, <1>2 DEF Load
<1> QED
  BY <1>3, <1>4, <1>5, MigrateSound

\* A backup, whatever its ids, comes back under ids never used.
LEMMA RestoredSound ==
  ASSUME NEW s \in Store, s.profiles # <<>>, next \in Nat
  PROVE  /\ Sound(Restored(s), next + Len(s.profiles)) /\ InRange(Restored(s))
         /\ \A id \in IdsOf(Restored(s)) : id \in Nat /\ id >= next
<1>1. PICK n \in Nat : n = Len(s.profiles)
  BY StoreFacts
<1>2. PICK c \in Seq(Profile) :
        c = Keyed(s.profiles) /\ Numbered(c, next) /\ Len(c) = n
  BY <1>1, StoreFacts, KeyedNumbered DEF Numbered
<1>3. PICK k \in Nat : k = Clamp(s.selected, n) /\ Clamp(k, n) = k
  BY <1>1, StoreFacts, ClampFacts
<1>4. PICK t : t = Restored(s)
  OBVIOUS
<1>5. t = [s EXCEPT !.profiles = c, !.selected = k]
  BY <1>1, <1>2, <1>3, <1>4 DEF Restored
<1>6. t \in Store /\ t.profiles = c /\ t.selected = k
  BY ONLY s \in Store, <1>5, c \in Seq(Profile), k \in Nat DEF Store
<1>7. DOMAIN c = 1..n /\ \A i \in 1..n : c[i].id = next + i - 1
  BY <1>2, LenProperties DEF Numbered
<1>8. Sound(t, next + n)
  BY <1>6, <1>7 DEF Sound, Distinct
<1>9. InRange(t)
  BY <1>2, <1>3, <1>6 DEF InRange
<1>10. \A id \in IdsOf(t) : id \in Nat /\ id >= next
  BY <1>6, <1>7 DEF IdsOf
<1> QED
  BY <1>1, <1>4, <1>8, <1>9, <1>10

-----------------------------------------------------------------------------
(* The invariant.                                                          *)

IdsBelow(n) == 0..n - 1

\* The two copies on display; without a process there are none.
DisplaySound ==
  IF up THEN /\ Sound(store, next) /\ InRange(store)
             /\ Sound(page, next) /\ InRange(page)
  ELSE /\ store = DefaultStore /\ page = DefaultStore
       /\ dialogs = <<>> /\ asked = Nothing

\* What the next launch may load, and what a waiting handler goes on with.
DiskSound    == \A s \in disk : Sound(s, next)
DialogsSound ==
  /\ dialogs \in Seq(Dialog)
  /\ \A i \in DOMAIN dialogs : Sound(dialogs[i].store, next)

\* Only ids handed out have been started.
AskedKnown ==
  asked \in [DOMAIN asked -> Cfg] /\ DOMAIN asked \subseteq IdsBelow(next)

Flags == adrift \in BOOLEAN /\ revived \in BOOLEAN

Bounds ==
  /\ up \in BOOLEAN /\ next \in 0..MaxIds + 1
  /\ backup \subseteq Store /\ Flags

IInv == DisplaySound /\ DiskSound /\ DialogsSound /\ AskedKnown /\ Bounds

LEMMA NextNat == IInv => next \in Nat /\ next <= MaxIds + 1
  BY ProfilesAssumption DEF IInv, Bounds

LEMMA NothingFacts == Nothing \in [DOMAIN Nothing -> Cfg] /\ DOMAIN Nothing = {}
  BY DEF Nothing

\* At first the file, if any, holds the ids 0, 1 and so on up to next.
LEMMA InitIds ==
  ASSUME Init
  PROVE  /\ next \in 0..MaxIds
         /\ disk = {} => next = 0
         /\ \A s \in disk : Sound(s, next) /\ IdsOf(s) = IdsBelow(next)
<1>1. CASE disk = {}
  <2>1. next = 0
    BY <1>1, FS_EmptySet DEF Init
  <2> QED
    BY <1>1, <2>1, ProfilesAssumption
<1>2. ASSUME NEW s \in OldConfigs, disk = {s}
      PROVE  next \in 0..MaxIds /\ Sound(s, next) /\ IdsOf(s) = IdsBelow(next)
  <2>1. /\ s \in Store /\ Len(s.profiles) <= MaxIds
        /\ \A i \in DOMAIN s.profiles : s.profiles[i].id = i - 1
    BY ProfilesAssumption
  <2>2. PICK n \in Nat : n = Len(s.profiles) /\ DOMAIN s.profiles = 1..n
    BY <2>1, StoreFacts
  <2>3. IdsOf(s) = IdsBelow(n)
    <3>1. IdsOf(s) = {i - 1 : i \in 1..n}
      BY <2>1, <2>2 DEF IdsOf
    <3>2. ASSUME NEW k \in 0..n - 1 PROVE k \in {i - 1 : i \in 1..n}
      <4>1. k + 1 \in 1..n /\ k = (k + 1) - 1
        OBVIOUS
      <4> QED
        BY <4>1
    <3> QED
      BY <3>1, <3>2 DEF IdsBelow
  <2>4. next = n
    <3>1. UNION {IdsOf(t) : t \in disk} = 0..n - 1
      BY <1>2, <2>3 DEF IdsBelow
    <3>2. Cardinality(0..n - 1) = n
      BY FS_Interval
    <3> QED
      BY <3>1, <3>2 DEF Init
  <2> QED
    BY <2>1, <2>2, <2>3, <2>4, ProfilesAssumption DEF Sound, Distinct
<1> QED
  BY <1>1, <1>2 DEF Init

LEMMA InitInvariant == Init => IInv
<1> SUFFICES ASSUME Init PROVE IInv
  OBVIOUS
<1>1. /\ up = FALSE /\ backup = {} /\ Flags /\ asked = Nothing
      /\ store = DefaultStore /\ page = DefaultStore /\ dialogs = <<>>
  BY DEF Init, Flags
<1>2. next \in 0..MaxIds + 1 /\ DiskSound
  BY InitIds, ProfilesAssumption DEF DiskSound
<1>3. DialogsSound
  BY <1>1 DEF DialogsSound
<1>4. AskedKnown
  BY <1>1, NothingFacts DEF AskedKnown
<1>5. DisplaySound
  BY <1>1 DEF DisplaySound
<1>6. Bounds
  BY <1>1, <1>2 DEF Bounds
<1> QED
  BY <1>2, <1>3, <1>4, <1>5, <1>6 DEF IInv

-----------------------------------------------------------------------------
(* Every step keeps it.                                                    *)

\* What a handler shows and saves, if it is sound.
LEMMA CommitKeeps ==
  ASSUME IInv, up, up' = up, next' \in Nat, next <= next',
         NEW s, Sound(s, next'), InRange(s), Show(s),
         disk' \subseteq disk \cup {s}
  PROVE  DisplaySound' /\ DiskSound'
<1>1. next \in Nat
  BY NextNat
<1>2. Sound(page, next') /\ InRange(page)
  BY <1>1, SoundLater DEF IInv, DisplaySound
<1>3. store' = s /\ page' \in {s, page}
  BY DEF Show
<1>4. DisplaySound'
  <2>1. Sound(page', next') /\ InRange(page')
    BY <1>2, <1>3
  <2>2. Sound(store', next') /\ InRange(store')
    BY <1>3
  <2> QED
    BY <2>1, <2>2 DEF DisplaySound, Sound, InRange, Distinct
<1>5. DiskSound'
  <2> SUFFICES ASSUME NEW t \in disk' PROVE Sound(t, next')
    BY DEF DiskSound, Sound, Distinct
  <2>1. CASE t = s
    BY <2>1
  <2>2. CASE t \in disk
    BY <2>2, <1>1, SoundLater DEF IInv, DiskSound
  <2> QED
    BY <2>1, <2>2
<1> QED
  BY <1>4, <1>5

LEMMA DialogsLater ==
  ASSUME IInv, next' \in Nat, next <= next', dialogs' = dialogs
  PROVE  DialogsSound'
<1>1. \A i \in DOMAIN dialogs : Sound(dialogs[i].store, next')
  BY NextNat, SoundLater DEF IInv, DialogsSound
<1> QED
  BY <1>1 DEF IInv, DialogsSound, Sound, Distinct

LEMMA KnownLater ==
  ASSUME IInv, next' \in Nat, next <= next'
  PROVE  IdsBelow(next) \subseteq IdsBelow(next')
  BY NextNat DEF IdsBelow

\* Commands that stop networks, and none at all.
LEMMA StoppedKnown ==
  ASSUME IInv, next' \in Nat, next <= next',
         NEW ids, asked' = asked \/ asked' = Stopped(ids)
  PROVE  AskedKnown'
<1>1. asked \in [DOMAIN asked -> Cfg] /\ DOMAIN asked \subseteq IdsBelow(next')
  BY KnownLater DEF IInv, AskedKnown
<1>2. CASE asked' = asked
  BY <1>1, <1>2 DEF AskedKnown, IdsBelow
<1>3. CASE asked' = Stopped(ids)
  <2>1. asked' = [id \in DOMAIN asked \ ids |-> asked[id]]
    BY <1>3 DEF Stopped, Restrict
  <2>2. asked' \in [DOMAIN asked' -> Cfg] /\ DOMAIN asked' \subseteq DOMAIN asked
    BY <1>1, <2>1
  <2> QED
    BY <1>1, <2>2 DEF AskedKnown, IdsBelow
<1> QED
  BY <1>2, <1>3

LEMMA HandlerKeeps ==
  ASSUME IInv, up, up' = up, next' \in 0..MaxIds + 1, next <= next',
         NEW s, Sound(s, next'), InRange(s), Show(s), disk' \subseteq disk \cup {s},
         DialogsSound', AskedKnown', backup' = backup,
         Flags'
  PROVE  IInv'
<1>1. next' \in Nat
  BY ProfilesAssumption
<1>2. Bounds'
  <2>1. up' \in BOOLEAN /\ backup' \subseteq Store
    BY DEF IInv, Bounds
  <2> QED
    BY <2>1 DEF Bounds, IdsBelow
<1> QED
  BY <1>1, <1>2, CommitKeeps DEF IInv

LEMMA SaveFacts ==
  ASSUME NEW s, Commit(s) PROVE Show(s) /\ disk' \subseteq disk \cup {s}
  BY DEF Commit, Save

LEMMA CommitFlags ==
  ASSUME IInv, NEW s, Commit(s), revived' = revived PROVE Flags'
<1>1. adrift' \in BOOLEAN
  BY DEF Commit, Save
<1> QED
  BY <1>1 DEF IInv, Bounds, Flags

\* A handler that is done at once and hands out no id.
LEMMA QuickKeeps ==
  ASSUME IInv, Input, NEW s, Sound(s, next), InRange(s),
         Show(s), disk' \subseteq disk \cup {s},
         UNCHANGED <<up, backup, dialogs, next>>,
         NEW ids, asked' = asked \/ asked' = Stopped(ids),
         Flags'
  PROVE  IInv'
<1>1. next \in Nat /\ next \in 0..MaxIds + 1
  BY NextNat DEF IInv, Bounds
<1>2. DialogsSound' /\ AskedKnown'
  BY <1>1, DialogsLater, StoppedKnown
<1> QED
  BY <1>1, <1>2, HandlerKeeps DEF Input

LEMMA PageFacts ==
  ASSUME IInv, Input
  PROVE  /\ up /\ page \in Store /\ Sound(page, next) /\ InRange(page)
         /\ Flags /\ next \in Nat
         /\ \A p \in Range(page.profiles) :
              p \in Profile /\ p.id \in IdsBelow(next)
<1>1. /\ up /\ page \in Store /\ Sound(page, next) /\ InRange(page)
      /\ Flags /\ next \in Nat
  BY NextNat DEF Input, IInv, DisplaySound, Sound, Bounds
<1>2. ASSUME NEW i \in DOMAIN page.profiles
      PROVE  page.profiles[i] \in Profile /\ page.profiles[i].id \in IdsBelow(next)
  <2>1. page.profiles[i] \in Profile /\ page.profiles[i].id \in Nat
    BY <1>1, StoreFacts
  <2>2. page.profiles[i].id < next
    BY <1>1 DEF Sound
  <2> QED
    BY <1>1, <2>1, <2>2 DEF IdsBelow
<1> QED
  BY <1>1, <1>2 DEF Range

\* A change of one network on the page, under the same id.
LEMMA OneEdited ==
  ASSUME NEW n, NEW s, Sound(s, n), InRange(s), NEW i \in DOMAIN s.profiles,
         NEW p \in Profile, p.id = s.profiles[i].id,
         NEW t, t = [s EXCEPT !.profiles[i] = p]
  PROVE  Sound(t, n) /\ InRange(t)
<1>1. s \in Store /\ s.profiles \in Seq(Profile) /\ i \in 1..Len(s.profiles)
  BY StoreFacts DEF Sound
<1>2. PICK q \in Seq(Profile) : q = [s.profiles EXCEPT ![i] = p]
  BY <1>1, ExceptSeq
<1>3. t = [s EXCEPT !.profiles = q]
  BY <1>2
<1>4. t \in Store /\ t.profiles = q /\ t.selected = s.selected
  BY ONLY <1>1, <1>3, q \in Seq(Profile) DEF Store
<1>5. t.profiles = [s.profiles EXCEPT ![i] = p]
  BY <1>2, <1>4
<1> QED
  BY ONLY Sound(s, n), InRange(s), i \in DOMAIN s.profiles, p \in Profile,
          p.id = s.profiles[i].id, <1>4, <1>5, EditSound

LEMMA EditKeeps == ASSUME IInv, Edit PROVE IInv'
<1>1. PICK i, c, s :
        /\ i \in DOMAIN page.profiles /\ c \in Cfg
        /\ s = [page EXCEPT !.profiles[i].cfg = c] /\ Commit(s)
  BY DEF Edit
<1>2. Sound(page, next) /\ InRange(page) /\ page \in Store
  BY PageFacts DEF Edit
<1>3. page.profiles[i] \in Profile
  BY <1>1, <1>2, StoreFacts
<1>4. PICK p \in Profile : /\ p = [page.profiles[i] EXCEPT !.cfg = c]
                           /\ p.id = page.profiles[i].id
  <2>1. /\ [page.profiles[i] EXCEPT !.cfg = c] \in Profile
        /\ [page.profiles[i] EXCEPT !.cfg = c].id = page.profiles[i].id
    BY <1>1, <1>3 DEF Profile
  <2> QED
    BY <2>1
<1>5. s = [page EXCEPT !.profiles[i] = p]
  BY <1>1, <1>4
<1>6. Sound(s, next) /\ InRange(s)
  <2>1. i \in DOMAIN page.profiles
    BY <1>1
  <2> QED
    BY <2>1, <1>2, <1>4, <1>5, OneEdited
<1>7. Show(s) /\ disk' \subseteq disk \cup {s}
  BY <1>1, SaveFacts
<1>8. Flags'
  BY <1>1, CommitFlags DEF Edit
<1> QED
  BY <1>6, <1>7, <1>8, QuickKeeps DEF Edit

LEMMA SetModeKeeps == ASSUME IInv, SetMode PROVE IInv'
<1>1. PICK i, mode, s :
        /\ i \in DOMAIN page.profiles /\ mode \in Modes
        /\ s = [page EXCEPT !.profiles[i].mode = mode] /\ Commit(s)
  BY DEF SetMode
<1>2. Sound(page, next) /\ InRange(page) /\ page \in Store
  BY PageFacts DEF SetMode
<1>3. page.profiles[i] \in Profile /\ mode \in StartupMode
  BY <1>1, <1>2, StoreFacts, ProfilesAssumption
<1>4. PICK p \in Profile : /\ p = [page.profiles[i] EXCEPT !.mode = mode]
                           /\ p.id = page.profiles[i].id
  <2>1. /\ [page.profiles[i] EXCEPT !.mode = mode] \in Profile
        /\ [page.profiles[i] EXCEPT !.mode = mode].id = page.profiles[i].id
    BY <1>3 DEF Profile
  <2> QED
    BY <2>1
<1>5. s = [page EXCEPT !.profiles[i] = p]
  BY <1>1, <1>4
<1>6. Sound(s, next) /\ InRange(s)
  <2>1. i \in DOMAIN page.profiles
    BY <1>1
  <2> QED
    BY <2>1, <1>2, <1>4, <1>5, OneEdited
<1>7. Show(s) /\ disk' \subseteq disk \cup {s}
  BY <1>1, SaveFacts
<1>8. Flags'
  BY <1>1, CommitFlags DEF SetMode
<1> QED
  BY <1>6, <1>7, <1>8, QuickKeeps DEF SetMode

LEMMA SelectKeeps == ASSUME IInv, Select PROVE IInv'
<1>1. PICK i, s :
        /\ i \in DOMAIN page.profiles
        /\ s = [page EXCEPT !.selected = i - 1] /\ Commit(s)
  BY DEF Select
<1>2. Sound(page, next) /\ page \in Store
  BY PageFacts DEF Select
<1>3. PICK k \in Nat : k = i - 1 /\ k < Len(page.profiles)
  BY <1>1, <1>2, StoreFacts
<1>4. Sound(s, next) /\ s.profiles = page.profiles /\ s.selected = k
  BY <1>1, <1>2, <1>3, SelectSound
<1>5. InRange(s)
  BY <1>3, <1>4 DEF InRange, Clamp
<1>6. Show(s) /\ disk' \subseteq disk \cup {s}
  BY <1>1, SaveFacts
<1>7. Flags'
  BY <1>1, CommitFlags DEF Select
<1> QED
  BY <1>4, <1>5, <1>6, <1>7, QuickKeeps DEF Select

LEMMA RewriteKeeps == ASSUME IInv, SetPreference \/ Nudge PROVE IInv'
<1>1. Input /\ Show(page) /\ disk' \subseteq disk \cup {page}
  BY SaveFacts DEF SetPreference, Nudge
<1>2. Sound(page, next) /\ InRange(page) /\ Flags'
  BY <1>1, PageFacts, CommitFlags DEF SetPreference, Nudge, Flags
<1>3. UNCHANGED <<up, backup, dialogs, next, asked>>
  BY DEF SetPreference, Nudge
<1> QED
  BY <1>1, <1>2, <1>3, QuickKeeps

LEMMA DeleteKeeps == ASSUME IInv, Delete PROVE IInv'
<1>1. PICK i, s :
        /\ i \in DOMAIN page.profiles
        /\ s = [page EXCEPT !.profiles = RemoveAt(@, i),
                            !.selected = Clamp(@, Len(page.profiles) - 1)]
        /\ Commit(s) /\ asked' = Stopped({page.profiles[i].id})
  BY DEF Delete
<1>2. Sound(page, next)
  BY PageFacts DEF Delete
<1>3. Sound(s, next) /\ InRange(s)
  BY <1>1, <1>2, DeleteSound
<1>4. Show(s) /\ disk' \subseteq disk \cup {s}
  BY <1>1, SaveFacts
<1>5. Flags'
  BY <1>1, CommitFlags DEF Delete
<1> QED
  BY <1>1, <1>3, <1>4, <1>5, QuickKeeps DEF Delete

\* A dialog that returns is the last of those waiting; the others wait on.
LEMMA ReturnFacts ==
  ASSUME IInv, NEW d, Return(d), next' \in Nat, next <= next'
  PROVE  /\ DialogsSound' /\ up
         /\ Last(dialogs).store \in Store /\ Sound(Last(dialogs).store, next)
         /\ \E i \in DOMAIN dialogs : Last(dialogs) = dialogs[i]
         /\ \A i \in DOMAIN dialogs' : i \in DOMAIN dialogs /\ dialogs'[i] = dialogs[i]
<1>1. /\ dialogs \in Seq(Dialog) /\ dialogs # <<>> /\ up
      /\ dialogs' = SubSeq(dialogs, 1, Len(dialogs) - 1)
  BY DEF IInv, DialogsSound, Return, Front
<1>2. PICK n \in Nat \ {0} : n = Len(dialogs) /\ DOMAIN dialogs = 1..n
  BY <1>1, EmptySeq, LenProperties
<1>3. Sound(Last(dialogs).store, next)
  BY <1>2 DEF IInv, DialogsSound, Last
<1>4. \A i \in 1..n - 1 : dialogs[i] \in Dialog
  BY <1>1, <1>2, ElementOfSeq
<1>5. 1 \in Int /\ n - 1 \in Int
  BY <1>2
<1>6. SubSeq(dialogs, 1, n - 1) \in Seq(Dialog)
  BY <1>4, <1>5, SubSeqProperties
<1>7. Len(SubSeq(dialogs, 1, n - 1)) = n - 1
  BY <1>2, <1>4, <1>5, SubSeqProperties
<1>8. \A i \in 1..n - 1 : SubSeq(dialogs, 1, n - 1)[i] = dialogs[i]
  <2>1. \A i \in 1..(n - 1) - 1 + 1 :
          SubSeq(dialogs, 1, n - 1)[i] = dialogs[1 + i - 1]
    BY <1>4, <1>5, SubSeqProperties
  <2>2. (n - 1) - 1 + 1 = n - 1 /\ \A i \in 1..n - 1 : 1 + i - 1 = i
    BY <1>2
  <2> QED
    BY <2>1, <2>2
<1>9. DOMAIN dialogs' = 1..n - 1
  BY <1>1, <1>2, <1>6, <1>7, LenProperties
<1>10. \A i \in DOMAIN dialogs' : i \in DOMAIN dialogs /\ dialogs'[i] = dialogs[i]
  BY <1>1, <1>2, <1>8, <1>9
<1>11. \A i \in DOMAIN dialogs' : Sound(dialogs'[i].store, next')
  BY <1>10, NextNat, SoundLater DEF IInv, DialogsSound
<1>12. DialogsSound'
  BY <1>1, <1>2, <1>6, <1>11 DEF DialogsSound, Sound, Distinct
<1>13. \E i \in DOMAIN dialogs : Last(dialogs) = dialogs[i]
  BY <1>2 DEF Last
<1> QED
  BY <1>1, <1>3, <1>10, <1>12, <1>13 DEF Sound

\* A handler that adds networks to the store it holds.
LEMMA BatchKeeps ==
  ASSUME IInv, up, up' = up, NEW base, Sound(base, next),
         NEW batch, NEW k \in Nat \ {0}, DOMAIN batch = 1..k,
         \A i \in 1..k : batch[i].cfg \in Cfg /\ batch[i].mode \in StartupMode,
         NewIds(k), Commit(Extended(base, Keyed(batch))), DialogsSound',
         UNCHANGED <<backup, asked, revived>>
  PROVE  IInv'
<1>1. next \in Nat /\ next' = next + k /\ next + k <= MaxIds
  BY NextNat DEF NewIds
<1>2. next' \in 0..MaxIds + 1 /\ next' \in Nat /\ next <= next'
  BY <1>1, ProfilesAssumption
<1>3. PICK new : new = Keyed(batch)
  OBVIOUS
<1>4. Numbered(new, next) /\ Len(new) = k
  BY <1>1, <1>3, KeyedNumbered
<1>5. new # <<>>
  BY <1>4
<1>6. PICK s : s = Extended(base, new)
  OBVIOUS
<1>7. Sound(s, next') /\ InRange(s)
  BY <1>1, <1>4, <1>5, <1>6, ExtendedSound
<1>8. Show(s) /\ disk' \subseteq disk \cup {s}
  BY <1>3, <1>6, SaveFacts
<1>9. AskedKnown'
  BY <1>2, StoppedKnown
<1>10. Flags'
  BY <1>3, <1>6, CommitFlags
<1> QED
  BY <1>2, <1>7, <1>8, <1>9, <1>10, HandlerKeeps

LEMMA AddNetworkKeeps == ASSUME IInv, AddNetwork PROVE IInv'
<1>1. PICK batch : batch = <<[cfg |-> DefaultCfg, mode |-> "Off"]>>
  OBVIOUS
<1>2. PICK k \in Nat \ {0} : k = 1
  OBVIOUS
<1>3. /\ DOMAIN batch = 1..k
      /\ \A i \in 1..k : batch[i].cfg \in Cfg /\ batch[i].mode \in StartupMode
  BY <1>1, <1>2, ProfilesAssumption DEF StartupMode
<1>4. NewIds(k) /\ Commit(Extended(page, Keyed(batch)))
  BY <1>1, <1>2 DEF AddNetwork
<1>5. up' = up /\ dialogs' = dialogs /\ UNCHANGED <<backup, asked, revived>>
  BY DEF AddNetwork
<1>6. up /\ Sound(page, next) /\ next \in Nat
  BY PageFacts DEF AddNetwork
<1>7. DialogsSound'
  BY <1>4, <1>5, <1>6, DialogsLater DEF NewIds
<1> QED
  BY <1>3, <1>4, <1>5, <1>6, <1>7, BatchKeeps

LEMMA DuplicateKeeps == ASSUME IInv, Duplicate PROVE IInv'
<1>1. PICK p : p = page.profiles[Current(page)]
  OBVIOUS
<1>2. PICK batch : batch = <<p>>
  OBVIOUS
<1>3. PICK k \in Nat \ {0} : k = 1
  OBVIOUS
<1>4. up /\ Sound(page, next) /\ next \in Nat /\ page \in Store
  BY PageFacts DEF Duplicate
<1>5. p.cfg \in Cfg /\ p.mode \in StartupMode
  BY <1>1, <1>4, StoreFacts DEF Duplicate
<1>6. /\ DOMAIN batch = 1..k
      /\ \A i \in 1..k : batch[i].cfg \in Cfg /\ batch[i].mode \in StartupMode
  BY <1>2, <1>3, <1>5
<1>7. NewIds(k) /\ Commit(Extended(page, Keyed(batch)))
  BY <1>1, <1>2, <1>3 DEF Duplicate
<1>8. up' = up /\ dialogs' = dialogs /\ UNCHANGED <<backup, asked, revived>>
  BY DEF Duplicate
<1>9. DialogsSound'
  BY <1>4, <1>7, <1>8, DialogsLater DEF NewIds
<1> QED
  BY <1>4, <1>6, <1>7, <1>8, <1>9, BatchKeeps

LEMMA FileFacts ==
  ASSUME NEW batch \in Files
  PROVE  /\ Len(batch) \in Nat \ {0} /\ DOMAIN batch = 1..Len(batch)
         /\ \A i \in 1..Len(batch) :
              batch[i].cfg \in Cfg /\ batch[i].mode \in StartupMode
<1>1. batch \in Seq([cfg : Cfg, mode : StartupMode]) /\ batch # <<>>
  BY ProfilesAssumption
<1>2. Len(batch) \in Nat \ {0} /\ DOMAIN batch = 1..Len(batch)
  BY <1>1, EmptySeq, LenProperties
<1>3. \A i \in 1..Len(batch) : batch[i] \in [cfg : Cfg, mode : StartupMode]
  BY <1>1, ElementOfSeq
<1> QED
  BY <1>2, <1>3

LEMMA PasteKeeps == ASSUME IInv, Paste PROVE IInv'
<1>1. PICK batch \in Files :
        NewIds(Len(batch)) /\ Commit(Extended(page, Keyed(batch)))
  BY DEF Paste
<1>2. PICK k \in Nat \ {0} : k = Len(batch)
  BY FileFacts
<1>3. /\ DOMAIN batch = 1..k
      /\ \A i \in 1..k : batch[i].cfg \in Cfg /\ batch[i].mode \in StartupMode
  BY <1>2, FileFacts
<1>4. up /\ Sound(page, next) /\ next \in Nat
  BY PageFacts DEF Paste
<1>5. NewIds(k)
  BY <1>1, <1>2
<1>6. DialogsSound'
  BY <1>4, <1>5, DialogsLater DEF NewIds, Paste
<1> QED
  BY <1>1, <1>3, <1>4, <1>5, <1>6, BatchKeeps DEF Paste

LEMMA ImportedKeeps == ASSUME IInv, Imported PROVE IInv'
<1>1. PICK batch \in Files :
        NewIds(Len(batch)) /\ Commit(Extended(Last(dialogs).store, Keyed(batch)))
  BY DEF Imported
<1>2. PICK k \in Nat \ {0} : k = Len(batch)
  BY FileFacts
<1>3. /\ DOMAIN batch = 1..k
      /\ \A i \in 1..k : batch[i].cfg \in Cfg /\ batch[i].mode \in StartupMode
  BY <1>2, FileFacts
<1>4. NewIds(k)
  BY <1>1, <1>2
<1>5. next' \in Nat /\ next <= next'
  BY <1>4, NextNat DEF NewIds
<1>6. DialogsSound' /\ up /\ Sound(Last(dialogs).store, next)
  BY <1>5, ReturnFacts DEF Imported
<1> QED
  BY <1>1, <1>3, <1>4, <1>6, BatchKeeps DEF Imported

\* A handler that shows and saves nothing.
LEMMA IdleKeeps ==
  ASSUME IInv, up, UNCHANGED <<up, disk, store, page, next, adrift, revived>>,
         DialogsSound', AskedKnown', backup' \subseteq Store
  PROVE  IInv'
<1>1. DisplaySound'
  BY DEF IInv, DisplaySound, Sound, InRange, Distinct
<1>2. DiskSound'
  BY DEF IInv, DiskSound, Sound, Distinct
<1>3. Bounds'
  BY DEF IInv, Bounds, Flags, IdsBelow
<1> QED
  BY <1>1, <1>2, <1>3 DEF IInv

LEMMA ConnectKeeps == ASSUME IInv, Connect PROVE IInv'
<1>1. PICK p \in Range(page.profiles) :
        asked' = [id \in DOMAIN asked \cup {p.id} |->
                    IF id = p.id THEN p.cfg ELSE asked[id]]
  BY DEF Connect
<1>2. UNCHANGED <<up, disk, store, page, next, adrift, revived>> /\ dialogs' = dialogs
      /\ backup' = backup
  BY DEF Connect
<1>3. up /\ next \in Nat /\ p.cfg \in Cfg /\ p.id \in IdsBelow(next)
  BY PageFacts DEF Connect, Profile
<1>4. AskedKnown'
  <2>1. asked \in [DOMAIN asked -> Cfg] /\ DOMAIN asked \subseteq IdsBelow(next)
    BY DEF IInv, AskedKnown
  <2>2. asked' \in [DOMAIN asked' -> Cfg] /\ DOMAIN asked' \subseteq IdsBelow(next)
    BY <1>1, <1>3, <2>1
  <2> QED
    BY <1>2, <2>2 DEF AskedKnown, IdsBelow
<1>5. DialogsSound'
  BY <1>2, <1>3, DialogsLater
<1> QED
  BY <1>2, <1>3, <1>4, <1>5, IdleKeeps DEF IInv, Bounds

LEMMA DisconnectKeeps == ASSUME IInv, Disconnect PROVE IInv'
<1>1. PICK ids : asked' = Stopped(ids)
  BY DEF Disconnect
<1>2. UNCHANGED <<up, disk, store, page, next, adrift, revived>> /\ dialogs' = dialogs
      /\ backup' = backup
  BY DEF Disconnect
<1>3. up /\ next \in Nat
  BY PageFacts DEF Disconnect
<1>4. AskedKnown' /\ DialogsSound'
  BY <1>1, <1>2, <1>3, StoppedKnown, DialogsLater
<1> QED
  BY <1>2, <1>3, <1>4, IdleKeeps DEF IInv, Bounds

LEMMA OpenDialogKeeps == ASSUME IInv, OpenDialog PROVE IInv'
<1>1. PICK e : /\ dialogs' = Append(dialogs, e)
               /\ e.store = page
               /\ \E d \in {"import", "backup", "restore"} :
                    e = [for |-> d, store |-> page]
  BY DEF OpenDialog
<1>2. UNCHANGED <<up, disk, store, page, next, adrift, revived>> /\ asked' = asked
      /\ backup' = backup
  BY DEF OpenDialog
<1>3. up /\ next \in Nat /\ page \in Store /\ Sound(page, next)
  BY PageFacts DEF OpenDialog
<1>4. e \in Dialog /\ dialogs \in Seq(Dialog)
  BY <1>1, <1>3 DEF Dialog, IInv, DialogsSound
<1>5. PICK n \in Nat : n = Len(dialogs) /\ DOMAIN dialogs = 1..n
  BY <1>4, LenProperties
<1>6. /\ dialogs' \in Seq(Dialog) /\ DOMAIN dialogs' = 1..n + 1
      /\ \A i \in 1..n : dialogs'[i] = dialogs[i]
      /\ dialogs'[n + 1] = e
  BY <1>1, <1>4, <1>5, AppendProperties, LenProperties
<1>7. ASSUME NEW i \in DOMAIN dialogs' PROVE Sound(dialogs'[i].store, next)
  <2>1. CASE i \in 1..n
    BY <2>1, <1>5, <1>6 DEF IInv, DialogsSound
  <2>2. CASE i = n + 1
    BY <2>2, <1>1, <1>3, <1>6
  <2> QED
    BY <1>6, <2>1, <2>2
<1>8. DialogsSound'
  BY <1>2, <1>6, <1>7 DEF DialogsSound, Sound, Distinct
<1>9. AskedKnown'
  BY <1>2, <1>3, StoppedKnown
<1> QED
  BY <1>2, <1>3, <1>8, <1>9, IdleKeeps DEF IInv, Bounds

LEMMA CancelledKeeps == ASSUME IInv, Cancelled PROVE IInv'
<1>1. PICK d : Return(d)
  BY DEF Cancelled
<1>2. UNCHANGED <<up, disk, store, page, next, adrift, revived>> /\ asked' = asked
      /\ backup' = backup
  BY DEF Cancelled
<1>3. DialogsSound' /\ up
  BY <1>1, <1>2, NextNat, ReturnFacts
<1>4. AskedKnown'
  BY <1>2, NextNat, StoppedKnown
<1> QED
  BY <1>2, <1>3, <1>4, IdleKeeps DEF IInv, Bounds

LEMMA BackedUpKeeps == ASSUME IInv, BackedUp PROVE IInv'
<1>1. UNCHANGED <<up, disk, store, page, next, adrift, revived>> /\ asked' = asked
  BY DEF BackedUp
<1>2. DialogsSound' /\ up /\ Last(dialogs).store \in Store
  BY <1>1, NextNat, ReturnFacts DEF BackedUp
<1>3. AskedKnown'
  BY <1>1, NextNat, StoppedKnown
<1>4. backup' \subseteq Store
  BY <1>2 DEF BackedUp, IInv, Bounds
<1> QED
  BY <1>1, <1>2, <1>3, <1>4, IdleKeeps

\* No network of s has an id handed out so far.
Fresh(s) == \A id \in IdsOf(s) : id \in Nat /\ id >= next

\* What a restore brings back: a sound store, under ids never used.
LEMMA RestoreFacts ==
  ASSUME IInv, RestoreDone
  PROVE  \E s : /\ Sound(s, next') /\ InRange(s) /\ Commit(s)
               /\ Fresh(s) /\ next' \in 0..MaxIds + 1 /\ next <= next'
               /\ asked' = Stopped(IdsOf(Last(dialogs).store))
<1>1. PICK s \in backup \cup OldBackups :
        /\ s.profiles # <<>> /\ NewIds(Len(s.profiles))
        /\ asked' = Stopped(IdsOf(Last(dialogs).store))
        /\ Commit(Restored(s))
  BY DEF RestoreDone
<1>2. s \in Store
  BY ProfilesAssumption DEF IInv, Bounds
<1>3. PICK k \in Nat : k = Len(s.profiles)
  BY <1>2, StoreFacts
<1>4. next \in Nat /\ next' = next + k /\ next + k <= MaxIds
  BY <1>1, <1>3, NextNat DEF NewIds
<1>5. next' \in 0..MaxIds + 1 /\ next <= next'
  BY <1>4, ProfilesAssumption
<1>6. PICK t : t = Restored(s)
  OBVIOUS
<1>7. Sound(t, next') /\ InRange(t) /\ Fresh(t)
  BY <1>1, <1>2, <1>3, <1>4, <1>6, RestoredSound DEF Fresh
<1>8. Commit(t)
  BY <1>1, <1>6
<1> QED
  BY <1>1, <1>5, <1>7, <1>8

LEMMA RestoreFlag == ASSUME IInv, RestoreDone PROVE revived' \in BOOLEAN
  BY DEF RestoreDone, IInv, Bounds, Flags

LEMMA RestoreDoneKeeps == ASSUME IInv, RestoreDone PROVE IInv'
<1>1. PICK s : /\ Sound(s, next') /\ InRange(s) /\ Commit(s)
               /\ next' \in 0..MaxIds + 1 /\ next <= next'
               /\ asked' = Stopped(IdsOf(Last(dialogs).store))
  BY RestoreFacts
<1>2. next' \in Nat
  BY <1>1, ProfilesAssumption
<1>3. Return("restore") /\ UNCHANGED <<up, backup>>
  BY DEF RestoreDone
<1>4. DialogsSound' /\ up
  BY <1>1, <1>2, <1>3, ReturnFacts
<1>5. AskedKnown'
  BY <1>1, <1>2, StoppedKnown
<1>6. Show(s) /\ disk' \subseteq disk \cup {s}
  BY <1>1, SaveFacts
<1>7. Flags'
  <2>1. adrift' \in BOOLEAN
    BY <1>1 DEF Commit, Save
  <2>2. revived' \in BOOLEAN
    BY RestoreFlag
  <2> QED
    BY <2>1, <2>2 DEF Flags
<1> QED
  BY <1>1, <1>3, <1>4, <1>5, <1>6, <1>7, HandlerKeeps

LEMMA RenderKeeps == ASSUME IInv, Render PROVE IInv'
<1>1. /\ up /\ page' = store
      /\ UNCHANGED <<up, disk, backup, store, dialogs, asked, next, adrift, revived>>
  BY DEF Render
<1>2. DisplaySound'
  BY <1>1 DEF IInv, DisplaySound, Sound, InRange, Distinct
<1>3. DiskSound' /\ DialogsSound'
  BY <1>1 DEF IInv, DiskSound, DialogsSound, Sound, Distinct
<1>4. AskedKnown' /\ Bounds'
  BY <1>1 DEF IInv, AskedKnown, Bounds, Flags, IdsBelow
<1> QED
  BY <1>2, <1>3, <1>4 DEF IInv

LEMMA ExitKeeps == ASSUME IInv, Exit PROVE IInv'
<1>1. /\ up' = FALSE /\ store' = DefaultStore /\ page' = DefaultStore
      /\ asked' = Nothing /\ dialogs' = <<>>
      /\ adrift' = FALSE /\ revived' = FALSE /\ UNCHANGED <<disk, backup, next>>
  BY DEF Exit
<1>2. DisplaySound'
  BY <1>1 DEF DisplaySound, Nothing, DefaultStore
<1>3. DiskSound'
  BY <1>1 DEF IInv, DiskSound, Sound, Distinct
<1>4. DialogsSound'
  BY <1>1 DEF DialogsSound
<1>5. AskedKnown'
  BY <1>1, NothingFacts DEF AskedKnown
<1>6. Bounds'
  BY <1>1 DEF IInv, Bounds, Flags, IdsBelow
<1> QED
  BY <1>2, <1>3, <1>4, <1>5, <1>6 DEF IInv

\* What is started at launch is in the store.
LEMMA ToStartKnown ==
  ASSUME NEW n \in Nat, NEW s, Sound(s, n), NEW at_startup
  PROVE  LET a == ToStart(s, at_startup)
         IN  a \in [DOMAIN a -> Cfg] /\ DOMAIN a \subseteq IdsBelow(n)
<1>1. \A p \in Range(s.profiles) : p.cfg \in Cfg /\ p.id \in IdsBelow(n)
  <2>1. ASSUME NEW i \in DOMAIN s.profiles
        PROVE  s.profiles[i].cfg \in Cfg /\ s.profiles[i].id \in IdsBelow(n)
    <3>1. s.profiles[i].cfg \in Cfg /\ s.profiles[i].id \in Nat
      BY StoreFacts DEF Sound
    <3>2. s.profiles[i].id < n
      BY DEF Sound
    <3> QED
      BY <3>1, <3>2 DEF IdsBelow
  <2> QED
    BY <2>1 DEF Range
<1>2. PICK ids : /\ ToStart(s, at_startup) = [id \in ids |-> CfgOf(s, id)]
                 /\ \A id \in ids : \E p \in Range(s.profiles) : p.id = id
  <2>1. PICK ids : ids = {p.id : p \in {q \in Range(s.profiles) :
                                         ShouldStart(q.mode, at_startup)}}
    OBVIOUS
  <2>2. ToStart(s, at_startup) = [id \in ids |-> CfgOf(s, id)]
    BY <2>1 DEF ToStart
  <2>3. \A id \in ids : \E p \in Range(s.profiles) : p.id = id
    BY <2>1
  <2> QED
    BY <2>2, <2>3
<1>3. \A id \in ids : CfgOf(s, id) \in Cfg /\ id \in IdsBelow(n)
  BY <1>1, <1>2 DEF CfgOf
<1> QED
  BY <1>2, <1>3

LEMMA LaunchKeeps == ASSUME IInv, Launch PROVE IInv'
<1>1. /\ ~up /\ up' = TRUE /\ page' = store' /\ dialogs = <<>>
      /\ UNCHANGED <<disk, backup, dialogs, adrift, revived>>
  BY DEF Launch, IInv, DisplaySound
<1>2. /\ Sound(store', next') /\ InRange(store') /\ next' \in 0..MaxIds + 1
      /\ DiskSound'
  <2>1. CASE disk = {} /\ store' = DefaultStore /\ next' = 1
    <3>1. DiskSound'
      BY <1>1, <2>1 DEF DiskSound
    <3> QED
      BY <2>1, <3>1, DefaultSound, ProfilesAssumption
  <2>2. ASSUME NEW s \in disk, store' = Load(s), next' = next
        PROVE  /\ Sound(store', next') /\ InRange(store')
               /\ next' \in 0..MaxIds + 1
               /\ DiskSound'
    <3>1. Sound(s, next)
      BY DEF IInv, DiskSound
    <3>2. Sound(store', next) /\ InRange(store')
      BY <2>2, <3>1, LoadSound
    <3>3. DiskSound'
      BY <1>1, <2>2 DEF IInv, DiskSound, Sound, Distinct
    <3> QED
      BY <2>2, <3>2, <3>3 DEF IInv, Bounds
  <2> QED
    BY <2>1, <2>2 DEF Launch
<1>3. next' \in Nat
  BY <1>2, ProfilesAssumption
<1>4. PICK at_startup : asked' = ToStart(store', at_startup)
  BY DEF Launch
<1>5. PICK s : s = store'
  OBVIOUS
<1>6. PICK n \in Nat : n = next'
  BY <1>3
<1>7. asked' \in [DOMAIN asked' -> Cfg] /\ DOMAIN asked' \subseteq IdsBelow(next')
  BY <1>2, <1>4, <1>5, <1>6, ToStartKnown
<1>8. AskedKnown'
  BY <1>7 DEF AskedKnown, IdsBelow
<1>9. DisplaySound'
  BY <1>1, <1>2 DEF DisplaySound, Sound, InRange, Distinct
<1>10. DialogsSound'
  BY <1>1 DEF DialogsSound
<1>11. Bounds'
  BY <1>1, <1>2 DEF IInv, Bounds, Flags, IdsBelow
<1> QED
  BY <1>2, <1>8, <1>9, <1>10, <1>11 DEF IInv

LEMMA StutterKeeps == ASSUME IInv, UNCHANGED vars PROVE IInv'
<1>1. DisplaySound' /\ DiskSound'
  BY DEF IInv, DisplaySound, DiskSound, Sound, InRange, Distinct, vars
<1>2. DialogsSound'
  BY DEF IInv, DialogsSound, Sound, Distinct, vars
<1>3. AskedKnown' /\ Bounds'
  BY DEF IInv, AskedKnown, Bounds, Flags, IdsBelow, vars
<1> QED
  BY <1>1, <1>2, <1>3 DEF IInv

LEMMA StepInvariant == IInv /\ [Next]_vars => IInv'
<1> SUFFICES ASSUME IInv, [Next]_vars PROVE IInv'
  OBVIOUS
<1>1. CASE Launch \/ Exit \/ Render
  BY <1>1, LaunchKeeps, ExitKeeps, RenderKeeps
<1>2. CASE Edit \/ SetMode \/ Select \/ SetPreference \/ Nudge \/ Delete
  BY <1>2, EditKeeps, SetModeKeeps, SelectKeeps, RewriteKeeps, DeleteKeeps
<1>3. CASE AddNetwork \/ Paste \/ Duplicate \/ Imported
  BY <1>3, AddNetworkKeeps, PasteKeeps, DuplicateKeeps, ImportedKeeps
<1>4. CASE Connect \/ Disconnect
  BY <1>4, ConnectKeeps, DisconnectKeeps
<1>5. CASE OpenDialog \/ Cancelled \/ BackedUp \/ RestoreDone
  BY <1>5, OpenDialogKeeps, CancelledKeeps, BackedUpKeeps, RestoreDoneKeeps
<1>6. CASE UNCHANGED vars
  BY <1>6, StutterKeeps
<1> QED
  BY <1>1, <1>2, <1>3, <1>4, <1>5, <1>6 DEF Next

LEMMA InvariantHolds == Spec => []IInv
  BY InitInvariant, StepInvariant, PTL DEF Spec

-----------------------------------------------------------------------------
(* The theorems.                                                           *)

LEMMA DefaultDistinct == DefaultStore \in Store /\ Distinct(DefaultStore)
  BY DefaultSound DEF Sound

LEMMA InvariantGives == IInv => TypeOK /\ IdsUnique /\ SelectionInRange
<1> SUFFICES ASSUME IInv PROVE TypeOK /\ IdsUnique /\ SelectionInRange
  OBVIOUS
<1>1. store \in Store /\ page \in Store /\ Distinct(store) /\ Distinct(page)
  BY DefaultDistinct DEF IInv, DisplaySound, Sound
<1>2. disk \subseteq Store /\ \A s \in disk : Distinct(s)
  BY DEF IInv, DiskSound, Sound
<1>3. /\ dialogs \in Seq(Dialog)
      /\ \A i \in DOMAIN dialogs : Distinct(dialogs[i].store)
  BY DEF IInv, DialogsSound, Sound
<1>4. TypeOK
  BY <1>1, <1>2, <1>3 DEF TypeOK, IInv, AskedKnown, Bounds, Flags, IdsBelow
<1>5. IdsUnique
  BY <1>1, <1>2, <1>3 DEF IdsUnique
<1>6. SelectionInRange
  BY DEF SelectionInRange, IInv, DisplaySound
<1> QED
  BY <1>4, <1>5, <1>6

\* Whatever is edited, imported, restored or lost in a save, the state, the
\* page and the file hold stores of the right shape, and only ids that were
\* handed out have been started.
THEOREM TypeCorrect == Spec => []TypeOK
  BY InvariantHolds, InvariantGives, PTL

\* Two networks of the state, of the page, of the file or of a waiting
\* dialog never share the id the engine keys them by, however stale the page
\* a handler worked on was.
THEOREM IdsAlwaysUnique == Spec => []IdsUnique
  BY InvariantHolds, InvariantGives, PTL

\* The selected index, used without a check, is that of a network whenever
\* there is one: after any deletion, load or restore, on any page.
THEOREM SelectionAlwaysInRange == Spec => []SelectionInRange
  BY InvariantHolds, InvariantGives, PTL

LEMMA RestoreStep ==
  ASSUME IInv, RestoreDone
  PROVE  IdsOf(store') \cap (DOMAIN asked \cup DOMAIN asked') = {}
<1>1. PICK s : /\ Sound(s, next') /\ InRange(s) /\ Commit(s)
               /\ Fresh(s) /\ next' \in 0..MaxIds + 1 /\ next <= next'
               /\ asked' = Stopped(IdsOf(Last(dialogs).store))
  BY RestoreFacts
<1>2. store' = s
  BY <1>1 DEF Commit, Show
<1>3. DOMAIN asked' \subseteq DOMAIN asked
  BY <1>1 DEF Stopped, Restrict
<1>4. \A id \in DOMAIN asked : id \in Nat /\ id < next
  BY NextNat DEF IInv, AskedKnown, IdsBelow
<1>5. \A id \in IdsOf(s) : id \notin DOMAIN asked
  BY <1>1, <1>4, NextNat DEF Fresh
<1> QED
  BY <1>2, <1>3, <1>5 DEF IdsOf

\* A restore puts every network back under an id never used, so that none of
\* them is taken for one that still runs.
THEOREM RestoredAlwaysDown == Spec => RestoredAreDown
<1>1. IInv /\ [Next]_vars =>
        [RestoreDone =>
           IdsOf(store') \cap (DOMAIN asked \cup DOMAIN asked') = {}]_vars
  BY RestoreStep
<1> QED
  BY <1>1, InvariantHolds, PTL DEF Spec, RestoredAreDown

=============================================================================
