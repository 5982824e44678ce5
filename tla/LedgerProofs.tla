---------------------------- MODULE LedgerProofs ----------------------------
(***************************************************************************)
(* What the next launch shows, and what the handlers make of the list of   *)
(* networks, in Profiles as it is: with pages that lag, dialogs that       *)
(* return late, saves that fail and backups of earlier versions.  While    *)
(* the last change is on disk, the file loads as the state, but for the    *)
(* legacy switch of a restored backup, which only a load ever clears.  And *)
(* a handler that works on the present store is a step of Ledger: what is  *)
(* on disk lists the same networks as the state, and what was asked to run *)
(* is listed.                                                              *)
(***************************************************************************)
EXTENDS ProfilesProofs

-----------------------------------------------------------------------------
(* The list of networks that a store stands for.                           *)

\* In a sound store every id has one network.
LEMMA CfgOfFacts ==
  ASSUME NEW n, NEW s, Sound(s, n), NEW i \in DOMAIN s.profiles
  PROVE  CfgOf(s, s.profiles[i].id) = s.profiles[i].cfg
<1>1. s.profiles[i] \in Range(s.profiles)
  BY DEF Range
<1>2. \A p \in Range(s.profiles) : p.id = s.profiles[i].id => p = s.profiles[i]
  BY DEF Sound, Distinct, Range
<1> QED
  BY <1>1, <1>2 DEF CfgOf

LEMMA ListFacts ==
  ASSUME NEW n, NEW s, Sound(s, n)
  PROVE  /\ ListOf(s) \in [IdsOf(s) -> Cfg]
         /\ \A i \in DOMAIN s.profiles :
              /\ s.profiles[i].id \in IdsOf(s)
              /\ ListOf(s)[s.profiles[i].id] = s.profiles[i].cfg
         /\ \A id \in IdsOf(s) : \E i \in DOMAIN s.profiles : id = s.profiles[i].id
<1>1. \A i \in DOMAIN s.profiles :
        /\ s.profiles[i].id \in IdsOf(s) /\ s.profiles[i].cfg \in Cfg
        /\ CfgOf(s, s.profiles[i].id) = s.profiles[i].cfg
  BY CfgOfFacts, StoreFacts DEF IdsOf, Sound
<1>2. \A id \in IdsOf(s) : \E i \in DOMAIN s.profiles : id = s.profiles[i].id
  BY DEF IdsOf
<1> QED
  BY <1>1, <1>2 DEF ListOf

\* How to tell that a function is the list of a store.
LEMMA ListIs ==
  ASSUME NEW n, NEW s, Sound(s, n), NEW f \in [IdsOf(s) -> Cfg],
         \A i \in DOMAIN s.profiles : f[s.profiles[i].id] = s.profiles[i].cfg
  PROVE  ListOf(s) = f
<1>1. \A id \in IdsOf(s) : ListOf(s)[id] = f[id]
  BY ListFacts
<1> QED
  BY <1>1, ListFacts

\* Only the networks count, not their startup modes.
LEMMA SameList ==
  ASSUME NEW n, NEW s, Sound(s, n), NEW t, Sound(t, n),
         DOMAIN t.profiles = DOMAIN s.profiles,
         \A j \in DOMAIN s.profiles :
           t.profiles[j].id = s.profiles[j].id /\ t.profiles[j].cfg = s.profiles[j].cfg
  PROVE  IdsOf(t) = IdsOf(s) /\ ListOf(t) = ListOf(s)
<1>1. IdsOf(t) = IdsOf(s)
  BY DEF IdsOf
<1> QED
  BY <1>1, ListFacts, ListIs

\* A network is changed under its id.
LEMMA EditedList ==
  ASSUME NEW n, NEW s, Sound(s, n), NEW i \in DOMAIN s.profiles,
         NEW p \in Profile, p.id = s.profiles[i].id,
         NEW t, t = [s EXCEPT !.profiles[i] = p], Sound(t, n)
  PROVE  /\ IdsOf(t) = IdsOf(s)
         /\ ListOf(t) = Book!With(ListOf(s), p.id, p.cfg)
<1>1. /\ DOMAIN t.profiles = DOMAIN s.profiles /\ t.profiles[i] = p
      /\ \A j \in DOMAIN s.profiles \ {i} : t.profiles[j] = s.profiles[j]
  BY StoreFacts DEF Sound, Store
<1>2. IdsOf(t) = IdsOf(s)
  BY <1>1 DEF IdsOf
<1>3. PICK f : f = Book!With(ListOf(s), p.id, p.cfg)
  OBVIOUS
<1>4. p.id \in IdsOf(s)
  BY ListFacts
<1>5. /\ f \in [IdsOf(t) -> Cfg]
      /\ \A id \in IdsOf(t) : f[id] = IF id = p.id THEN p.cfg ELSE ListOf(s)[id]
  <2>1. p.cfg \in Cfg
    BY DEF Profile
  <2> QED
    BY <2>1, <1>2, <1>3, <1>4, ListFacts, SMTT(30) DEF Book!With
<1>6. ASSUME NEW j \in DOMAIN t.profiles
      PROVE  f[t.profiles[j].id] = t.profiles[j].cfg
  <2>1. t.profiles[j].id \in IdsOf(t)
    BY <1>2, ListFacts
  <2>2. CASE j = i
    BY <2>1, <2>2, <1>1, <1>5
  <2>3. CASE j # i
    <3>1. t.profiles[j].id = s.profiles[j].id /\ s.profiles[j].id # s.profiles[i].id
      BY <2>3, <1>1 DEF Sound, Distinct
    <3> QED
      BY <2>1, <2>3, <3>1, <1>1, <1>5, ListFacts
  <2> QED
    BY <2>2, <2>3
<1>7. ListOf(t) = f
  BY ONLY Sound(t, n), <1>5, <1>6, ListIs
<1> QED
  BY <1>2, <1>3, <1>7

\* What a load makes of a store lists the same networks.
LEMMA LoadedList ==
  ASSUME NEW n, NEW s, Sound(s, n)
  PROVE  IdsOf(Load(s)) = IdsOf(s) /\ ListOf(Load(s)) = ListOf(s)
<1>1. PICK t : t = Load(s)
  OBVIOUS
<1>2. Sound(t, n)
  BY <1>1, LoadSound
<1>3. /\ DOMAIN t.profiles = DOMAIN s.profiles
      /\ \A j \in DOMAIN s.profiles :
           t.profiles[j].id = s.profiles[j].id /\ t.profiles[j].cfg = s.profiles[j].cfg
  <2>1. PICK k : k = Clamp(s.selected, Len(s.profiles))
    OBVIOUS
  <2>2. PICK u : u = [s EXCEPT !.selected = k] /\ u.profiles = s.profiles /\ u \in Store
    <3>1. s \in Store /\ k \in Nat
      BY <2>1, StoreFacts, ClampFacts DEF Sound
    <3>2. /\ [s EXCEPT !.selected = k].profiles = s.profiles
          /\ [s EXCEPT !.selected = k] \in Store
      BY <3>1 DEF Store
    <3> QED
      BY <3>2
  <2>3. t = Migrate(u)
    BY <1>1, <2>1, <2>2 DEF Load
  <2>4. PICK i : i = Current(u)
    OBVIOUS
  <2>5. t.profiles = s.profiles \/
        /\ i \in DOMAIN s.profiles
        /\ t.profiles = [s.profiles EXCEPT ![i].mode = "All"]
    <3>1. CASE ~u.auto
      BY <2>2, <2>3, <3>1 DEF Migrate
    <3>2. CASE u.auto
      BY <2>2, <2>3, <2>4, <3>2 DEF Migrate, Store
    <3> QED
      BY <3>1, <3>2
  <2>6. \A j \in DOMAIN s.profiles : s.profiles[j] \in Profile
    BY StoreFacts DEF Sound
  <2> QED
    BY <2>5, <2>6 DEF Profile
<1> QED
  BY <1>1, <1>2, <1>3, SameList

\* Ids from a up to b.
IdsFrom(a, b) == a..b - 1

\* Networks are added after the others.
LEMMA ExtendedList ==
  ASSUME NEW n \in Nat, NEW s, Sound(s, n), NEW new, Numbered(new, n), new # <<>>,
         NEW t, t = Extended(s, new), Sound(t, n + Len(new))
  PROVE  /\ IdsOf(t) = IdsOf(s) \cup IdsFrom(n, n + Len(new))
         /\ IdsOf(s) \cap IdsFrom(n, n + Len(new)) = {}
         /\ \A id \in IdsOf(s) : ListOf(t)[id] = ListOf(s)[id]
<1>1. s \in Store /\ new \in Seq(Profile) /\ Len(new) \in Nat \ {0}
      /\ DOMAIN new = 1..Len(new)
  BY EmptySeq, LenProperties DEF Sound, Numbered
<1>2. PICK m \in Nat : m = Len(s.profiles) /\ DOMAIN s.profiles = 1..m
  BY <1>1, StoreFacts
<1>3. PICK k \in Nat : k = Len(new) /\ DOMAIN new = 1..k
  BY <1>1
<1>4. t.profiles = s.profiles \o new
  BY <1>1 DEF Extended, Store
<1>5. /\ DOMAIN t.profiles = 1..m + k
      /\ \A i \in 1..m + k :
           t.profiles[i] = IF i <= m THEN s.profiles[i] ELSE new[i - m]
  <2>1. s.profiles \in Seq(Profile)
    BY <1>1, StoreFacts
  <2>2. /\ Len(s.profiles \o new) = m + k /\ s.profiles \o new \in Seq(Profile)
        /\ \A i \in 1..m + k :
           (s.profiles \o new)[i] = IF i <= m THEN s.profiles[i] ELSE new[i - m]
    BY <1>1, <1>2, <1>3, <2>1, ConcatProperties
  <2> QED
    BY <1>4, <2>2, LenProperties
<1>6. \A i \in 1..m : t.profiles[i] = s.profiles[i]
  BY <1>5
<1>7. \A i \in 1..k : t.profiles[m + i].id = n + i - 1
  <2> TAKE i \in 1..k
  <2>1. m + i \in 1..m + k /\ ~(m + i <= m) /\ (m + i) - m = i
    OBVIOUS
  <2> QED
    BY <2>1, <1>3, <1>5 DEF Numbered
<1>8. IdsOf(t) = IdsOf(s) \cup IdsFrom(n, n + k)
  <2>1. ASSUME NEW id \in IdsOf(t) PROVE id \in IdsOf(s) \cup IdsFrom(n, n + k)
    <3>1. PICK i \in 1..m + k : id = t.profiles[i].id
      BY <1>5 DEF IdsOf
    <3>2. CASE i <= m
      BY <3>1, <3>2, <1>2, <1>6 DEF IdsOf
    <3>3. CASE ~(i <= m)
      <4>1. i - m \in 1..k /\ m + (i - m) = i
        BY <3>3
      <4>2. id = n + (i - m) - 1
        BY <3>1, <4>1, <1>7
      <4> QED
        BY <4>1, <4>2 DEF IdsFrom
    <3> QED
      BY <3>2, <3>3
  <2>2. ASSUME NEW id \in IdsOf(s) PROVE id \in IdsOf(t)
    <3>1. PICK i \in 1..m : id = s.profiles[i].id
      BY <1>2 DEF IdsOf
    <3>2. i \in 1..m + k
      OBVIOUS
    <3> QED
      BY <3>1, <3>2, <1>5, <1>6 DEF IdsOf
  <2>3. ASSUME NEW id \in IdsFrom(n, n + k) PROVE id \in IdsOf(t)
    <3>1. id - n + 1 \in 1..k /\ n + (id - n + 1) - 1 = id /\ id \in Int
      BY DEF IdsFrom
    <3>2. t.profiles[m + (id - n + 1)].id = id
      BY <3>1, <1>7
    <3>3. m + (id - n + 1) \in 1..m + k
      BY <3>1
    <3> QED
      BY <3>2, <3>3, <1>5 DEF IdsOf
  <2> QED
    BY <2>1, <2>2, <2>3
<1>9. \A id \in IdsOf(s) : id \in Nat /\ id < n
  BY <1>1, StoreFacts DEF IdsOf, Sound
<1>10. ASSUME NEW id \in IdsOf(s) PROVE ListOf(t)[id] = ListOf(s)[id]
  <2>1. PICK i \in 1..m : id = s.profiles[i].id
    BY <1>2 DEF IdsOf
  <2>2. i \in DOMAIN t.profiles /\ i \in DOMAIN s.profiles /\ t.profiles[i] = s.profiles[i]
    BY <1>2, <1>5, <1>6
  <2>3. ListOf(t)[id] = t.profiles[i].cfg
    BY <2>1, <2>2, ListFacts
  <2> QED
    BY <2>1, <2>2, <2>3, ListFacts
<1> QED
  BY <1>3, <1>8, <1>9, <1>10 DEF IdsFrom

\* One network goes, the others stay.
LEMMA DeletedList ==
  ASSUME NEW n, NEW s, Sound(s, n), NEW i \in DOMAIN s.profiles,
         NEW t, Sound(t, n), t.profiles = RemoveAt(s.profiles, i)
  PROVE  /\ IdsOf(t) = IdsOf(s) \ {s.profiles[i].id}
         /\ ListOf(t) = Book!Without(ListOf(s), s.profiles[i].id)
<1>1. s.profiles \in Seq(Profile) /\ t.profiles \in Seq(Profile)
  BY StoreFacts DEF Sound
<1>2. PICK m \in Nat : m = Len(s.profiles) /\ DOMAIN s.profiles = 1..m /\ i \in 1..m
  BY <1>1, LenProperties
<1>3. /\ DOMAIN t.profiles = 1..m - 1
      /\ \A j \in 1..m - 1 :
           t.profiles[j] = IF j < i THEN s.profiles[j] ELSE s.profiles[j + 1]
  BY <1>1, <1>2, RemoveFacts, LenProperties
<1>4. ASSUME NEW j \in DOMAIN t.profiles
      PROVE  \E k \in DOMAIN s.profiles : k # i /\ t.profiles[j] = s.profiles[k]
  <2>1. CASE j < i
    BY <2>1, <1>2, <1>3
  <2>2. CASE ~(j < i)
    <3>1. j + 1 \in 1..m /\ j + 1 # i
      BY <2>2, <1>2, <1>3
    <3> QED
      BY <2>2, <3>1, <1>2, <1>3
  <2> QED
    BY <2>1, <2>2
<1>5. ASSUME NEW k \in DOMAIN s.profiles, k # i
      PROVE  \E j \in DOMAIN t.profiles : t.profiles[j] = s.profiles[k]
  <2>1. CASE k < i
    <3>1. k \in 1..m - 1
      BY <2>1, <1>2
    <3> QED
      BY <2>1, <3>1, <1>3
  <2>2. CASE ~(k < i)
    <3>1. k - 1 \in 1..m - 1 /\ ~(k - 1 < i) /\ (k - 1) + 1 = k
      BY <2>2, <1>2, <1>5
    <3> QED
      BY <3>1, <1>3
  <2> QED
    BY <2>1, <2>2
<1>6. \A k \in DOMAIN s.profiles : k # i => s.profiles[k].id # s.profiles[i].id
  BY DEF Sound, Distinct
<1>7. IdsOf(t) = IdsOf(s) \ {s.profiles[i].id}
  BY <1>4, <1>5, <1>6 DEF IdsOf
<1>8. PICK f : f = Book!Without(ListOf(s), s.profiles[i].id)
  OBVIOUS
<1>9. f \in [IdsOf(t) -> Cfg] /\ \A id \in IdsOf(t) : f[id] = ListOf(s)[id]
  BY <1>7, <1>8, ListFacts DEF Book!Without, Book!Restrict
<1>10. \A j \in DOMAIN t.profiles : f[t.profiles[j].id] = t.profiles[j].cfg
  <2> TAKE j \in DOMAIN t.profiles
  <2>1. t.profiles[j].id \in IdsOf(t)
    BY DEF IdsOf
  <2> QED
    BY <2>1, <1>4, <1>9, ListFacts
<1> QED
  BY <1>7, <1>8, <1>9, <1>10, ListIs

-----------------------------------------------------------------------------
(* What the next launch shows.                                             *)

\* The legacy switch is off in every copy of the store that a handler may
\* still work on.
SwitchOff ==
  /\ ~store.auto /\ ~page.auto
  /\ \A i \in DOMAIN dialogs : ~dialogs[i].store.auto

FileInv ==
  /\ \A s, t \in disk : s = t
  /\ ~up => ~adrift /\ ~revived
  /\ up /\ ~revived => SwitchOff
  /\ RelaunchShowsSame

KInv == IInv /\ FileInv

\* Only the switch is left to act on in a store whose selection is in range.
LEMMA LoadIs ==
  ASSUME NEW s \in Store, InRange(s)
  PROVE  Load(s) = Migrate(s) /\ (~s.auto => Migrate(s) = s)
<1>1. [s EXCEPT !.selected = s.selected] = s
  BY DEF Store
<1> QED
  BY <1>1 DEF Load, Migrate, InRange

LEMMA LoadedOff == ASSUME NEW s \in Store PROVE ~Load(s).auto
<1>1. PICK k \in Nat : k = Clamp(s.selected, Len(s.profiles))
  BY StoreFacts, ClampFacts
<1>2. PICK t \in Store : t = [s EXCEPT !.selected = k]
  <2>1. [s EXCEPT !.selected = k] \in Store
    BY DEF Store
  <2> QED
    BY <2>1
<1>3. Load(s) = Migrate(t)
  BY <1>1, <1>2 DEF Load
<1> QED
  BY <1>3 DEF Migrate, Store

\* A save that succeeds leaves one store, the new state; and what has not
\* gone adrift was saved.
LEMMA Committed ==
  ASSUME NEW s, Commit(s)
  PROVE  /\ store' = s /\ page' \in {s, page}
         /\ disk' = {s} \/ disk' = disk \/ disk' = {}
         /\ ~adrift' => disk' = {s}
  BY DEF Commit, Save, Show

\* A handler that saves a store with the switch on only if the switch is
\* back already.
LEMMA CommitKept ==
  ASSUME KInv, IInv', up, up', NEW s, Commit(s), revived => revived',
         ~revived' => ~s.auto,
         \A i \in DOMAIN dialogs' : i \in DOMAIN dialogs /\ dialogs'[i] = dialogs[i]
  PROVE  FileInv'
<1>1. /\ store' = s /\ page' \in {s, page}
      /\ disk' = {s} \/ disk' = disk \/ disk' = {}
      /\ ~adrift' => disk' = {s}
  BY Committed
<1>2. s \in Store /\ InRange(s)
  BY <1>1 DEF IInv, DisplaySound, Sound, InRange
<1>3. \A t, u \in disk' : t = u
  BY <1>1 DEF KInv, FileInv
<1>4. ASSUME ~revived' PROVE SwitchOff'
  <2>1. SwitchOff
    BY <1>4 DEF KInv, FileInv
  <2> QED
    BY <2>1, <1>1, <1>4 DEF SwitchOff
<1>5. ASSUME ~adrift'
      PROVE  /\ \A t \in disk' : Load(t) = IF revived' THEN Migrate(store') ELSE store'
             /\ disk' # {}
  <2>1. disk' = {s} /\ store' = s /\ Load(s) = Migrate(s)
    BY <1>1, <1>2, <1>5, LoadIs
  <2>2. ~revived' => Migrate(s) = s
    BY <1>2, LoadIs
  <2> QED
    BY <2>1, <2>2
<1>6. RelaunchShowsSame'
  BY <1>5 DEF RelaunchShowsSame
<1> QED
  BY <1>3, <1>4, <1>6 DEF FileInv

\* A handler of the page.
LEMMA QuickKept ==
  ASSUME KInv, IInv', Input, NEW s, Commit(s), s.auto = page.auto,
         UNCHANGED <<up, dialogs, revived>>
  PROVE  FileInv'
<1>1. up /\ up' /\ (~revived' => ~s.auto)
  BY DEF Input, KInv, FileInv, SwitchOff
<1> QED
  BY <1>1, CommitKept

\* Such as one that changes a network, selects one, or removes one.
LEMMA EditKept ==
  ASSUME KInv, IInv', Edit \/ SetMode \/ Select \/ SetPreference \/ Delete
  PROVE  FileInv'
<1>1. Input /\ UNCHANGED <<up, dialogs, revived>>
  BY DEF Edit, SetMode, Select, SetPreference, Delete
<1>2. page \in Store
  BY <1>1, PageFacts DEF KInv
<1>3. \E s : Commit(s) /\ s.auto = page.auto
  <2>1. CASE Edit \/ SetMode
    <3>1. PICK i, p, s : s = [page EXCEPT !.profiles[i] = p] /\ Commit(s)
      <4>1. CASE Edit
        <5>1. PICK i, c : Commit([page EXCEPT !.profiles[i].cfg = c])
          BY <4>1 DEF Edit
        <5>2. PICK p : p = [page.profiles[i] EXCEPT !.cfg = c]
          OBVIOUS
        <5> QED
          BY <5>1, <5>2
      <4>2. CASE SetMode
        <5>1. PICK i, m : Commit([page EXCEPT !.profiles[i].mode = m])
          BY <4>2 DEF SetMode
        <5>2. PICK p : p = [page.profiles[i] EXCEPT !.mode = m]
          OBVIOUS
        <5> QED
          BY <5>1, <5>2
      <4> QED
        BY <2>1, <4>1, <4>2
    <3> QED
      BY <1>2, <3>1 DEF Store
  <2>2. CASE Select
    <3>1. PICK i, s : s = [page EXCEPT !.selected = i - 1] /\ Commit(s)
      BY <2>2 DEF Select
    <3> QED
      BY <1>2, <3>1 DEF Store
  <2>3. CASE SetPreference
    BY <2>3 DEF SetPreference
  <2>4. CASE Delete
    <3>1. PICK c, k, s : s = [page EXCEPT !.profiles = c, !.selected = k] /\ Commit(s)
      BY <2>4 DEF Delete
    <3>2. s.auto = page.auto
      BY ONLY <1>2, <3>1 DEF Store
    <3> QED
      BY <3>1, <3>2
  <2> QED
    BY <2>1, <2>2, <2>3, <2>4
<1>4. PICK s : Commit(s) /\ s.auto = page.auto
  BY <1>3
<1> QED
  BY <1>1, <1>4, QuickKept

LEMMA ExtendedSwitch ==
  ASSUME NEW s \in Store, NEW new PROVE Extended(s, new).auto = s.auto
  BY DEF Extended, Store

LEMMA AddKept ==
  ASSUME KInv, IInv', AddNetwork \/ Paste \/ Duplicate PROVE FileInv'
<1>1. Input /\ UNCHANGED <<up, dialogs, revived>>
  BY DEF AddNetwork, Paste, Duplicate
<1>2. PICK new : Commit(Extended(page, new))
  BY DEF AddNetwork, Paste, Duplicate
<1>3. Extended(page, new).auto = page.auto
  BY <1>1, PageFacts, ExtendedSwitch DEF KInv
<1> QED
  BY <1>1, <1>2, <1>3, QuickKept

LEMMA ImportedKept == ASSUME KInv, IInv', Imported PROVE FileInv'
<1>1. Return("import") /\ UNCHANGED <<up, revived>>
  BY DEF Imported
<1>2. PICK new : Commit(Extended(Last(dialogs).store, new))
  BY DEF Imported
<1>3. next' \in Nat /\ next <= next'
  BY FileFacts, NextNat DEF Imported, NewIds, KInv
<1>4. /\ up /\ Last(dialogs).store \in Store
      /\ \E i \in DOMAIN dialogs : Last(dialogs) = dialogs[i]
      /\ \A i \in DOMAIN dialogs' : i \in DOMAIN dialogs /\ dialogs'[i] = dialogs[i]
  BY <1>1, <1>3, ReturnFacts DEF KInv
<1>5. ~revived' => ~Last(dialogs).store.auto
  BY <1>1, <1>4 DEF KInv, FileInv, SwitchOff
<1>6. PICK s : s = Extended(Last(dialogs).store, new)
  OBVIOUS
<1>7. Commit(s) /\ (~revived' => ~s.auto)
  BY <1>2, <1>4, <1>5, <1>6, ExtendedSwitch
<1> QED
  BY <1>1, <1>4, <1>7, CommitKept

\* A restored switch is remembered.
LEMMA RestoreDoneKept == ASSUME KInv, IInv', RestoreDone PROVE FileInv'
<1>1. PICK t \in backup \cup OldBackups :
        /\ NewIds(Len(t.profiles)) /\ Commit(Restored(t))
        /\ revived' = (revived \/ t.auto)
  BY DEF RestoreDone
<1>2. Return("restore") /\ up' = up
  BY DEF RestoreDone
<1>3. t \in Store
  BY ProfilesAssumption DEF KInv, IInv, Bounds
<1>4. next' \in Nat /\ next <= next'
  BY <1>1, <1>3, StoreFacts, NextNat DEF NewIds, KInv
<1>5. /\ up
      /\ \A i \in DOMAIN dialogs' : i \in DOMAIN dialogs /\ dialogs'[i] = dialogs[i]
  BY <1>2, <1>4, ReturnFacts DEF KInv
<1>6. PICK s : s = Restored(t)
  OBVIOUS
<1>7. s.auto = t.auto
  BY <1>3, <1>6 DEF Restored, Store
<1> QED
  BY <1>1, <1>2, <1>5, <1>6, <1>7, CommitKept

\* A launch loads the one store on disk, and clears the switch.
LEMMA LaunchKept == ASSUME KInv, Launch PROVE FileInv'
<1>1. /\ up' /\ page' = store' /\ dialogs = <<>> /\ ~revived
      /\ UNCHANGED <<disk, dialogs, adrift, revived>>
  BY DEF Launch, KInv, IInv, DisplaySound, FileInv
<1>2. \A s, t \in disk' : s = t
  BY <1>1 DEF KInv, FileInv
<1>3. /\ ~store'.auto
      /\ \A s \in disk : Load(s) = store'
      /\ disk = {} => store' = DefaultStore
  <2>1. CASE disk = {} /\ store' = DefaultStore
    <3>1. ~DefaultStore.auto
      BY DEF DefaultStore
    <3> QED
      BY <2>1, <3>1
  <2>2. ASSUME NEW s \in disk, store' = Load(s)
        PROVE  ~store'.auto /\ \A t \in disk : Load(t) = store'
    <3>1. s \in Store
      BY DEF KInv, IInv, DiskSound, Sound
    <3>2. \A t \in disk : t = s
      BY DEF KInv, FileInv
    <3>3. PICK t : t = Load(s)
      OBVIOUS
    <3>4. ~t.auto
      BY <3>1, <3>3, LoadedOff
    <3> QED
      BY <2>2, <3>2, <3>3, <3>4
  <2> QED
    BY <2>1, <2>2 DEF Launch
<1>4. SwitchOff'
  <2>1. DOMAIN dialogs' = {}
    BY <1>1
  <2> QED
    BY <1>1, <1>3, <2>1 DEF SwitchOff
<1>5. RelaunchShowsSame'
  <2>1. /\ \A s \in disk' : Load(s) = IF revived' THEN Migrate(store') ELSE store'
        /\ disk' = {} => store' = DefaultStore
    BY <1>1, <1>3
  <2> QED
    BY <2>1 DEF RelaunchShowsSame
<1> QED
  BY <1>1, <1>2, <1>4, <1>5 DEF FileInv

LEMMA ExitKept == ASSUME KInv, Exit PROVE FileInv'
<1>1. up' = FALSE /\ adrift' = FALSE /\ revived' = FALSE /\ disk' = disk
  BY DEF Exit
<1> QED
  BY <1>1 DEF KInv, FileInv, RelaunchShowsSame

\* The switch of the sign-in setting shows the page's store and saves nothing.
LEMMA NudgeKept == ASSUME KInv, Nudge PROVE FileInv'
<1>1. /\ up /\ up' = up /\ store' = page /\ page' \in {page}
      /\ adrift' = (adrift \/ page # store)
      /\ UNCHANGED <<disk, dialogs, revived>>
  BY DEF Nudge, Input, Show
<1>2. SwitchOff => SwitchOff'
  BY <1>1 DEF SwitchOff
<1>3. RelaunchShowsSame'
  <2>1. ~adrift' => store' = store /\ ~adrift
    BY <1>1
  <2> QED
    BY <1>1, <2>1 DEF KInv, FileInv, RelaunchShowsSame
<1> QED
  BY <1>1, <1>2, <1>3 DEF KInv, FileInv

\* Nothing changes on disk or in the state, and the page and the dialogs take
\* no store that was not there before.
LEMMA IdleKept ==
  ASSUME KInv, UNCHANGED <<up, disk, store, adrift, revived>>, page' \in {page, store},
         up => \A i \in DOMAIN dialogs' :
                 \/ dialogs'[i].store = page
                 \/ \E j \in DOMAIN dialogs : dialogs'[i] = dialogs[j]
  PROVE  FileInv'
<1>1. up /\ SwitchOff => SwitchOff'
  BY DEF SwitchOff
<1>2. RelaunchShowsSame'
  BY DEF KInv, FileInv, RelaunchShowsSame
<1> QED
  BY <1>1, <1>2 DEF KInv, FileInv

LEMMA OpenDialogKept == ASSUME KInv, OpenDialog PROVE FileInv'
<1>1. PICK e : dialogs' = Append(dialogs, e) /\ e.store = page
  BY DEF OpenDialog
<1>2. UNCHANGED <<up, disk, store, page, adrift, revived>>
  BY DEF OpenDialog
<1>3. dialogs \in Seq(Dialog)
  BY DEF KInv, IInv, DialogsSound
<1>4. \A i \in DOMAIN dialogs' :
        \/ dialogs'[i].store = page
        \/ \E j \in DOMAIN dialogs : dialogs'[i] = dialogs[j]
  BY <1>1, <1>3
<1> QED
  BY <1>2, <1>4, IdleKept

LEMMA UnsavedKept ==
  ASSUME KInv,
         \/ Connect \/ Disconnect \/ Cancelled \/ BackedUp \/ Render
         \/ UNCHANGED vars
  PROVE  FileInv'
<1>1. UNCHANGED <<up, disk, store, adrift, revived, next>> /\ page' \in {page, store}
  BY DEF Connect, Disconnect, Cancelled, BackedUp, Render, vars
<1>2. \A i \in DOMAIN dialogs' :
        \E j \in DOMAIN dialogs : dialogs'[i] = dialogs[j]
  <2>1. CASE dialogs' = dialogs
    BY <2>1
  <2>2. CASE \E d : Return(d)
    BY <1>1, <2>2, NextNat, ReturnFacts DEF KInv
  <2> QED
    BY <2>1, <2>2 DEF Connect, Disconnect, Cancelled, BackedUp, Render, vars
<1> QED
  BY <1>1, <1>2, IdleKept

LEMMA StepKept == KInv /\ [Next]_vars => KInv'
<1> SUFFICES ASSUME KInv, [Next]_vars PROVE FileInv'
  BY StepInvariant DEF KInv
<1>1. IInv'
  BY StepInvariant DEF KInv
<1>2. CASE Edit \/ SetMode \/ Select \/ SetPreference \/ Delete
  BY <1>1, <1>2, EditKept
<1>3. CASE AddNetwork \/ Paste \/ Duplicate \/ Imported
  BY <1>1, <1>3, AddKept, ImportedKept
<1>4. CASE Nudge \/ RestoreDone \/ OpenDialog
  BY <1>1, <1>4, NudgeKept, RestoreDoneKept, OpenDialogKept
<1>5. CASE Launch \/ Exit
  BY <1>5, LaunchKept, ExitKept
<1>6. CASE Connect \/ Disconnect \/ Cancelled \/ BackedUp \/ Render \/ UNCHANGED vars
  BY <1>6, UnsavedKept
<1> QED
  BY <1>2, <1>3, <1>4, <1>5, <1>6 DEF Next

LEMMA InitKept == Init => KInv
<1> SUFFICES ASSUME Init PROVE KInv
  OBVIOUS
<1>1. up = FALSE /\ adrift = FALSE /\ revived = FALSE /\ \A s, t \in disk : s = t
  BY DEF Init
<1> QED
  BY <1>1, InitInvariant DEF KInv, FileInv, RelaunchShowsSame

LEMMA KeptHolds == Spec => []KInv
  BY InitKept, StepKept, PTL DEF Spec

\* Saving after each change is enough: whatever handlers run on whatever
\* copies of the store, and whichever saves fail, once a save has succeeded
\* the next launch shows what is on display, and Off stays Off.  A restored
\* backup of a version with the legacy switch is the one exception, and all it
\* does is to turn the selected network from Off to All.
THEOREM RelaunchAlwaysShowsSame == Spec => []RelaunchShowsSame
<1>1. KInv => RelaunchShowsSame
  BY DEF KInv, FileInv
<1> QED
  BY <1>1, KeptHolds, PTL

-----------------------------------------------------------------------------
(* A handler that works on the present store.                              *)

Ready == KInv /\ UpToDate /\ Listed

\* A handler of the page finds the store of the root component on it.
LEMMA InputFacts ==
  ASSUME Ready, Input
  PROVE  /\ up /\ page = store /\ store \in Store
         /\ Sound(store, next) /\ InRange(store) /\ DOMAIN asked \subseteq IdsOf(store)
         /\ next \in Nat
  BY PageFacts DEF Ready, KInv, UpToDate, Listed

\* So does a handler whose dialog returns.
LEMMA ReturnedFacts ==
  ASSUME Ready, NEW d, Return(d)
  PROVE  /\ up /\ Last(dialogs).store = store /\ Sound(store, next)
         /\ DOMAIN asked \subseteq IdsOf(store) /\ next \in Nat
<1>1. /\ dialogs \in Seq(Dialog) /\ dialogs # <<>> /\ up
      /\ Sound(store, next) /\ next \in Nat
  BY NextNat DEF Ready, KInv, IInv, DialogsSound, DisplaySound, Return
<1>2. PICK n \in Nat \ {0} : n = Len(dialogs) /\ DOMAIN dialogs = 1..n
  BY <1>1, EmptySeq, LenProperties
<1>3. Last(dialogs).store = store
  BY <1>2 DEF Last, Ready, UpToDate
<1> QED
  BY <1>1, <1>3 DEF Ready, Listed

\* A handler whose save succeeds.
LEMMA Saved ==
  ASSUME NEW s, Commit(s), ~adrift', DOMAIN asked' \subseteq IdsOf(s)
  PROVE  /\ disk' = {s} /\ store' = s /\ ListOf(store)' = ListOf(s)
         /\ Listed'
<1>1. disk' = {s} /\ store' = s
  BY Committed
<1>2. ListOf(store)' = ListOf(s) /\ IdsOf(store)' = IdsOf(s)
  BY <1>1
<1> QED
  BY <1>1, <1>2 DEF Listed

-----------------------------------------------------------------------------
(* Every step is one of the list's, or none.                               *)

BookStep == [Book!Next]_(Book!vars)

LEMMA EditBook == ASSUME Ready, ~adrift', Edit PROVE Listed' /\ Book!Edit
<1>1. PICK i, c, s :
        /\ i \in DOMAIN page.profiles /\ c \in Cfg
        /\ s = [page EXCEPT !.profiles[i].cfg = c] /\ Commit(s)
  BY DEF Edit
<1>2. /\ up /\ page = store /\ Sound(store, next) /\ InRange(store)
      /\ DOMAIN asked \subseteq IdsOf(store)
  BY InputFacts DEF Edit
<1>3. up' = up /\ asked' = asked /\ next' = next
  BY DEF Edit
<1>4. store.profiles[i] \in Profile
  BY <1>1, <1>2, StoreFacts DEF Sound
<1>5. PICK p \in Profile : /\ p = [store.profiles[i] EXCEPT !.cfg = c]
                           /\ p.id = store.profiles[i].id
  <2>1. /\ [store.profiles[i] EXCEPT !.cfg = c] \in Profile
        /\ [store.profiles[i] EXCEPT !.cfg = c].id = store.profiles[i].id
    BY <1>1, <1>4 DEF Profile
  <2> QED
    BY <2>1
<1>6. s = [store EXCEPT !.profiles[i] = p]
  BY <1>1, <1>2, <1>5
<1>7. i \in DOMAIN store.profiles
  BY <1>1, <1>2
<1>8. Sound(s, next)
  BY ONLY <1>2, <1>5, <1>6, <1>7, OneEdited
<1>9. /\ IdsOf(s) = IdsOf(store)
      /\ ListOf(s) = Book!With(ListOf(store), p.id, p.cfg)
  <2>1. Sound(store, next) /\ p.id = store.profiles[i].id
    BY <1>2, <1>5
  <2> QED
    BY ONLY <2>1, p \in Profile, <1>6, <1>7, <1>8, EditedList
<1>10. p.id \in IdsOf(store) /\ DOMAIN ListOf(store) = IdsOf(store)
       /\ DOMAIN ListOf(s) = IdsOf(s)
  BY <1>2, <1>5, <1>7, <1>8, ListFacts
<1>11. ListOf(s)[p.id] = p.cfg
  BY <1>9, <1>10 DEF Book!With
<1>12. disk' = {s} /\ ListOf(store)' = ListOf(s) /\ Listed'
  BY <1>1, <1>2, <1>3, <1>9, Saved
<1> QED
  BY <1>2, <1>3, <1>9, <1>10, <1>11, <1>12 DEF Book!Edit

\* What is saved lists the same networks.
LEMMA SaveBook ==
  ASSUME Ready, ~adrift', Input, NEW s, Commit(s), ListOf(s) = ListOf(store),
         IdsOf(s) = IdsOf(store), UNCHANGED <<up, asked, next>>
  PROVE  Listed' /\ Book!Save
<1>1. up /\ DOMAIN asked \subseteq IdsOf(store)
  BY InputFacts
<1>2. disk' = {s} /\ ListOf(store)' = ListOf(s) /\ Listed'
  BY <1>1, Saved
<1> QED
  BY <1>1, <1>2 DEF Book!Save

LEMMA SetModeBook == ASSUME Ready, ~adrift', SetMode PROVE Listed' /\ Book!Save
<1>1. PICK i, mode, s :
        /\ i \in DOMAIN page.profiles /\ mode \in Modes
        /\ s = [page EXCEPT !.profiles[i].mode = mode] /\ Commit(s)
  BY DEF SetMode
<1>2. Input /\ page = store /\ Sound(store, next) /\ InRange(store) /\ store \in Store
  BY InputFacts DEF SetMode
<1>3. store.profiles[i] \in Profile /\ mode \in StartupMode
  BY <1>1, <1>2, StoreFacts, ProfilesAssumption
<1>4. PICK p \in Profile : /\ p = [store.profiles[i] EXCEPT !.mode = mode]
                           /\ p.id = store.profiles[i].id
                           /\ p.cfg = store.profiles[i].cfg
  <2>1. /\ [store.profiles[i] EXCEPT !.mode = mode] \in Profile
        /\ [store.profiles[i] EXCEPT !.mode = mode].id = store.profiles[i].id
        /\ [store.profiles[i] EXCEPT !.mode = mode].cfg = store.profiles[i].cfg
    BY <1>1, <1>3 DEF Profile
  <2> QED
    BY <2>1
<1>5. s = [store EXCEPT !.profiles[i] = p]
  BY <1>1, <1>2, <1>4
<1>6. i \in DOMAIN store.profiles
  BY <1>1, <1>2
<1>7. Sound(s, next)
  BY ONLY <1>2, <1>4, <1>5, <1>6, OneEdited
<1>8. /\ DOMAIN s.profiles = DOMAIN store.profiles
      /\ s.profiles = [store.profiles EXCEPT ![i] = p]
  <2>1. store.profiles \in Seq(Profile)
    BY <1>2, StoreFacts
  <2>2. s.profiles = [store.profiles EXCEPT ![i] = p]
    BY ONLY <1>2, <1>5 DEF Store
  <2> QED
    BY <2>1, <2>2
<1>9. \A j \in DOMAIN store.profiles :
        s.profiles[j].id = store.profiles[j].id /\ s.profiles[j].cfg = store.profiles[j].cfg
  BY ONLY <1>4, <1>6, <1>8
<1>10. IdsOf(s) = IdsOf(store) /\ ListOf(s) = ListOf(store)
  BY ONLY <1>2, <1>7, <1>8, <1>9, SameList
<1> QED
  BY <1>1, <1>2, <1>10, SaveBook DEF SetMode

LEMMA SelectBook == ASSUME Ready, ~adrift', Select PROVE Listed' /\ Book!Save
<1>1. PICK i, s :
        /\ i \in DOMAIN page.profiles
        /\ s = [page EXCEPT !.selected = i - 1] /\ Commit(s)
  BY DEF Select
<1>2. Input /\ page = store /\ Sound(store, next) /\ store \in Store
  BY InputFacts DEF Select
<1>3. PICK k \in Nat : k = i - 1
  BY <1>1, <1>2, StoreFacts
<1>4. Sound(s, next) /\ s.profiles = store.profiles
  BY <1>1, <1>2, <1>3, SelectSound
<1>5. IdsOf(s) = IdsOf(store) /\ ListOf(s) = ListOf(store)
  BY ONLY <1>2, <1>4, SameList
<1> QED
  BY <1>1, <1>2, <1>5, SaveBook DEF Select

LEMMA SetPreferenceBook ==
  ASSUME Ready, ~adrift', SetPreference PROVE Listed' /\ Book!Save
<1>1. Input /\ page = store /\ Commit(store)
  BY InputFacts DEF SetPreference
<1> QED
  BY <1>1, SaveBook DEF SetPreference

\* Networks are added after the others.
LEMMA AddBook ==
  ASSUME Ready, ~adrift', up, Sound(store, next), DOMAIN asked \subseteq IdsOf(store),
         NEW batch, NEW k \in Nat \ {0}, DOMAIN batch = 1..k,
         \A i \in 1..k : batch[i].cfg \in Cfg /\ batch[i].mode \in StartupMode,
         NewIds(k), Commit(Extended(store, Keyed(batch))),
         UNCHANGED <<up, asked>>
  PROVE  Listed' /\ Book!Add
<1>1. next \in Nat /\ next' = next + k
  BY NextNat DEF NewIds, Ready, KInv
<1>2. PICK new : new = Keyed(batch)
  OBVIOUS
<1>3. Numbered(new, next) /\ Len(new) = k /\ new # <<>>
  BY <1>1, <1>2, KeyedNumbered
<1>4. PICK s : s = Extended(store, new)
  OBVIOUS
<1>5. Sound(s, next + Len(new)) /\ Commit(s)
  BY <1>1, <1>2, <1>3, <1>4, ExtendedSound
<1>6. /\ IdsOf(s) = IdsOf(store) \cup IdsFrom(next, next + k)
      /\ IdsOf(store) \cap IdsFrom(next, next + k) = {}
      /\ \A id \in IdsOf(store) : ListOf(s)[id] = ListOf(store)[id]
  <2>1. next + Len(new) = next + k
    BY <1>3
  <2>2. Sound(store, next)
    OBVIOUS
  <2> QED
    BY ONLY <1>1, <1>3, <1>4, <1>5, <2>1, <2>2, ExtendedList
<1>7. disk' = {s} /\ ListOf(store)' = ListOf(s) /\ Listed'
  BY <1>5, <1>6, Saved
<1>8. /\ ListOf(store) \in [IdsOf(store) -> Cfg] /\ DOMAIN ListOf(s) = IdsOf(s)
  BY <1>5, ListFacts
<1>9. PICK f, g : f = ListOf(store) /\ g = ListOf(s)
  OBVIOUS
<1>10. Book!Restrict(g, DOMAIN f \cap DOMAIN g) = f
  BY <1>6, <1>8, <1>9 DEF Book!Restrict
<1>11. DOMAIN g \ DOMAIN f = IdsFrom(next, next + k)
  BY <1>6, <1>8, <1>9
<1>12. /\ IdsFrom(next, next + k) \cap (0..next - 1) = {}
       /\ 0..(next + k) - 1 = (0..next - 1) \cup IdsFrom(next, next + k)
  BY <1>1 DEF IdsFrom
<1>13. up' /\ asked' = asked /\ disk' # {}
  BY <1>7
<1> QED
  BY <1>1, <1>7, <1>9, <1>10, <1>11, <1>12, <1>13 DEF Book!Add, Book!Fresh

LEMMA AddNetworkBook == ASSUME Ready, ~adrift', AddNetwork PROVE Listed' /\ Book!Add
<1>1. PICK batch : batch = <<[cfg |-> DefaultCfg, mode |-> "Off"]>>
  OBVIOUS
<1>2. PICK k \in Nat \ {0} : k = 1
  OBVIOUS
<1>3. /\ DOMAIN batch = 1..k
      /\ \A i \in 1..k : batch[i].cfg \in Cfg /\ batch[i].mode \in StartupMode
  BY <1>1, <1>2, ProfilesAssumption DEF StartupMode
<1>4. NewIds(k) /\ Commit(Extended(page, Keyed(batch)))
  BY <1>1, <1>2 DEF AddNetwork
<1>5. /\ up /\ page = store /\ Sound(store, next)
      /\ DOMAIN asked \subseteq IdsOf(store) /\ up' = up /\ asked' = asked
  BY InputFacts DEF AddNetwork
<1> QED
  BY <1>3, <1>4, <1>5, AddBook

LEMMA PasteBook == ASSUME Ready, ~adrift', Paste PROVE Listed' /\ Book!Add
<1>1. PICK batch \in Files :
        NewIds(Len(batch)) /\ Commit(Extended(page, Keyed(batch)))
  BY DEF Paste
<1>2. PICK k \in Nat \ {0} : k = Len(batch)
  BY FileFacts
<1>3. /\ DOMAIN batch = 1..k
      /\ \A i \in 1..k : batch[i].cfg \in Cfg /\ batch[i].mode \in StartupMode
  BY <1>2, FileFacts
<1>4. NewIds(k)
  BY <1>1, <1>2
<1>5. /\ up /\ page = store /\ Sound(store, next)
      /\ DOMAIN asked \subseteq IdsOf(store) /\ up' = up /\ asked' = asked
  BY InputFacts DEF Paste
<1> QED
  BY <1>1, <1>3, <1>4, <1>5, AddBook

LEMMA ImportedBook == ASSUME Ready, ~adrift', Imported PROVE Listed' /\ Book!Add
<1>1. PICK batch \in Files :
        NewIds(Len(batch)) /\ Commit(Extended(Last(dialogs).store, Keyed(batch)))
  BY DEF Imported
<1>2. PICK k \in Nat \ {0} : k = Len(batch)
  BY FileFacts
<1>3. /\ DOMAIN batch = 1..k
      /\ \A i \in 1..k : batch[i].cfg \in Cfg /\ batch[i].mode \in StartupMode
  BY <1>2, FileFacts
<1>4. NewIds(k)
  BY <1>1, <1>2
<1>5. /\ up /\ Last(dialogs).store = store /\ Sound(store, next)
      /\ DOMAIN asked \subseteq IdsOf(store) /\ up' = up /\ asked' = asked
  BY ReturnedFacts DEF Imported
<1> QED
  BY <1>1, <1>3, <1>4, <1>5, AddBook

LEMMA DuplicateBook == ASSUME Ready, ~adrift', Duplicate PROVE Listed' /\ Book!Add
<1>1. PICK p : p = page.profiles[Current(page)]
  OBVIOUS
<1>2. PICK batch : batch = <<p>>
  OBVIOUS
<1>3. PICK k \in Nat \ {0} : k = 1
  OBVIOUS
<1>4. /\ up /\ page = store /\ Sound(store, next) /\ store \in Store
      /\ DOMAIN asked \subseteq IdsOf(store) /\ up' = up /\ asked' = asked
  BY InputFacts DEF Duplicate
<1>5. p.cfg \in Cfg /\ p.mode \in StartupMode
  BY <1>1, <1>4, StoreFacts DEF Duplicate
<1>6. /\ DOMAIN batch = 1..k
      /\ \A i \in 1..k : batch[i].cfg \in Cfg /\ batch[i].mode \in StartupMode
  BY <1>2, <1>3, <1>5
<1>7. NewIds(k) /\ Commit(Extended(page, Keyed(batch)))
  BY <1>1, <1>2, <1>3 DEF Duplicate
<1> QED
  BY <1>4, <1>6, <1>7, AddBook

LEMMA StoppedIs ==
  ASSUME NEW ids
  PROVE  /\ Stopped(ids) = [id \in DOMAIN asked \ ids |-> asked[id]]
         /\ DOMAIN Stopped(ids) = DOMAIN asked \ ids
  BY DEF Stopped, Restrict

LEMMA DeleteBook == ASSUME Ready, ~adrift', Delete PROVE Listed' /\ Book!Remove
<1>1. PICK i, s :
        /\ i \in DOMAIN page.profiles
        /\ s = [page EXCEPT !.profiles = RemoveAt(@, i),
                            !.selected = Clamp(@, Len(page.profiles) - 1)]
        /\ Commit(s) /\ asked' = Stopped({page.profiles[i].id})
  BY DEF Delete
<1>2. /\ up /\ page = store /\ Sound(store, next) /\ store \in Store
      /\ DOMAIN asked \subseteq IdsOf(store) /\ up' = up /\ next' = next
  BY InputFacts DEF Delete
<1>3. i \in DOMAIN store.profiles
  BY <1>1, <1>2
<1>4. PICK id : id = store.profiles[i].id
  OBVIOUS
<1>5. Sound(s, next)
  BY <1>1, <1>2, DeleteSound
<1>6. s.profiles = RemoveAt(store.profiles, i)
  BY <1>1, <1>2 DEF Store
<1>7. IdsOf(s) = IdsOf(store) \ {id} /\ ListOf(s) = Book!Without(ListOf(store), id)
  BY ONLY <1>2, <1>3, <1>4, <1>5, <1>6, DeletedList
<1>8. asked' = Book!Without(asked, id) /\ DOMAIN asked' = DOMAIN asked \ {id}
  <2>1. asked' = Stopped({id})
    BY <1>1, <1>2, <1>4
  <2> QED
    BY <2>1, StoppedIs DEF Book!Without, Book!Restrict
<1>9. disk' = {s} /\ ListOf(store)' = ListOf(s) /\ Listed'
  BY <1>1, <1>2, <1>7, <1>8, Saved
<1>10. id \in DOMAIN ListOf(store)
  BY <1>2, <1>3, <1>4, ListFacts
<1> QED
  BY <1>2, <1>7, <1>8, <1>9, <1>10 DEF Book!Remove

\* A restore: the dialog's store is the present one, so all that runs stops.
LEMMA RestoreDoneBook ==
  ASSUME Ready, ~adrift', RestoreDone PROVE Listed' /\ Book!Replace
<1>1. PICK t \in backup \cup OldBackups :
        /\ t.profiles # <<>> /\ NewIds(Len(t.profiles))
        /\ asked' = Stopped(IdsOf(Last(dialogs).store))
        /\ Commit(Restored(t))
  BY DEF RestoreDone
<1>2. t \in Store
  BY ProfilesAssumption DEF Ready, KInv, IInv, Bounds
<1>3. PICK k \in Nat : k = Len(t.profiles) /\ DOMAIN t.profiles = 1..k
  BY <1>2, StoreFacts
<1>4. /\ up /\ Last(dialogs).store = store /\ Sound(store, next)
      /\ DOMAIN asked \subseteq IdsOf(store) /\ up' = up /\ next \in Nat
  BY ReturnedFacts DEF RestoreDone
<1>5. next' = next + k
  BY <1>1, <1>3 DEF NewIds
<1>6. PICK s : s = Restored(t)
  OBVIOUS
<1>7. Sound(s, next')
  BY <1>1, <1>2, <1>3, <1>4, <1>5, <1>6, RestoredSound
<1>8. IdsOf(s) = IdsFrom(next, next + k)
  <2>1. PICK c : c = Keyed(t.profiles)
    OBVIOUS
  <2>2. DOMAIN c = 1..k /\ \A i \in 1..k : c[i].id = next + i - 1
    BY <1>3, <2>1 DEF Keyed
  <2>3. s.profiles = c
    BY <1>2, <1>6, <2>1 DEF Restored, Store
  <2>4. IdsOf(s) = {c[i].id : i \in 1..k}
    BY <2>2, <2>3 DEF IdsOf
  <2>5. ASSUME NEW id \in IdsFrom(next, next + k) PROVE id \in IdsOf(s)
    <3>1. id - next + 1 \in 1..k /\ next + (id - next + 1) - 1 = id
      BY <1>4 DEF IdsFrom
    <3> QED
      BY <3>1, <2>2, <2>4
  <2>6. ASSUME NEW id \in IdsOf(s) PROVE id \in IdsFrom(next, next + k)
    BY <1>4, <2>2, <2>4 DEF IdsFrom
  <2> QED
    BY <2>5, <2>6
<1>9. asked' = Book!Nothing /\ DOMAIN asked' = {}
  BY <1>1, <1>4, StoppedIs DEF Book!Nothing
<1>10. disk' = {s} /\ ListOf(store)' = ListOf(s) /\ Listed'
  BY <1>1, <1>6, <1>9, Saved
<1>11. DOMAIN ListOf(s) = IdsFrom(next, next + k)
  BY <1>8 DEF ListOf
<1>12. /\ IdsFrom(next, next + k) \cap (0..next - 1) = {}
       /\ 0..(next + k) - 1 = (0..next - 1) \cup IdsFrom(next, next + k)
  BY <1>4 DEF IdsFrom
<1> QED
  BY <1>4, <1>5, <1>9, <1>10, <1>11, <1>12 DEF Book!Replace, Book!Fresh

\* A handler that leaves the store alone.
LEMMA IdleListed ==
  ASSUME store' = store, DOMAIN asked' \subseteq IdsOf(store)
  PROVE  Listed' /\ ListOf(store)' = ListOf(store)
<1>1. IdsOf(store)' = IdsOf(store) /\ ListOf(store)' = ListOf(store)
  OBVIOUS
<1> QED
  BY <1>1 DEF Listed

LEMMA ConnectBook == ASSUME Ready, Connect PROVE Listed' /\ Book!Start
<1>1. PICK p \in Range(page.profiles) :
        asked' = [id \in DOMAIN asked \cup {p.id} |->
                    IF id = p.id THEN p.cfg ELSE asked[id]]
  BY DEF Connect
<1>2. /\ up /\ page = store /\ Sound(store, next) /\ DOMAIN asked \subseteq IdsOf(store)
      /\ UNCHANGED <<up, disk, store, page, dialogs, next>>
  BY InputFacts DEF Connect
<1>3. p.id \in IdsOf(store) /\ ListOf(store)[p.id] = p.cfg /\ DOMAIN ListOf(store) = IdsOf(store)
  <2>1. PICK i \in DOMAIN store.profiles : p = store.profiles[i]
    BY <1>1, <1>2 DEF Range
  <2> QED
    BY <1>2, <2>1, ListFacts
<1>4. Listed' /\ ListOf(store)' = ListOf(store)
  BY <1>1, <1>2, <1>3, IdleListed
<1>5. asked' = Book!With(asked, p.id, ListOf(store)[p.id])
  BY <1>1, <1>3 DEF Book!With
<1> QED
  BY <1>2, <1>3, <1>4, <1>5 DEF Book!Start

LEMMA DisconnectBook == ASSUME Ready, Disconnect PROVE Listed' /\ Book!Stop
<1>1. PICK p \in Range(page.profiles) : asked' = Stopped({p.id})
  BY DEF Disconnect
<1>2. /\ up /\ page = store /\ Sound(store, next) /\ DOMAIN asked \subseteq IdsOf(store)
      /\ UNCHANGED <<up, disk, store, page, dialogs, next>>
  BY InputFacts DEF Disconnect
<1>3. p.id \in DOMAIN ListOf(store)
  <2>1. PICK i \in DOMAIN store.profiles : p = store.profiles[i]
    BY <1>1, <1>2 DEF Range
  <2> QED
    BY <1>2, <2>1, ListFacts
<1>4. asked' = Book!Without(asked, p.id) /\ DOMAIN asked' \subseteq IdsOf(store)
  BY <1>1, <1>2, StoppedIs DEF Book!Without, Book!Restrict
<1>5. Listed' /\ ListOf(store)' = ListOf(store)
  BY <1>2, <1>4, IdleListed
<1> QED
  BY <1>2, <1>3, <1>4, <1>5 DEF Book!Stop

\* What the abstract list does not show.
LEMMA UnseenBook ==
  ASSUME Ready, OpenDialog \/ Cancelled \/ BackedUp \/ Nudge \/ Render
  PROVE  Listed' /\ UNCHANGED Book!vars
<1>1. UNCHANGED <<up, disk, asked, next, store>> /\ up
  <2>1. CASE Nudge
    BY <2>1, InputFacts DEF Nudge, Show
  <2>2. CASE Render
    BY <2>2 DEF Render
  <2>3. CASE OpenDialog \/ Cancelled \/ BackedUp
    BY <2>3 DEF OpenDialog, Cancelled, BackedUp, Input, Return
  <2> QED
    BY <2>1, <2>2, <2>3
<1>2. Listed' /\ ListOf(store)' = ListOf(store)
  BY <1>1, IdleListed DEF Ready, Listed
<1> QED
  BY <1>1, <1>2 DEF Book!vars

\* There is one store on disk at most.
LEMMA OnDiskIs ==
  ASSUME KInv, NEW s \in disk PROVE OnDisk = ListOf(s) /\ disk = {s}
<1>1. disk = {s}
  BY DEF KInv, FileInv
<1>2. (CHOOSE t \in disk : TRUE) = s
  BY <1>1
<1> QED
  BY <1>1, <1>2 DEF OnDisk

\* With the last change on disk, the file lists the networks of the state.
LEMMA OnDiskListed ==
  ASSUME KInv, up, ~adrift, NEW s \in disk PROVE ListOf(s) = ListOf(store)
<1>1. Sound(s, next) /\ Sound(store, next) /\ InRange(store)
  BY DEF KInv, IInv, DiskSound, DisplaySound
<1>2. Load(s) = Load(store)
  BY <1>1, LoadIs DEF KInv, FileInv, RelaunchShowsSame, SwitchOff, Sound
<1>3. ListOf(Load(s)) = ListOf(s) /\ ListOf(Load(store)) = ListOf(store)
  BY <1>1, LoadedList
<1> QED
  BY <1>2, <1>3

LEMMA ToStartIs ==
  ASSUME NEW s, NEW b
  PROVE  \E ids \in SUBSET IdsOf(s) : ToStart(s, b) = [id \in ids |-> ListOf(s)[id]]
<1>1. PICK ids : ids = {p.id : p \in {q \in Range(s.profiles) : ShouldStart(q.mode, b)}}
  OBVIOUS
<1>2. ids \subseteq IdsOf(s)
  BY <1>1 DEF IdsOf, Range
<1>3. ToStart(s, b) = [id \in ids |-> CfgOf(s, id)]
  BY <1>1 DEF ToStart
<1>4. \A id \in ids : ListOf(s)[id] = CfgOf(s, id)
  BY <1>2 DEF ListOf
<1> QED
  BY <1>2, <1>3, <1>4

LEMMA LaunchBook == ASSUME Ready, Launch PROVE Listed' /\ Book!Open
<1>1. /\ ~up /\ up' /\ page' = store' /\ disk' = disk
  BY DEF Launch
<1>2. PICK s : s = store'
  OBVIOUS
<1>3. PICK b : asked' = ToStart(s, b)
  BY <1>2 DEF Launch
<1>4. PICK ids \in SUBSET IdsOf(s) : asked' = [id \in ids |-> ListOf(s)[id]]
  BY <1>3, ToStartIs
<1>5. DOMAIN asked' \subseteq IdsOf(s)
  BY <1>4
<1>6. ListOf(store)' = ListOf(s) /\ IdsOf(store)' = IdsOf(s)
  BY <1>2
<1>7. DOMAIN ListOf(s) = IdsOf(s)
  BY DEF ListOf
<1>8. asked' = Book!Restrict(ListOf(s), ids)
  <2>1. ids \cap DOMAIN ListOf(s) = ids
    BY <1>7
  <2> QED
    BY <1>4, <1>7, <2>1 DEF Book!Restrict
<1>9. IF disk # {} THEN OnDisk = ListOf(s) /\ next' = next
      ELSE IdsOf(s) = {0} /\ next' = 1
  <2>1. CASE disk = {} /\ store' = DefaultStore /\ next' = 1
    <3>1. s.profiles = <<[id |-> 0, cfg |-> DefaultCfg, mode |-> "Off"]>>
      BY <1>2, <2>1 DEF DefaultStore
    <3>2. IdsOf(s) = {0}
      BY <3>1 DEF IdsOf
    <3> QED
      BY <2>1, <3>2
  <2>2. ASSUME NEW t \in disk, store' = Load(t), next' = next
        PROVE  OnDisk = ListOf(s) /\ disk # {}
    <3>1. Sound(t, next)
      BY DEF Ready, KInv, IInv, DiskSound
    <3>2. ListOf(s) = ListOf(t)
      BY <1>2, <2>2, <3>1, LoadedList
    <3> QED
      BY <3>2, OnDiskIs DEF Ready
  <2> QED
    BY <2>1, <2>2 DEF Launch
<1>10. Listed'
  BY <1>5, <1>6 DEF Listed
<1>11. disk = {} => /\ Book!Cardinality(DOMAIN ListOf(s)) = 1
                    /\ 0..next' - 1 = DOMAIN ListOf(s)
  <2>1. Book!Cardinality({0}) = 1
    <3>1. Cardinality({0}) = 1
      BY FS_Singleton
    <3> QED
      BY <3>1 DEF Cardinality, Book!Cardinality
  <2>2. 0..1 - 1 = {0}
    OBVIOUS
  <2> QED
    BY <1>7, <1>9, <2>1, <2>2
<1>12. PICK f, g : /\ f = IF up THEN ListOf(store) ELSE OnDisk
                   /\ g = IF up' THEN ListOf(store)' ELSE OnDisk'
                   /\ f = OnDisk /\ g = ListOf(s)
  BY <1>1, <1>6
<1>13. Book!Open
  BY <1>1, <1>4, <1>7, <1>8, <1>9, <1>11, <1>12 DEF Book!Open
<1> QED
  BY <1>10, <1>13

LEMMA ExitBook == ASSUME Ready, Exit PROVE Listed' /\ Book!Close
<1>1. /\ up /\ ~up' /\ asked' = Nothing /\ UNCHANGED <<disk, next>>
  BY DEF Exit
<1>2. Listed'
  BY <1>1, NothingFacts DEF Listed
<1>3. OnDisk' = OnDisk
  BY <1>1 DEF OnDisk
<1>4. OnDisk = IF disk # {} THEN ListOf(store) ELSE Book!Nothing
  <2>1. CASE disk = {}
    BY <2>1 DEF OnDisk, Nothing, Book!Nothing
  <2>2. ASSUME NEW s \in disk PROVE OnDisk = ListOf(store)
    BY <1>1, OnDiskIs, OnDiskListed DEF Ready, UpToDate
  <2> QED
    BY <2>1, <2>2
<1>5. asked' = Book!Nothing
  BY <1>1 DEF Nothing, Book!Nothing
<1> QED
  BY <1>1, <1>2, <1>3, <1>4, <1>5 DEF Book!Close

LEMMA StepBook == Ready /\ ~adrift' /\ [Next]_vars => Listed' /\ BookStep
<1> SUFFICES ASSUME Ready, ~adrift', [Next]_vars PROVE Listed' /\ BookStep
  OBVIOUS
<1>1. CASE Launch \/ Exit
  BY <1>1, LaunchBook, ExitBook DEF BookStep, Book!Next
<1>2. CASE Edit \/ SetMode \/ Select \/ SetPreference
  BY <1>2, EditBook, SetModeBook, SelectBook, SetPreferenceBook DEF BookStep, Book!Next
<1>3. CASE AddNetwork \/ Paste \/ Duplicate \/ Imported
  BY <1>3, AddNetworkBook, PasteBook, DuplicateBook, ImportedBook DEF BookStep, Book!Next
<1>4. CASE Delete \/ RestoreDone
  BY <1>4, DeleteBook, RestoreDoneBook DEF BookStep, Book!Next
<1>5. CASE Connect \/ Disconnect
  BY <1>5, ConnectBook, DisconnectBook DEF BookStep, Book!Next
<1>6. CASE OpenDialog \/ Cancelled \/ BackedUp \/ Nudge \/ Render
  BY <1>6, UnseenBook DEF BookStep
<1>7. CASE UNCHANGED vars
  <2>1. UNCHANGED <<up, disk, store, asked, next>>
    BY <1>7 DEF vars
  <2>2. Listed'
    BY <2>1, IdleListed DEF Ready, Listed
  <2>3. UNCHANGED Book!vars
    BY <2>1 DEF Book!vars, OnDisk
  <2> QED
    BY <2>2, <2>3 DEF BookStep
<1> QED
  BY <1>1, <1>2, <1>3, <1>4, <1>5, <1>6, <1>7 DEF Next

\* With the copies of the store in step and only listed networks running, each
\* handler with its captured store, indices and whole-file write is a step of
\* the plain list of networks, or none that the list shows: nothing is lost,
\* ids are fresh, and only listed networks run, each as it was listed when it
\* was started.  So it is in any state that a race or a failed save has led to
\* and later steps have healed.
THEOREM HandlersKeepTheLedger == Spec => LedgerSteps
<1>1. KInv /\ [Next]_vars =>
        [UpToDate /\ Listed /\ ~adrift' => [Book!Next]_(Book!vars) /\ Listed']_vars
  <2> SUFFICES ASSUME KInv, [Next]_vars, UpToDate, Listed, ~adrift'
               PROVE  [Book!Next]_(Book!vars) /\ Listed'
    OBVIOUS
  <2> QED
    BY StepBook DEF Ready, BookStep
<1> QED
  BY <1>1, KeptHolds, PTL DEF Spec, LedgerSteps
=============================================================================
