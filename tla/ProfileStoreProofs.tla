-------------------------- MODULE ProfileStoreProofs --------------------------
(***************************************************************************)
(* The profiles for any identities and any names.                          *)
(***************************************************************************)
EXTENDS ProfileStoreProperties, WellFoundedInduction, TLAPS

-----------------------------------------------------------------------------
(* The inductive invariant *)

\* Nobody holds an identity that was never given out.
OnlyGiven ==
  /\ \A k \in DOMAIN store : store[k].id \in Given
  /\ \A k \in DOMAIN file : file[k].id \in Given
  /\ \A k \in DOMAIN view.list : view.list[k].id \in Given

\* The form shows the selected profile.
FormShowsSelected == view.sel # 0 => view.of = view.list[view.sel].id

\* While every write has completed the file says what the store does.
FileIsStore == ~cut => file = store

IInv == TypeOK /\ OnlyGiven /\ FormShowsSelected /\ FileIsStore

-----------------------------------------------------------------------------
(* Lemmas about positions *)

LEMMA LessIsWellFounded ==
  \E R : IsWellFoundedOn(R, Nat) /\ \A x, y \in Nat : <<y, x>> \in R <=> y < x
<1>1. \A x, y \in Nat : <<y, x>> \in OpToRel(<, Nat) <=> y < x
  BY DEF OpToRel
<1> WITNESS OpToRel(<, Nat)
<1> QED
  BY <1>1, NatLessThanWellFounded

\* A set of natural numbers that is not empty has a least element.
LEMMA MinIsMember ==
  ASSUME NEW I \in SUBSET Nat, I # {}
  PROVE  Min(I) \in I /\ \A y \in I : Min(I) <= y
<1>1. PICK R : IsWellFoundedOn(R, Nat) /\ \A x, y \in Nat : <<y, x>> \in R <=> y < x
  BY LessIsWellFounded
<1>2. PICK x \in I : \A y \in I : ~(<<y, x>> \in R)
  BY <1>1, WFMin
<1>3. ASSUME NEW y \in I PROVE x <= y
  <2>1. x \in Nat /\ y \in Nat /\ ~(<<y, x>> \in R)
    BY <1>2
  <2>2. ~(y < x)
    BY <1>1, <2>1, Zenon
  <2> QED
    BY <2>1, <2>2
<1> QED
  BY <1>2, <1>3 DEF Min

LEMMA PositionFinds ==
  ASSUME NEW ps \in Seq(Profiles), NEW i
  PROVE  /\ Position(ps, i) \in 0 .. Len(ps)
         /\ Position(ps, i) = 0 => \A k \in DOMAIN ps : ps[k].id # i
         /\ Position(ps, i) # 0 => ps[Position(ps, i)].id = i
<1> DEFINE I == {k \in 1 .. Len(ps) : ps[k].id = i}
<1>1. Position(ps, i) = IF I # {} THEN Min(I) ELSE 0
  BY DEF Position, SelectInSeq
<1>2. I \in SUBSET Nat /\ DOMAIN ps = 1 .. Len(ps)
  OBVIOUS
<1>3. CASE I = {}
  BY <1>1, <1>2, <1>3
<1>4. CASE I # {}
  <2>1. Min(I) \in I
    BY <1>2, <1>4, MinIsMember
  <2> QED
    BY <1>1, <1>2, <1>4, <2>1
<1> QED
  BY <1>3, <1>4

LEMMA NamedFinds ==
  ASSUME NEW ps \in Seq(Profiles), NEW q, NEW relation
  PROVE  /\ Named(ps, q, relation) \in 0 .. Len(ps)
         /\ Named(ps, q, relation) = 0 => \A k \in DOMAIN ps : <<q, ps[k].name>> \notin relation
         /\ Named(ps, q, relation) # 0 => <<q, ps[Named(ps, q, relation)].name>> \in relation
<1> DEFINE I == {k \in 1 .. Len(ps) : <<q, ps[k].name>> \in relation}
<1>1. Named(ps, q, relation) = IF I # {} THEN Min(I) ELSE 0
  BY DEF Named, SelectInSeq
<1>2. I \in SUBSET Nat /\ DOMAIN ps = 1 .. Len(ps)
  OBVIOUS
<1>3. CASE I = {}
  <2>1. Named(ps, q, relation) = 0
    BY <1>1, <1>3
  <2>2. \A k \in 1 .. Len(ps) : <<q, ps[k].name>> \notin relation
    BY <1>3
  <2> QED
    BY <1>2, <2>1, <2>2
<1>4. CASE I # {}
  <2>1. Min(I) \in I
    BY <1>2, <1>4, MinIsMember
  <2> QED
    BY <1>1, <1>2, <1>4, <2>1
<1> QED
  BY <1>3, <1>4

-----------------------------------------------------------------------------
(* Lemmas about the store *)

\* No identity is given out twice.
LEMMA NextIsNew ==
  ASSUME TypeOK, NEW k \in DOMAIN Ids
  PROVE  /\ Ids[k] \in ToSet(Ids)
         /\ k = made + 1 => Ids[k] \notin Given
<1>1. Ids[k] \in ToSet(Ids)
  BY DEF ToSet
<1>2. ASSUME k = made + 1 PROVE Ids[k] \notin Given
  BY <1>2, StoreConstants DEF TypeOK, Given, IsInjective
<1> QED
  BY <1>1, <1>2

\* What is stored in place of p has its identity, everything else stays.
LEMMA SavedKeeps ==
  ASSUME TypeOK, NEW p \in Profiles
  PROVE  /\ IsStore(Saved(p))
         /\ DOMAIN store \subseteq DOMAIN Saved(p)
         /\ \A k \in DOMAIN store : Saved(p)[k] # store[k] => store[k].id = p.id
         /\ \A k \in DOMAIN Saved(p) :
              Saved(p)[k] = p \/ (k \in DOMAIN store /\ Saved(p)[k] = store[k])
<1> DEFINE k0 == Position(store, p.id)
<1>1. store \in Seq(Profiles) /\ IsStore(store)
  BY DEF TypeOK, IsStore
<1>2. /\ k0 \in 0 .. Len(store)
      /\ k0 = 0 => \A k \in DOMAIN store : store[k].id # p.id
      /\ k0 # 0 => store[k0].id = p.id
  BY <1>1, PositionFinds
<1>3. Saved(p) = IF k0 = 0 THEN Append(store, p) ELSE ReplaceAt(store, k0, p)
  BY DEF Saved
<1> HIDE DEF k0
<1>4. CASE k0 = 0
  <2>1. Saved(p) = Append(store, p)
    BY <1>3, <1>4
  <2>2. /\ Append(store, p) \in Seq(Profiles)
        /\ DOMAIN Append(store, p) = 1 .. Len(store) + 1 /\ DOMAIN store = 1 .. Len(store)
        /\ \A k \in DOMAIN store : Append(store, p)[k] = store[k]
        /\ Append(store, p)[Len(store) + 1] = p
        /\ Len(store) \in Nat
    BY <1>1
  <2>3. IsStore(Append(store, p))
    BY <1>1, <1>2, <1>4, <2>2 DEF IsStore
  <2> QED
    BY <2>1, <2>2, <2>3
<1>5. CASE k0 # 0
  <2>1. Saved(p) = [store EXCEPT ![k0] = p]
    BY <1>3, <1>5 DEF ReplaceAt
  <2>2. k0 \in DOMAIN store /\ store[k0].id = p.id
    BY <1>1, <1>2, <1>5
  <2>3. /\ Saved(p) \in Seq(Profiles) /\ DOMAIN Saved(p) = DOMAIN store
        /\ Saved(p)[k0] = p
        /\ \A k \in DOMAIN store : k # k0 => Saved(p)[k] = store[k]
    BY <1>1, <2>1, <2>2
  <2>4. IsStore(Saved(p))
    BY <1>1, <2>2, <2>3 DEF IsStore
  <2> QED
    BY <2>2, <2>3, <2>4
<1> QED
  BY <1>4, <1>5

\* What is left after a removal was there.
LEMMA RemovedKeeps ==
  ASSUME TypeOK, NEW i
  PROVE  /\ IsStore(Removed(i))
         /\ \A k \in DOMAIN Removed(i) : \E j \in DOMAIN store : Removed(i)[k] = store[j]
<1> DEFINE k0 == Position(store, i)
<1>1. store \in Seq(Profiles) /\ IsStore(store) /\ Len(store) \in Nat
  BY DEF TypeOK, IsStore
<1>2. k0 \in 0 .. Len(store)
  BY <1>1, PositionFinds
<1>3. Removed(i) = IF k0 = 0 THEN store ELSE RemoveAt(store, k0)
  BY DEF Removed
<1> HIDE DEF k0
<1>4. CASE k0 = 0
  BY <1>1, <1>3, <1>4
<1>5. CASE k0 # 0
  <2> DEFINE before == SubSeq(store, 1, k0 - 1)
             behind == SubSeq(store, k0 + 1, Len(store))
  <2>1. /\ before \in Seq(Profiles) /\ Len(before) = k0 - 1
        /\ \A k \in 1 .. k0 - 1 : before[k] = store[k]
    BY <1>1, <1>2, <1>5
  <2>2. /\ behind \in Seq(Profiles) /\ Len(behind) = Len(store) - k0
        /\ \A k \in 1 .. Len(store) - k0 : behind[k] = store[k + k0]
    BY <1>1, <1>2, <1>5
  <2>3. Removed(i) = before \o behind
    BY <1>3, <1>5 DEF RemoveAt
  <2> HIDE DEF before, behind
  <2>4. Removed(i) \in Seq(Profiles) /\ Len(Removed(i)) = Len(store) - 1
    <3>1. before \o behind \in Seq(Profiles) /\ Len(before \o behind) = Len(before) + Len(behind)
      BY <2>1, <2>2
    <3>2. k0 - 1 + (Len(store) - k0) = Len(store) - 1
      BY <1>1, <1>2
    <3> QED
      BY <2>1, <2>2, <2>3, <3>1, <3>2
  <2>5. ASSUME NEW k \in 1 .. Len(store) - 1
        PROVE  Removed(i)[k] = store[IF k < k0 THEN k ELSE k + 1]
    <3>1. CASE k < k0
      <4>1. k \in 1 .. Len(before)
        BY <1>1, <1>2, <2>1, <3>1
      <4>2. (before \o behind)[k] = before[k]
        BY <2>1, <2>2, <4>1
      <4> QED
        BY <1>2, <2>1, <2>3, <3>1, <4>1, <4>2
    <3>2. CASE ~(k < k0)
      <4>1. k - Len(before) \in 1 .. Len(behind) /\ k - Len(before) = k - k0 + 1
        BY <1>1, <1>2, <2>1, <2>2, <3>2
      <4>2. (before \o behind)[k] = behind[k - Len(before)]
        BY <2>1, <2>2, <4>1
      <4>3. behind[k - k0 + 1] = store[k - k0 + 1 + k0]
        BY <2>2, <4>1
      <4>4. k - k0 + 1 + k0 = k + 1
        BY <1>1, <1>2
      <4> QED
        BY <2>3, <3>2, <4>1, <4>2, <4>3, <4>4
    <3> QED
      BY <3>1, <3>2
  <2>6. DOMAIN Removed(i) = 1 .. Len(store) - 1 /\ DOMAIN store = 1 .. Len(store)
    BY <1>1, <2>4
  <2>7. ASSUME NEW k \in DOMAIN Removed(i), NEW j \in DOMAIN Removed(i),
               Removed(i)[j].id = Removed(i)[k].id
        PROVE  j = k
    <3>1. /\ (IF j < k0 THEN j ELSE j + 1) \in DOMAIN store
          /\ (IF k < k0 THEN k ELSE k + 1) \in DOMAIN store
      BY <1>1, <1>2, <1>5, <2>6
    <3>2. (IF j < k0 THEN j ELSE j + 1) = (IF k < k0 THEN k ELSE k + 1)
      BY <1>1, <2>5, <2>6, <2>7, <3>1 DEF IsStore
    <3> QED
      BY <1>1, <1>2, <2>6, <3>2
  <2>8. ASSUME NEW k \in DOMAIN Removed(i)
        PROVE  \E j \in DOMAIN store : Removed(i)[k] = store[j]
    <3>1. (IF k < k0 THEN k ELSE k + 1) \in DOMAIN store
      BY <1>1, <1>2, <1>5, <2>6
    <3> QED
      BY <2>5, <2>6, <3>1
  <2> QED
    BY <2>4, <2>7, <2>8 DEF IsStore
<1> QED
  BY <1>4, <1>5

-----------------------------------------------------------------------------
(* One step preserves IInv *)

LEMMA EmptyStore == IsStore(<<>>) /\ Len(<<>>) = 0 /\ DOMAIN <<>> = 1 .. 0
  BY DEF IsStore

LEMMA InitIInv == Init => IInv
<1> SUFFICES ASSUME Init PROVE IInv
  OBVIOUS
<1>1. <<>> \in Seq(Profiles) /\ IsStore(<<>>) /\ Len(<<>>) = 0
  BY EmptyStore DEF IsStore
<1>2. made \in 0 .. Len(Ids)
  BY StoreConstants DEF Init
<1>3. Empty \in Views /\ Empty.list = <<>> /\ Empty.sel = 0 /\ Empty.sel <= Len(Empty.list)
  BY <1>1 DEF Empty, Views, OrNone
<1>4. TypeOK
  BY <1>1, <1>2, <1>3 DEF Init, TypeOK, OrNone
<1>5. OnlyGiven
  BY DEF Init, Empty, OnlyGiven
<1> QED
  BY <1>3, <1>4, <1>5 DEF Init, IInv, FormShowsSelected, FileIsStore

\* Identities are never taken back.
LEMMA GivenGrows ==
  ASSUME made \in Nat, made' \in Nat, made <= made'
  PROVE  Given \subseteq Given'
  BY DEF Given

(* What a change makes of the store, whether its write completes or not.   *)
LEMMA ChangeStep ==
  ASSUME IInv, NEW ps, IsStore(ps), Given \subseteq Given',
         \A k \in DOMAIN ps : ps[k].id \in Given',
         Written(ps) \/ WriteCut(ps)
  PROVE  /\ up' \in BOOLEAN /\ poisoned' \in BOOLEAN /\ cut' \in BOOLEAN
         /\ IsStore(store') /\ IsStore(file')
         /\ \A k \in DOMAIN store' : store'[k].id \in Given'
         /\ \A k \in DOMAIN file' : file'[k].id \in Given'
         /\ FileIsStore'
<1>1. CASE Written(ps)
  BY <1>1 DEF Written, IInv, TypeOK, FileIsStore
<1>2. CASE WriteCut(ps)
  <2>1. /\ store' = ps /\ file' \in {file, <<>>} /\ cut' = TRUE
        /\ up' \in BOOLEAN /\ poisoned' \in BOOLEAN
    BY <1>2 DEF WriteCut, IInv, TypeOK
  <2>2. IsStore(file) /\ \A k \in DOMAIN file : file[k].id \in Given'
    BY DEF IInv, TypeOK, OnlyGiven
  <2>3. IsStore(file') /\ \A k \in DOMAIN file' : file'[k].id \in Given'
    BY <2>1, <2>2, EmptyStore
  <2> QED
    BY <2>1, <2>3 DEF FileIsStore
<1> QED
  BY <1>1, <1>2

\* A window is well when its list is and the form shows what is selected.
Well(v) ==
  /\ v \in Views
  /\ IsStore(v.list) /\ v.sel <= Len(v.list)
  /\ v.sel # 0 => v.of = v.list[v.sel].id

\* To select what is in a list is well.
LEMMA LoadedIsWell ==
  ASSUME NEW v \in Views, NEW l, IsStore(l), NEW k \in DOMAIN l
  PROVE  Well(Loaded(v, l, k)) /\ Loaded(v, l, k).list = l
<1>1. l \in Seq(Profiles) /\ k \in Nat /\ k <= Len(l) /\ l[k] \in Profiles
  BY DEF IsStore
<1>2. l[k].id \in OrNone(ToSet(Ids)) /\ l[k].name \in OrNone(Names)
  BY <1>1 DEF Profiles, OrNone
<1> DEFINE o == l[k].id
           n == l[k].name
           w == [v EXCEPT !.list = l, !.sel = k, !.of = o, !.name = n]
<1>3. Loaded(v, l, k) = w
  BY DEF Loaded
<1>4. o = l[k].id /\ o \in OrNone(ToSet(Ids)) /\ n \in OrNone(Names)
  BY <1>2
<1> HIDE DEF o, n
<1>5. w \in Views /\ w.list = l /\ w.sel = k /\ w.of = o
  BY <1>1, <1>4 DEF Views
<1> HIDE DEF w
<1> QED
  BY <1>1, <1>3, <1>4, <1>5 DEF Well

\* With nothing selected any list will do.
LEMMA UnselectedIsWell ==
  ASSUME NEW v \in Views, NEW l, IsStore(l)
  PROVE  LET w == [v EXCEPT !.list = l, !.sel = 0] IN Well(w) /\ w.list = l
<1> DEFINE w == [v EXCEPT !.list = l, !.sel = 0]
<1>1. l \in Seq(Profiles)
  BY DEF IsStore
<1>2. w \in Views /\ w.list = l /\ w.sel = 0
  BY <1>1 DEF Views
<1>3. 0 <= Len(l)
  BY <1>1
<1> HIDE DEF w
<1>4. Well(w) /\ w.list = l
  BY <1>2, <1>3 DEF Well
<1> QED
  BY <1>4 DEF w

LEMMA ClearedIsWell ==
  ASSUME NEW v \in Views, NEW l, IsStore(l)
  PROVE  /\ Cleared(v) \in Views /\ Cleared(v).list = v.list /\ Cleared(v).sel = 0
         /\ LET w == [Cleared(v) EXCEPT !.list = l] IN Well(w) /\ w.list = l
<1>1. l \in Seq(Profiles) /\ None \in OrNone(ToSet(Ids)) /\ None \in OrNone(Names)
  BY DEF IsStore, OrNone
<1>2. Cleared(v) \in Views /\ Cleared(v).list = v.list /\ Cleared(v).sel = 0
  BY <1>1 DEF Cleared, Views
<1> DEFINE w == [Cleared(v) EXCEPT !.list = l]
<1>3. w \in Views /\ w.list = l /\ w.sel = 0
  BY <1>1, <1>2 DEF Views
<1>4. 0 <= Len(l)
  BY <1>1
<1> HIDE DEF w
<1>5. Well(w) /\ w.list = l
  BY <1>3, <1>4 DEF Well
<1> QED
  BY <1>2, <1>5 DEF w

LEMMA ReloadedIsWell ==
  ASSUME NEW v \in Views, NEW l, IsStore(l)
  PROVE  Well(Reloaded(v, l)) /\ Reloaded(v, l).list = l
<1>1. l \in Seq(Profiles) /\ DOMAIN l = 1 .. Len(l)
  BY DEF IsStore
<1>2. CASE v.sel \in 1 .. Len(l)
  BY <1>1, <1>2, LoadedIsWell DEF Reloaded
<1>3. CASE v.sel \notin 1 .. Len(l) /\ v.sel > Len(l) /\ l # <<>>
  <2>1. 1 \in DOMAIN l
    BY <1>1, <1>3
  <2> QED
    BY <1>1, <1>3, <2>1, LoadedIsWell DEF Reloaded
<1>4. CASE v.sel \notin 1 .. Len(l) /\ ~(v.sel > Len(l) /\ l # <<>>)
  BY <1>4, UnselectedIsWell DEF Reloaded
<1> QED
  BY <1>2, <1>3, <1>4

\* Who only looks keeps IInv.
LEMMA LookingStep ==
  ASSUME IInv, UNCHANGED daemon, Well(view'),
         \A k \in DOMAIN view'.list : view'.list[k].id \in Given,
         IsStore(list'), request' \in OrNone(Profiles)
  PROVE  IInv'
<1>1. UNCHANGED <<up, store, poisoned, file, cut, made>> /\ Given' = Given
  BY DEF daemon, Given
<1>2. TypeOK'
  BY <1>1 DEF IInv, TypeOK, Well
<1>3. OnlyGiven'
  BY <1>1 DEF IInv, OnlyGiven
<1> QED
  BY <1>1, <1>2, <1>3 DEF IInv, FormShowsSelected, FileIsStore, Well

\* Who changes the store for another keeps IInv.
LEMMA ChangingStep ==
  ASSUME IInv, NEW ps, IsStore(ps), made' \in 0 .. Len(Ids), made <= made',
         \A k \in DOMAIN ps : ps[k].id \in Given',
         Written(ps) \/ WriteCut(ps),
         Well(view'), \A k \in DOMAIN view'.list : view'.list[k].id \in Given',
         UNCHANGED <<list, request>>
  PROVE  IInv'
<1>1. Given \subseteq Given'
  BY GivenGrows, StoreConstants DEF IInv, TypeOK
<1>2. /\ up' \in BOOLEAN /\ poisoned' \in BOOLEAN /\ cut' \in BOOLEAN
      /\ IsStore(store') /\ IsStore(file')
      /\ \A k \in DOMAIN store' : store'[k].id \in Given'
      /\ \A k \in DOMAIN file' : file'[k].id \in Given'
      /\ FileIsStore'
  BY <1>1, ChangeStep
<1>3. TypeOK'
  BY <1>2 DEF IInv, TypeOK, Well
<1>4. OnlyGiven'
  BY <1>2 DEF OnlyGiven
<1> QED
  BY <1>2, <1>3, <1>4 DEF IInv, FormShowsSelected, Well

LEMMA ViewIsWell ==
  ASSUME IInv
  PROVE  /\ Well(view) /\ IsStore(view.list) /\ view \in Views
         /\ \A k \in DOMAIN view.list : view.list[k].id \in Given
         /\ IsStore(list) /\ request \in OrNone(Profiles)
         /\ IsStore(Fetched) /\ \A k \in DOMAIN Fetched : Fetched[k].id \in Given
<1>1. IsStore(Fetched) /\ \A k \in DOMAIN Fetched : Fetched[k].id \in Given
  BY EmptyStore DEF Fetched, IInv, TypeOK, OnlyGiven
<1> QED
  BY <1>1 DEF IInv, TypeOK, OnlyGiven, FormShowsSelected, Well

\* A profile that is saved was given its identity.
LEMMA SavedAreGiven ==
  ASSUME IInv, NEW p \in Profiles, p.id \in Given', Given \subseteq Given'
  PROVE  IsStore(Saved(p)) /\ \A k \in DOMAIN Saved(p) : Saved(p)[k].id \in Given'
  BY SavedKeeps DEF IInv, OnlyGiven

LEMMA RemovedAreGiven ==
  ASSUME IInv, NEW i
  PROVE  IsStore(Removed(i)) /\ \A k \in DOMAIN Removed(i) : Removed(i)[k].id \in Given
  BY RemovedKeeps DEF IInv, OnlyGiven

\* The identities given out, before and after one more is.
LEMMA GivenStep ==
  ASSUME IInv, NEW k \in DOMAIN Ids,
         (Ids[k] \in Given /\ made' = made) \/ (k = made + 1 /\ made' = k)
  PROVE  /\ made' \in 0 .. Len(Ids) /\ made <= made'
         /\ Ids[k] \in Given' /\ Given \subseteq Given' /\ Ids[k] \in ToSet(Ids)
<1>1. made \in 0 .. Len(Ids) /\ Len(Ids) \in Nat /\ DOMAIN Ids = 1 .. Len(Ids)
  BY StoreConstants DEF IInv, TypeOK
<1>2. made' \in 0 .. Len(Ids) /\ made <= made'
  BY <1>1
<1>3. Given \subseteq Given'
  BY <1>1, <1>2, GivenGrows
<1>4. Ids[k] \in Given'
  BY <1>1, <1>3 DEF Given
<1> QED
  BY <1>2, <1>3, <1>4 DEF ToSet

-----------------------------------------------------------------------------
(* The steps *)

LEMMA OthersStep ==
  ASSUME IInv, OtherSaves \/ OtherDeletes
  PROVE  IInv'
<1>1. CASE OtherSaves
  <2>1. PICK k \in DOMAIN Ids, n \in Names :
          /\ SaveId(Ids[k])
          /\ Written(Saved(Profile(Ids[k], n))) \/ WriteCut(Saved(Profile(Ids[k], n)))
    BY <1>1 DEF OtherSaves
  <2> DEFINE p == Profile(Ids[k], n)
  <2>2. (Ids[k] \in Given /\ made' = made) \/ (k = made + 1 /\ made' = k)
    BY <2>1, StoreConstants DEF SaveId, IInv, TypeOK, IsInjective
  <2>3. /\ made' \in 0 .. Len(Ids) /\ made <= made'
        /\ Ids[k] \in Given' /\ Given \subseteq Given' /\ Ids[k] \in ToSet(Ids)
    BY <2>2, GivenStep
  <2>4. p \in Profiles /\ p.id \in Given'
    BY <2>3 DEF Profile, Profiles
  <2>5. IsStore(Saved(p)) /\ \A j \in DOMAIN Saved(p) : Saved(p)[j].id \in Given'
    BY <2>3, <2>4, SavedAreGiven
  <2>6. UNCHANGED <<view, list, request>>
    BY <1>1 DEF OtherSaves
  <2>7. Well(view') /\ \A j \in DOMAIN view'.list : view'.list[j].id \in Given'
    BY <2>3, <2>6, ViewIsWell
  <2> QED
    BY <2>1, <2>3, <2>5, <2>6, <2>7, ChangingStep
<1>2. CASE OtherDeletes
  <2>1. PICK i \in Given : Written(Removed(i)) \/ WriteCut(Removed(i))
    BY <1>2 DEF OtherDeletes
  <2>2. UNCHANGED <<made, view, list, request>> /\ Given' = Given
    BY <1>2 DEF OtherDeletes, Given
  <2>3. made' \in 0 .. Len(Ids) /\ made <= made'
    BY <2>2, StoreConstants DEF IInv, TypeOK
  <2>4. Well(view') /\ \A j \in DOMAIN view'.list : view'.list[j].id \in Given'
    BY <2>2, ViewIsWell
  <2>5. IsStore(Removed(i)) /\ \A j \in DOMAIN Removed(i) : Removed(i)[j].id \in Given'
    BY <2>2, RemovedAreGiven
  <2> QED
    BY <2>1, <2>2, <2>3, <2>4, <2>5, ChangingStep
<1> QED
  BY <1>1, <1>2

LEMMA SettingsStep ==
  ASSUME IInv, Settings
  PROVE  IInv'
<1> USE ViewIsWell
<1>1. CASE OpenSettings
  <2> DEFINE v == [Empty EXCEPT !.open = TRUE]
  <2>1. view' = IF Fetched = <<>> THEN v ELSE Loaded(v, Fetched, 1)
    BY <1>1 DEF OpenSettings
  <2>2. v \in Views /\ v.list = <<>> /\ v.sel = 0 /\ <<>> \in Seq(Profiles)
    BY EmptyStore DEF Empty, Views, IsStore, OrNone
  <2> HIDE DEF v
  <2>3. Well(view') /\ \A k \in DOMAIN view'.list : view'.list[k].id \in Given
    <3>1. CASE Fetched = <<>>
      <4>1. Well(v)
        BY <2>2, EmptyStore DEF Well
      <4> QED
        BY <2>1, <2>2, <3>1, <4>1, EmptyStore
    <3>2. CASE Fetched # <<>>
      <4>1. 1 \in DOMAIN Fetched
        BY <3>2 DEF IsStore
      <4>2. view' = Loaded(v, Fetched, 1)
        BY <2>1, <3>2
      <4> QED
        BY <2>2, <4>1, <4>2, LoadedIsWell
    <3> QED
      BY <3>1, <3>2
  <2> QED
    BY <1>1, <2>3, LookingStep DEF OpenSettings
<1>2. CASE CloseSettings
  <2>1. view' = Empty /\ UNCHANGED <<daemon, list, request>>
    BY <1>2 DEF CloseSettings
  <2>2. Empty \in Views /\ Empty.list = <<>> /\ Empty.sel = 0
    BY EmptyStore DEF Empty, Views, IsStore, OrNone
  <2>3. Well(Empty)
    BY <2>2, EmptyStore DEF Well
  <2> QED
    BY <2>1, <2>2, <2>3, EmptyStore, LookingStep
<1>3. CASE Select
  <2>1. PICK k \in DOMAIN view.list : view' = Loaded(view, view.list, k)
    BY <1>3 DEF Select
  <2>2. Well(view') /\ view'.list = view.list
    BY <2>1, LoadedIsWell
  <2> QED
    BY <1>3, <2>2, LookingStep DEF Select
<1>4. CASE NewProfile
  <2>1. view' = Cleared(view)
    BY <1>4 DEF NewProfile
  <2>2. view' \in Views /\ view'.list = view.list /\ view'.sel = 0
    BY <2>1, ClearedIsWell
  <2>3. Well(view')
    BY <2>2 DEF Well, IsStore
  <2> QED
    BY <1>4, <2>2, <2>3, LookingStep DEF NewProfile
<1>5. CASE EditForm
  <2>1. PICK n \in Names : view' = [view EXCEPT !.name = n]
    BY <1>5 DEF EditForm
  <2>2. n \in OrNone(Names)
    BY DEF OrNone
  <2>3. /\ view' \in Views /\ view'.list = view.list
        /\ view'.sel = view.sel /\ view'.of = view.of
    BY <2>1, <2>2 DEF Views
  <2>4. Well(view')
    BY <2>3 DEF Well
  <2> QED
    BY <1>5, <2>3, <2>4, LookingStep DEF EditForm
<1>6. CASE SaveForm
  <2>1. PICK k \in DOMAIN Ids :
          /\ IF view.sel # 0 THEN Ids[k] = view.list[view.sel].id /\ UNCHANGED made
                             ELSE k = made + 1 /\ made' = k
          /\ LET ps == Saved(Profile(Ids[k], view.name)) IN
             \/ Written(ps) /\ \E l \in {ps, <<>>} : view' = Reloaded(view, l)
             \/ (Written(ps) \/ WriteCut(ps)) /\ UNCHANGED view
    BY <1>6 DEF SaveForm
  <2> DEFINE p == Profile(Ids[k], view.name)
  <2>2. view.sel # 0 => view.sel \in DOMAIN view.list
    BY DEF Well, IsStore, Views
  <2>3. (Ids[k] \in Given /\ made' = made) \/ (k = made + 1 /\ made' = k)
    BY <2>1, <2>2
  <2>4. /\ made' \in 0 .. Len(Ids) /\ made <= made'
        /\ Ids[k] \in Given' /\ Given \subseteq Given' /\ Ids[k] \in ToSet(Ids)
    BY <2>3, GivenStep
  <2>5. view.name \in Names
    BY <1>6 DEF SaveForm, Views, OrNone
  <2>6. p \in Profiles /\ p.id \in Given'
    BY <2>4, <2>5 DEF Profile, Profiles
  <2>7. IsStore(Saved(p)) /\ \A j \in DOMAIN Saved(p) : Saved(p)[j].id \in Given'
    BY <2>4, <2>6, SavedAreGiven
  <2>8. Well(view') /\ \A j \in DOMAIN view'.list : view'.list[j].id \in Given'
    <3>1. CASE view' = view
      BY <2>4, <3>1
    <3>2. ASSUME NEW l \in {Saved(p), <<>>}, view' = Reloaded(view, l)
          PROVE  Well(view') /\ \A j \in DOMAIN view'.list : view'.list[j].id \in Given'
      <4>1. IsStore(l) /\ \A j \in DOMAIN l : l[j].id \in Given'
        BY <2>7, EmptyStore
      <4> QED
        BY <3>2, <4>1, ReloadedIsWell
    <3> QED
      BY <2>1, <3>1, <3>2
  <2> QED
    BY <1>6, <2>1, <2>4, <2>7, <2>8, ChangingStep DEF SaveForm
<1>7. CASE DeleteSelected
  <2> DEFINE ps == Removed(view.list[view.sel].id)
  <2>1. \/ Written(ps) /\ \E l \in {ps, <<>>} : view' = [Cleared(view) EXCEPT !.list = l]
        \/ (Written(ps) \/ WriteCut(ps)) /\ UNCHANGED view
    BY <1>7 DEF DeleteSelected
  <2>2. UNCHANGED <<made, list, request>> /\ Given' = Given
    BY <1>7 DEF DeleteSelected, Given
  <2>3. made' \in 0 .. Len(Ids) /\ made <= made'
    BY <2>2, StoreConstants DEF IInv, TypeOK
  <2>4. IsStore(ps) /\ \A j \in DOMAIN ps : ps[j].id \in Given'
    BY <2>2, RemovedAreGiven
  <2> HIDE DEF ps
  <2>5. Well(view') /\ \A j \in DOMAIN view'.list : view'.list[j].id \in Given'
    <3>1. CASE view' = view
      BY <2>2, <3>1
    <3>2. ASSUME NEW l \in {ps, <<>>}, view' = [Cleared(view) EXCEPT !.list = l]
          PROVE  Well(view') /\ \A j \in DOMAIN view'.list : view'.list[j].id \in Given'
      <4>1. IsStore(l) /\ \A j \in DOMAIN l : l[j].id \in Given'
        BY <2>4, EmptyStore
      <4> QED
        BY <3>2, <4>1, ClearedIsWell
    <3> QED
      BY <2>1, <3>1, <3>2
  <2>6. Written(ps) \/ WriteCut(ps)
    BY <2>1
  <2> QED
    BY <2>2, <2>3, <2>4, <2>5, <2>6, ChangingStep
<1> QED
  BY <1>1, <1>2, <1>3, <1>4, <1>5, <1>6, <1>7 DEF Settings

LEMMA LookupStep ==
  ASSUME IInv, Crash \/ Restart \/ Connecting
  PROVE  IInv'
<1>1. CASE Crash
  <2>1. Given' = Given /\ up' = FALSE
    BY <1>1 DEF Crash, Given
  <2> QED
    BY <1>1, <2>1 DEF Crash, IInv, TypeOK, OnlyGiven, FormShowsSelected, FileIsStore
<1>2. CASE Restart
  <2>1. Given' = Given
    BY <1>2 DEF Restart, Given
  <2> QED
    BY <1>2, <2>1 DEF Restart, IInv, TypeOK, OnlyGiven, FormShowsSelected, FileIsStore
<1>3. CASE TrayFetches
  BY <1>3, ViewIsWell, LookingStep DEF TrayFetches
<1>4. CASE TrayConnects
  <2>1. request' \in Profiles
    BY <1>4 DEF TrayConnects, IInv, TypeOK, IsStore, ToSet
  <2> QED
    BY <1>4, <2>1, ViewIsWell, LookingStep DEF TrayConnects, OrNone
<1>5. CASE CliConnects
  <2>1. PICK i : i # None /\ request' = store[Position(store, i)] /\ \E q : i = FindProfile(store, q)
    BY <1>5 DEF CliConnects
  <2>2. store \in Seq(Profiles)
    BY DEF IInv, TypeOK, IsStore
  <2>3. PICK k \in DOMAIN store : i = store[k].id
    <3>1. PICK q : i = FindProfile(store, q)
      BY <2>1
    <3> DEFINE a == Position(store, q)
               b == Named(store, q, Alike)
               c == Named(store, q, Within)
    <3>2. a \in 0 .. Len(store) /\ b \in 0 .. Len(store) /\ c \in 0 .. Len(store)
      BY <2>2, PositionFinds, NamedFinds
    <3>3. i = LET k == IF a # 0 THEN a ELSE IF b # 0 THEN b ELSE c
              IN  IF k = 0 THEN None ELSE store[k].id
      BY <3>1 DEF FindProfile
    <3> HIDE DEF a, b, c
    <3> QED
      BY <2>1, <2>2, <3>2, <3>3
  <2>4. Position(store, i) \in DOMAIN store
    BY <2>2, <2>3, PositionFinds
  <2>5. request' \in Profiles
    BY <2>1, <2>2, <2>4
  <2> QED
    BY <1>5, <2>5, ViewIsWell, LookingStep DEF CliConnects, OrNone
<1>6. CASE Find
  BY <1>6, ViewIsWell, LookingStep DEF Find, OrNone
<1> QED
  BY <1>1, <1>2, <1>3, <1>4, <1>5, <1>6 DEF Connecting

LEMMA Invariance == Spec => []IInv
<1>1. ASSUME IInv, [Next]_vars PROVE IInv'
  <2>1. CASE UNCHANGED vars
    <3>1. UNCHANGED daemon /\ UNCHANGED <<view, list, request>>
      BY <2>1 DEF vars
    <3> QED
      BY <1>1, <3>1, ViewIsWell, LookingStep
  <2> QED
    BY <1>1, <2>1, OthersStep, SettingsStep, LookupStep DEF Next
<1> QED
  BY InitIInv, <1>1, PTL DEF Spec

-----------------------------------------------------------------------------
(* Theorems *)

\* Every variable keeps its type, and no list has an identity twice.
THEOREM TypeCorrect == Spec => []TypeOK
<1>1. IInv => TypeOK
  BY DEF IInv
<1> QED
  BY Invariance, <1>1, PTL

\* Only Restart starts the daemon.
LEMMA StartIsRestart ==
  ASSUME Next, ~up, up'
  PROVE  Restart
<1>1. Settings => UNCHANGED up \/ Serves
  BY DEF Settings, OpenSettings, CloseSettings, Select, NewProfile, EditForm, SaveForm,
         DeleteSelected, daemon
<1>2. Connecting => UNCHANGED up
  BY DEF Connecting, TrayFetches, TrayConnects, CliConnects, Find, daemon
<1>3. OtherSaves \/ OtherDeletes => Serves
  BY DEF OtherSaves, OtherDeletes
<1> QED
  BY <1>1, <1>2, <1>3 DEF Next, Crash, Serves

\* A restart after complete writes brings back every profile as it was.
THEOREM NothingLost == Spec => RestartKeeps
<1>1. ASSUME IInv, [Next]_vars
      PROVE  [~up /\ up' /\ ~cut => store' = store]_vars
  <2>1. CASE Next /\ ~up /\ up' /\ ~cut
    BY <1>1, <2>1, StartIsRestart DEF IInv, FileIsStore, Restart
  <2> QED
    BY <1>1, <2>1
<1> QED
  BY Invariance, <1>1, PTL DEF RestartKeeps, Spec

\* Saving gives no profile the fields of another, whatever the list has become.
THEOREM OnlyTheShownIsSaved == Spec => SaveTouchesTheShown
<1> DEFINE P == SaveForm =>
             \A k \in DOMAIN store : store'[k] # store[k] => store[k].id = view.of
<1>1. ASSUME IInv PROVE P
  <2> SUFFICES ASSUME SaveForm, NEW j \in DOMAIN store, store'[j] # store[j]
               PROVE  store[j].id = view.of
    OBVIOUS
  <2>1. PICK k \in DOMAIN Ids :
          /\ IF view.sel # 0 THEN Ids[k] = view.list[view.sel].id /\ UNCHANGED made
                             ELSE k = made + 1 /\ made' = k
          /\ store' = Saved(Profile(Ids[k], view.name))
    BY DEF SaveForm, Written, WriteCut
  <2> DEFINE p == Profile(Ids[k], view.name)
  <2>2. p \in Profiles /\ p.id = Ids[k]
    BY <1>1, NextIsNew DEF SaveForm, IInv, TypeOK, Views, OrNone, Profile, Profiles
  <2>3. store[j].id = Ids[k]
    BY <1>1, <2>1, <2>2, SavedKeeps DEF IInv
  <2>4. CASE view.sel # 0
    BY <1>1, <2>1, <2>3, <2>4 DEF IInv, FormShowsSelected
  <2>5. CASE view.sel = 0
    BY <1>1, <2>1, <2>3, <2>5, NextIsNew DEF IInv, OnlyGiven
  <2> QED
    BY <2>4, <2>5
<1>2. ASSUME IInv PROVE [P]_vars
  BY <1>1, <1>2
<1> QED
  BY Invariance, <1>2, PTL DEF SaveTouchesTheShown, Spec

\* A password meets its profile for as long as its name is unmistakable.
THEOREM PasswordsAreNotMixed == Spec => []PasswordMeetsItsProfile
<1>1. ASSUME IInv PROVE PasswordMeetsItsProfile
  <2> SUFFICES ASSUME request # None, NEW k \in DOMAIN store, store[k] = request,
                      \A j \in DOMAIN store : <<request.name, store[j].name>> \in Alike => j = k
               PROVE  Reached = request.id
    BY DEF PasswordMeetsItsProfile
  <2>1. store \in Seq(Profiles) /\ store[k] \in Profiles /\ store[k] = request
    BY <1>1 DEF IInv, TypeOK, IsStore
  <2>2. request.name \in Names /\ request.name \notin ToSet(Ids)
    BY <2>1, StoreConstants DEF Profiles
  <2>3. <<request.name, store[k].name>> \in Alike
    BY <2>1, <2>2, StoreConstants
  <2> DEFINE a == Position(store, request.name)
             b == Named(store, request.name, Alike)
             c == Named(store, request.name, Within)
  <2>4. /\ a \in 0 .. Len(store) /\ (a # 0 => store[a].id = request.name)
        /\ b \in 0 .. Len(store)
        /\ b = 0 => \A j \in DOMAIN store : <<request.name, store[j].name>> \notin Alike
        /\ b # 0 => <<request.name, store[b].name>> \in Alike
    BY <2>1, PositionFinds, NamedFinds
  <2>5. Reached = LET n == IF a # 0 THEN a ELSE IF b # 0 THEN b ELSE c
                  IN  IF n = 0 THEN None ELSE store[n].id
    BY DEF Reached, FindProfile
  <2> HIDE DEF a, b, c
  <2>6. DOMAIN store = 1 .. Len(store) /\ Len(store) \in Nat
    BY <2>1
  <2>7. a = 0
    <3>1. ASSUME a # 0 PROVE FALSE
      <4>1. a \in DOMAIN store
        BY <2>4, <2>6, <3>1
      <4>2. store[a] \in Profiles
        BY <2>1, <4>1
      <4>3. store[a].id \in ToSet(Ids)
        BY <4>2 DEF Profiles
      <4> QED
        BY <2>2, <2>4, <3>1, <4>3
    <3> QED
      BY <3>1
  <2>8. b = k
    BY <2>3, <2>4, <2>6
  <2>9. k # 0
    BY <2>6
  <2> QED
    BY <2>1, <2>5, <2>7, <2>8, <2>9
<1> QED
  BY Invariance, <1>1, PTL
=============================================================================
