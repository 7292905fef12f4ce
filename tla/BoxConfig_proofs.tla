-------------------------- MODULE BoxConfig_proofs --------------------------
(***************************************************************************)
(* For any number of boxes, organizations, pins and operators: a box that  *)
(* the hub answers "not modified" runs the hub's configuration of it; a    *)
(* box has one live secret at most, and on Postgres at most one of each    *)
(* operator's mints; a restart keeps the operator's layers.                *)
(***************************************************************************)
EXTENDS BoxConfig, FiniteSetTheorems, TLAPS

----------------------------------------------------------------------------
(* Databases.                                                               *)

OptId == ModelIds \cup {None}
OptValue == Values \cup {None}

Secret == [id : Nat, by : Admins]

Store ==
  [used : SUBSET BoxIds, boxes : [BoxIds -> BoxRow \cup {None}],
   boxOrgs : [BoxIds -> SUBSET Orgs], narrators : [BoxIds -> OptValue],
   tokens : [BoxIds -> SUBSET Secret], minted : Nat, orgs : [Orgs -> OrgRow],
   staff : [Staff -> OptValue], staffOverrides : [Orgs -> [Staff -> OptValue]],
   models : [ModelIds -> Pin \cup {None}], assignments : [Purposes -> OptId],
   overrides : [BoxIds -> [Purposes -> OptId]], limits : [Purposes -> OptValue],
   boxLimits : [BoxIds -> [Purposes -> OptValue]],
   assignmentsSeeded : BOOLEAN, limitsSeeded : BOOLEAN]

(* A row has a version, and its id counts as used.                          *)
GoodStore(d) ==
  /\ d \in Store
  /\ \A b \in BoxIds : Exists(d, b) => d.boxes[b].version >= 1 /\ b \in d.used

(* Pins that differ in the size an inspection learns.                       *)
SamePin(x, y) ==
  /\ x = None <=> y = None
  /\ x # None => [x EXCEPT !.size = 0] = [y EXCEPT !.size = 0]

(* Whatever a manifest of b is built from is the same in d and in e.        *)
SameParts(d, e, b) ==
  /\ d.boxes[b].fields = e.boxes[b].fields
  /\ ManifestOrgs(d, b) = ManifestOrgs(e, b)
  /\ d.narrators[b] \in {e.narrators[b], None}
  /\ \A p \in Purposes : ResolvedId(d, b, p) = ResolvedId(e, b, p)
  /\ \A p \in Purposes : ResolvedLimit(d, b, p) = ResolvedLimit(e, b, p)
  /\ \A m \in ModelIds : SamePin(d.models[m], e.models[m])

(* From d to e: no id is used again, no box is created under a used one, no *)
(* version goes back, and one that stands still stands for the same parts.  *)
Advances(d, e) ==
  /\ d.used \subseteq e.used
  /\ d.assignmentsSeeded => e.assignmentsSeeded
  /\ d.limitsSeeded => e.limitsSeeded
  /\ \A b \in d.used : Exists(e, b) =>
       /\ Exists(d, b)
       /\ d.boxes[b].version <= e.boxes[b].version
       /\ d.boxes[b].version = e.boxes[b].version => SameParts(d, e, b)

(* No secret becomes live.                                                  *)
Sheds(d, e) == \A b \in BoxIds : e.tokens[b] \subseteq d.tokens[b]

Result(d, e) == GoodStore(e) /\ Advances(d, e) /\ Sheds(d, e)

(* The rows a manifest of b is built from are those of d.                   *)
Keeps(d, e, b) ==
  /\ e.boxes[b] = d.boxes[b] /\ e.boxOrgs[b] = d.boxOrgs[b]
  /\ e.narrators[b] = d.narrators[b]
  /\ e.overrides[b] = d.overrides[b] /\ e.boxLimits[b] = d.boxLimits[b]
  /\ e.staff = d.staff /\ e.models = d.models
  /\ e.assignments = d.assignments /\ e.limits = d.limits
  /\ \A o \in d.boxOrgs[b] :
       e.orgs[o] = d.orgs[o] /\ e.staffOverrides[o] = d.staffOverrides[o]

----------------------------------------------------------------------------
(* What the relations between databases satisfy.                            *)

LEMMA KeepsParts ==
  ASSUME NEW d \in Store, NEW e \in Store, NEW b \in BoxIds, Keeps(d, e, b)
  PROVE  SameParts(d, e, b)
<1>1. ManifestOrgs(d, b) = ManifestOrgs(e, b)
  <2>1. \A o \in d.boxOrgs[b] : StaffForOrg(d, o) = StaffForOrg(e, o)
    BY DEF Keeps, StaffForOrg
  <2> QED
    BY <2>1 DEF Keeps, ManifestOrgs
<1>2. \A p \in Purposes : /\ ResolvedId(d, b, p) = ResolvedId(e, b, p)
                          /\ ResolvedLimit(d, b, p) = ResolvedLimit(e, b, p)
  BY DEF Keeps, ResolvedId, ResolvedLimit
<1>3. \A m \in ModelIds : SamePin(d.models[m], e.models[m])
  BY DEF Keeps, SamePin
<1> QED
  BY <1>1, <1>2, <1>3 DEF SameParts, Keeps

LEMMA SameHere == ASSUME NEW d, GoodStore(d) PROVE Result(d, d)
<1>1. \A b \in d.used : Exists(d, b) => d.boxes[b].version <= d.boxes[b].version
  BY DEF GoodStore, Store, Exists, GetBox, BoxRow
<1>2. \A b \in d.used : SameParts(d, d, b)
  BY DEF SameParts, SamePin
<1> QED
  BY <1>1, <1>2 DEF Result, Sheds, Advances

LEMMA PartsTransitive ==
  ASSUME NEW d, NEW e, NEW f, NEW b, SameParts(d, e, b), SameParts(e, f, b)
  PROVE  SameParts(d, f, b)
BY DEF SameParts, SamePin

LEMMA Transitive ==
  ASSUME NEW d, NEW e, NEW f, GoodStore(d), Result(d, e), Result(e, f)
  PROVE  Result(d, f)
<1> SUFFICES ASSUME NEW b \in d.used, Exists(f, b)
             PROVE /\ Exists(d, b) /\ d.boxes[b].version <= f.boxes[b].version
                   /\ d.boxes[b].version = f.boxes[b].version => SameParts(d, f, b)
  BY DEF Result, Sheds, Advances
<1>1. /\ b \in BoxIds /\ Exists(e, b) /\ Exists(d, b)
      /\ d.boxes[b].version <= e.boxes[b].version
      /\ e.boxes[b].version <= f.boxes[b].version
      /\ d.boxes[b].version = e.boxes[b].version => SameParts(d, e, b)
      /\ e.boxes[b].version = f.boxes[b].version => SameParts(e, f, b)
  BY DEF Result, Sheds, Advances, GoodStore, Store
<1>2. /\ d.boxes[b].version \in Nat /\ e.boxes[b].version \in Nat
      /\ f.boxes[b].version \in Nat
  BY <1>1 DEF Result, GoodStore, Store, Exists, GetBox, BoxRow
<1> QED
  BY <1>1, <1>2, PartsTransitive

----------------------------------------------------------------------------
(* The version.                                                             *)

LEMMA BumpRows ==
  ASSUME NEW d \in Store, NEW S \in SUBSET BoxIds
  PROVE  /\ Bump(d, S) \in Store
         /\ \A b \in BoxIds :
              /\ Exists(Bump(d, S), b) <=> Exists(d, b)
              /\ b \notin S => Bump(d, S).boxes[b] = d.boxes[b]
              /\ Exists(d, b) /\ b \in S =>
                   Bump(d, S).boxes[b].version = d.boxes[b].version + 1
         /\ Bump(d, S).used = d.used
         /\ Bump(d, S).boxOrgs = d.boxOrgs /\ Bump(d, S).narrators = d.narrators
         /\ Bump(d, S).tokens = d.tokens /\ Bump(d, S).minted = d.minted
         /\ Bump(d, S).orgs = d.orgs /\ Bump(d, S).staff = d.staff
         /\ Bump(d, S).staffOverrides = d.staffOverrides /\ Bump(d, S).models = d.models
         /\ Bump(d, S).assignments = d.assignments /\ Bump(d, S).overrides = d.overrides
         /\ Bump(d, S).limits = d.limits /\ Bump(d, S).boxLimits = d.boxLimits
         /\ Bump(d, S).assignmentsSeeded = d.assignmentsSeeded
         /\ Bump(d, S).limitsSeeded = d.limitsSeeded
<1> DEFINE rows == [b \in BoxIds |->
                      IF b \in S /\ Exists(d, b)
                        THEN [d.boxes[b] EXCEPT !.version = @ + 1] ELSE d.boxes[b]]
<1>1. ASSUME NEW b \in BoxIds
      PROVE  /\ rows[b] \in BoxRow \cup {None}
             /\ rows[b] # None <=> Exists(d, b)
             /\ b \notin S => rows[b] = d.boxes[b]
             /\ Exists(d, b) /\ b \in S => rows[b].version = d.boxes[b].version + 1
  <2>1. d.boxes[b] \in BoxRow \cup {None}
    BY DEF Store
  <2>2. CASE d.boxes[b] = None
    BY <2>1, <2>2 DEF Exists, GetBox
  <2>3. CASE d.boxes[b] # None
    <3>1. [d.boxes[b] EXCEPT !.version = @ + 1] \in BoxRow
      BY <2>1, <2>3 DEF BoxRow
    <3>2. [d.boxes[b] EXCEPT !.version = @ + 1].version = d.boxes[b].version + 1
      BY <2>1, <2>3 DEF BoxRow
    <3> QED
      BY <2>1, <2>3, <3>1, <3>2, NoRow DEF Exists, GetBox
  <2> QED
    BY <2>2, <2>3
<1>2. rows \in [BoxIds -> BoxRow \cup {None}]
  BY <1>1
<1>3. Bump(d, S) = [d EXCEPT !.boxes = rows]
  BY DEF Bump
<1> HIDE DEF rows
<1>4. Bump(d, S) \in Store /\ Bump(d, S).boxes = rows
  BY <1>2, <1>3 DEF Store
<1> QED
  BY <1>1, <1>3, <1>4 DEF Store, Exists, GetBox

(* An edit that advances the boxes of S is good when it leaves the others   *)
(* what their manifests are built from.                                     *)
LEMMA BumpAdvances ==
  ASSUME NEW d, GoodStore(d), NEW e \in Store, NEW S \in SUBSET BoxIds,
         e.used = d.used, e.tokens = d.tokens,
         d.assignmentsSeeded => e.assignmentsSeeded, d.limitsSeeded => e.limitsSeeded,
         \A b \in BoxIds : /\ Exists(e, b) <=> Exists(d, b)
                           /\ Exists(d, b) => e.boxes[b].version = d.boxes[b].version,
         \A b \in BoxIds : b \notin S => Keeps(d, e, b)
  PROVE  Result(d, Bump(e, S))
<1> DEFINE f == Bump(e, S)
<1>1. \A b \in BoxIds : Exists(d, b) =>
         /\ d.boxes[b].version \in Nat /\ d.boxes[b].version >= 1 /\ b \in d.used
         /\ f.boxes[b].version = d.boxes[b].version + (IF b \in S THEN 1 ELSE 0)
  <2> SUFFICES ASSUME NEW b \in BoxIds, Exists(d, b)
               PROVE  /\ d.boxes[b].version \in Nat /\ d.boxes[b].version >= 1 /\ b \in d.used
                      /\ f.boxes[b].version = d.boxes[b].version + (IF b \in S THEN 1 ELSE 0)
    OBVIOUS
  <2>1. d.boxes[b].version \in Nat /\ d.boxes[b].version >= 1 /\ b \in d.used
    BY DEF GoodStore, Store, Exists, GetBox, BoxRow
  <2>2. CASE b \in S
    BY <2>1, <2>2, BumpRows
  <2>3. CASE b \notin S
    BY <2>1, <2>3, BumpRows
  <2> QED
    BY <2>1, <2>2, <2>3
<1>2. GoodStore(f)
  BY <1>1, BumpRows DEF GoodStore
<1>3. \A b \in BoxIds : Exists(f, b) <=> Exists(d, b)
  BY BumpRows
<1>4. ASSUME NEW b \in BoxIds, b \notin S PROVE SameParts(d, f, b)
  <2>1. Keeps(d, f, b)
    BY <1>4, BumpRows DEF Keeps
  <2> QED
    BY <2>1, KeepsParts, BumpRows DEF GoodStore
<1>5. ASSUME NEW b \in d.used, Exists(f, b)
      PROVE  /\ Exists(d, b) /\ d.boxes[b].version <= f.boxes[b].version
             /\ d.boxes[b].version = f.boxes[b].version => SameParts(d, f, b)
  <2>1. b \in BoxIds /\ Exists(d, b)
    BY <1>3, <1>5 DEF GoodStore, Store
  <2>2. CASE b \in S
    BY <1>1, <2>1, <2>2
  <2>3. CASE b \notin S
    BY <1>1, <1>4, <2>1, <2>3
  <2> QED
    BY <2>2, <2>3
<1> QED
  BY <1>2, <1>5, BumpRows DEF Result, Sheds, Advances

(* The same, when every box advances and no row of boxes was touched.       *)
LEMMA BumpAllAdvances ==
  ASSUME NEW d, GoodStore(d), NEW e \in Store,
         e.used = d.used, e.tokens = d.tokens, e.boxes = d.boxes,
         d.assignmentsSeeded => e.assignmentsSeeded, d.limitsSeeded => e.limitsSeeded
  PROVE  Result(d, bumpAllBoxes(e))
BY BumpAdvances DEF bumpAllBoxes, Exists, GetBox

----------------------------------------------------------------------------
(* Boxes and their secrets.                                                 *)

LEMMA InsertBoxAdvances ==
  ASSUME NEW d, GoodStore(d), NEW b \in BoxIds, b \notin d.used
  PROVE  Result(d, InsertBox(d, b))
<1> DEFINE e == InsertBox(d, b)
<1>0. d \in Store
  BY DEF GoodStore
<1>1. [version |-> 1, fields |-> 0] \in BoxRow
  BY Defaults DEF BoxRow
<1>2. /\ e \in Store /\ e.boxes[b] = [version |-> 1, fields |-> 0]
      /\ e.used = d.used \cup {b} /\ e.tokens = d.tokens
      /\ e.assignmentsSeeded = d.assignmentsSeeded /\ e.limitsSeeded = d.limitsSeeded
  BY <1>0, <1>1 DEF Store, InsertBox
<1>3. \A c \in BoxIds : c # b => Keeps(d, e, c)
  BY DEF GoodStore, Store, InsertBox, Keeps
<1>4. \A c \in BoxIds : c # b => SameParts(d, e, c)
  BY <1>2, <1>3, KeepsParts DEF GoodStore
<1>5. \A c \in BoxIds : c # b => e.boxes[c] = d.boxes[c]
  BY <1>3 DEF Keeps
<1> HIDE DEF e
<1>6. GoodStore(e)
  BY <1>2, <1>5 DEF GoodStore, Exists, GetBox
<1>7. \A c \in BoxIds : Exists(d, c) => d.boxes[c].version \in Nat
  BY DEF GoodStore, Store, BoxRow, Exists, GetBox
<1>8. \A c \in d.used : c \in BoxIds /\ c # b
  BY DEF GoodStore, Store
<1>9. Result(d, e)
  BY <1>2, <1>4, <1>5, <1>6, <1>7, <1>8 DEF Result, Sheds, Advances, Exists, GetBox
<1> QED
  BY <1>9 DEF e

(* A narrator nobody had read: a manifest that has none is as good.         *)
LEMMA SeedNarratorAdvances ==
  ASSUME NEW d, GoodStore(d), NEW b \in BoxIds
  PROVE  Result(d, EnsureSeedNarrator(d, b))
<1> DEFINE e == [d EXCEPT !.narrators[b] = 0]
<1>1. CASE d.narrators[b] # None
  BY <1>1, SameHere DEF EnsureSeedNarrator
<1>2. CASE d.narrators[b] = None
  <2>1. /\ e \in Store /\ e.used = d.used /\ e.tokens = d.tokens /\ e.boxes = d.boxes
        /\ e.assignmentsSeeded = d.assignmentsSeeded /\ e.limitsSeeded = d.limitsSeeded
    BY Defaults DEF GoodStore, Store, OptValue
  <2>2. \A c \in BoxIds : c # b => Keeps(d, e, c)
    BY DEF GoodStore, Store, Keeps
  <2>3. SameParts(d, e, b)
    <3>1. ManifestOrgs(d, b) = ManifestOrgs(e, b)
      BY DEF ManifestOrgs, StaffForOrg, GoodStore, Store
    <3> QED
      BY <1>2, <3>1 DEF SameParts, SamePin, ResolvedId, ResolvedLimit, GoodStore, Store
  <2>4. \A c \in BoxIds : SameParts(d, e, c)
    BY <2>1, <2>2, <2>3, KeepsParts DEF GoodStore
  <2> HIDE DEF e
  <2>5. GoodStore(e)
    BY <2>1 DEF GoodStore, Exists, GetBox
  <2>6. \A c \in d.used : c \in BoxIds /\ (Exists(d, c) => d.boxes[c].version \in Nat)
    BY DEF GoodStore, Store, BoxRow, Exists, GetBox
  <2>7. Result(d, e)
    BY <2>1, <2>4, <2>5, <2>6 DEF Result, Sheds, Advances, Exists, GetBox
  <2> QED
    BY <1>2, <2>7 DEF EnsureSeedNarrator, e
<1> QED
  BY <1>1, <1>2

LEMMA UpdateBoxAdvances ==
  ASSUME NEW d, GoodStore(d), NEW b \in BoxIds, NEW v \in Values, Exists(d, b)
  PROVE  Result(d, UpdateBox(d, b, v))
<1> DEFINE e == [d EXCEPT !.boxes[b].fields = v]
<1>1. d.boxes[b] \in BoxRow
  BY DEF GoodStore, Store, Exists, GetBox
<1>2. /\ [d.boxes[b] EXCEPT !.fields = v] \in BoxRow
      /\ [d.boxes[b] EXCEPT !.fields = v].version = d.boxes[b].version
  BY <1>1 DEF BoxRow
<1>3. /\ e \in Store /\ e.used = d.used /\ e.tokens = d.tokens
      /\ e.boxes[b] = [d.boxes[b] EXCEPT !.fields = v]
      /\ e.assignmentsSeeded = d.assignmentsSeeded /\ e.limitsSeeded = d.limitsSeeded
  BY <1>2 DEF GoodStore, Store
<1>4. \A c \in BoxIds : c # b => Keeps(d, e, c)
  BY DEF GoodStore, Store, Keeps
<1>5. e.boxes[b] # None
  BY <1>2, <1>3, NoRow
<1> HIDE DEF e
<1>6. ASSUME NEW c \in BoxIds
      PROVE  /\ Exists(e, c) <=> Exists(d, c)
             /\ Exists(d, c) => e.boxes[c].version = d.boxes[c].version
             /\ c \notin {b} => Keeps(d, e, c)
  <2>1. CASE c = b
    BY <1>2, <1>3, <1>5, <2>1 DEF Exists, GetBox
  <2>2. CASE c # b
    BY <1>4, <2>2 DEF Exists, GetBox, Keeps
  <2> QED
    BY <2>1, <2>2
<1>7. {b} \in SUBSET BoxIds
  OBVIOUS
<1>8. Result(d, Bump(e, {b}))
  BY <1>3, <1>6, <1>7, BumpAdvances
<1> QED
  BY <1>8 DEF UpdateBox, bumpBoxConfig, e

(* An edit of one box's own rows.                                           *)
LEMMA OneBoxAdvances ==
  ASSUME NEW d, GoodStore(d), NEW b \in BoxIds, NEW e \in Store,
         e.used = d.used, e.tokens = d.tokens, e.boxes = d.boxes,
         d.assignmentsSeeded => e.assignmentsSeeded, d.limitsSeeded => e.limitsSeeded,
         \A c \in BoxIds : c # b => Keeps(d, e, c)
  PROVE  Result(d, bumpBoxConfig(e, b))
BY BumpAdvances DEF bumpBoxConfig, Exists, GetBox

LEMMA BoxRowsAdvance ==
  ASSUME NEW d, GoodStore(d), NEW b \in BoxIds
  PROVE  /\ \A os \in SUBSET Orgs : Result(d, SetBoxOrgs(d, b, os))
         /\ \A v \in Values : Result(d, UpdateBoxNarrator(d, b, v))
         /\ \A p \in Purposes, v \in Values : Result(d, SetBoxLimit(d, b, p, v))
         /\ \A p \in Purposes : Result(d, ClearBoxLimit(d, b, p))
         /\ \A p \in Purposes, m \in ModelIds : Result(d, SetBoxModelOverride(d, b, p, m))
         /\ \A p \in Purposes : Result(d, ClearBoxModelOverride(d, b, p))
<1> DEFINE Own(e) == /\ e \in Store /\ e.used = d.used /\ e.tokens = d.tokens
                     /\ e.boxes = d.boxes /\ e.assignmentsSeeded = d.assignmentsSeeded
                     /\ e.limitsSeeded = d.limitsSeeded
                     /\ \A c \in BoxIds : c # b => Keeps(d, e, c)
<1>1. \A e : Own(e) => Result(d, bumpBoxConfig(e, b))
  BY OneBoxAdvances
<1>2. \A os \in SUBSET Orgs : Own([d EXCEPT !.boxOrgs[b] = os])
  BY DEF GoodStore, Store, Keeps
<1>3. \A v \in Values : Own([d EXCEPT !.narrators[b] = v])
  BY DEF GoodStore, Store, Keeps, OptValue
<1>4. \A p \in Purposes, v \in OptValue : Own([d EXCEPT !.boxLimits[b][p] = v])
  <2> SUFFICES ASSUME NEW p \in Purposes, NEW v \in OptValue
               PROVE  Own([d EXCEPT !.boxLimits[b][p] = v])
    OBVIOUS
  <2>1. [d.boxLimits[b] EXCEPT ![p] = v] \in [Purposes -> OptValue]
    BY DEF GoodStore, Store
  <2> DEFINE e == [d EXCEPT !.boxLimits[b] = [d.boxLimits[b] EXCEPT ![p] = v]]
  <2>2. e \in Store
    BY <2>1 DEF GoodStore, Store
  <2>3. [d EXCEPT !.boxLimits[b][p] = v] = e
    BY DEF GoodStore, Store
  <2>4. \A c \in BoxIds : c # b => Keeps(d, e, c)
    BY DEF GoodStore, Store, Keeps
  <2>5. /\ e.used = d.used /\ e.tokens = d.tokens /\ e.boxes = d.boxes
        /\ e.assignmentsSeeded = d.assignmentsSeeded /\ e.limitsSeeded = d.limitsSeeded
    BY DEF GoodStore, Store
  <2> QED
    BY <2>2, <2>3, <2>4, <2>5
<1>5. \A p \in Purposes, m \in OptId : Own([d EXCEPT !.overrides[b][p] = m])
  <2> SUFFICES ASSUME NEW p \in Purposes, NEW v \in OptId
               PROVE  Own([d EXCEPT !.overrides[b][p] = v])
    OBVIOUS
  <2>1. [d.overrides[b] EXCEPT ![p] = v] \in [Purposes -> OptId]
    BY DEF GoodStore, Store
  <2> DEFINE e == [d EXCEPT !.overrides[b] = [d.overrides[b] EXCEPT ![p] = v]]
  <2>2. e \in Store
    BY <2>1 DEF GoodStore, Store
  <2>3. [d EXCEPT !.overrides[b][p] = v] = e
    BY DEF GoodStore, Store
  <2>4. \A c \in BoxIds : c # b => Keeps(d, e, c)
    BY DEF GoodStore, Store, Keeps
  <2>5. /\ e.used = d.used /\ e.tokens = d.tokens /\ e.boxes = d.boxes
        /\ e.assignmentsSeeded = d.assignmentsSeeded /\ e.limitsSeeded = d.limitsSeeded
    BY DEF GoodStore, Store
  <2> QED
    BY <2>2, <2>3, <2>4, <2>5
<1>6. None \in OptValue /\ None \in OptId /\ Values \subseteq OptValue /\ ModelIds \subseteq OptId
  BY DEF OptValue, OptId
<1> HIDE DEF Own
<1> QED
  BY <1>1, <1>2, <1>3, <1>4, <1>5, <1>6, SameHere
     DEF SetBoxOrgs, UpdateBoxNarrator, SetBoxLimit, ClearBoxLimit, SetBoxModelOverride,
         ClearBoxModelOverride

LEMMA DeleteBoxAdvances ==
  ASSUME NEW d, GoodStore(d), NEW b \in BoxIds
  PROVE  Result(d, DeleteBox(d, b))
<1> DEFINE e == DeleteBox(d, b)
<1>0. d \in Store
  BY DEF GoodStore
<1>1. /\ e \in Store /\ e.used = d.used /\ e.boxes[b] = None /\ e.tokens[b] = {}
      /\ \A c \in BoxIds : c # b => Keeps(d, e, c) /\ e.tokens[c] = d.tokens[c]
      /\ e.assignmentsSeeded = d.assignmentsSeeded /\ e.limitsSeeded = d.limitsSeeded
  BY <1>0 DEF Store, DeleteBox, OptId, OptValue, Keeps
<1> HIDE DEF e
<1>2. \A c \in BoxIds : c # b => SameParts(d, e, c) /\ e.boxes[c] = d.boxes[c]
  BY <1>1, KeepsParts DEF GoodStore, Keeps
<1>3. GoodStore(e)
  BY <1>1, <1>2 DEF GoodStore, Exists, GetBox
<1>4. \A c \in d.used : c \in BoxIds /\ (Exists(d, c) => d.boxes[c].version \in Nat)
  BY DEF GoodStore, Store, BoxRow, Exists, GetBox
<1> QED
  BY <1>1, <1>2, <1>3, <1>4 DEF Result, Sheds, Advances, Exists, GetBox, e

(* Minting and revoking leave every row a manifest is built from.           *)
LEMMA TokensAdvance ==
  ASSUME NEW d, GoodStore(d), NEW b \in BoxIds
  PROVE  /\ \A a \in Admins, seen \in SUBSET Secret : LET e == CreateBoxToken(d, a, b, seen) IN
              /\ GoodStore(e) /\ Advances(d, e)
              /\ e.tokens = [d.tokens EXCEPT ![b] =
                              (@ \ seen) \cup {[id |-> d.minted + 1, by |-> a]}]
         /\ \A t : Result(d, RevokeBoxToken(d, b, t))
<1> DEFINE Same(e) == /\ e \in Store /\ e.used = d.used
                      /\ \A c \in BoxIds : Keeps(d, e, c)
                      /\ e.assignmentsSeeded = d.assignmentsSeeded
                      /\ e.limitsSeeded = d.limitsSeeded
<1>0. d \in Store
  BY DEF GoodStore
<1>1. ASSUME NEW e, Same(e) PROVE GoodStore(e) /\ Advances(d, e)
  <2>1. \A c \in BoxIds : SameParts(d, e, c) /\ e.boxes[c] = d.boxes[c]
    BY <1>1, KeepsParts DEF GoodStore, Keeps
  <2>2. GoodStore(e)
    BY <1>1, <2>1 DEF GoodStore, Exists, GetBox
  <2>3. \A c \in d.used : c \in BoxIds /\ (Exists(d, c) => d.boxes[c].version \in Nat)
    BY DEF GoodStore, Store, BoxRow, Exists, GetBox
  <2> QED
    BY <1>1, <2>1, <2>2, <2>3 DEF Advances, Exists, GetBox
<1>2. ASSUME NEW a \in Admins, NEW seen \in SUBSET Secret
      PROVE  LET e == CreateBoxToken(d, a, b, seen) IN
             /\ Same(e)
             /\ e.tokens = [d.tokens EXCEPT ![b] =
                             (@ \ seen) \cup {[id |-> d.minted + 1, by |-> a]}]
  <2>1. d.minted + 1 \in Nat /\ [id |-> d.minted + 1, by |-> a] \in Secret
    BY <1>0 DEF Store, Secret
  <2>2. (d.tokens[b] \ seen) \cup {[id |-> d.minted + 1, by |-> a]} \in SUBSET Secret
    BY <1>0, <2>1 DEF Store
  <2> QED
    BY <1>0, <2>1, <2>2 DEF Store, CreateBoxToken, Keeps
<1>3. ASSUME NEW t PROVE Same(RevokeBoxToken(d, b, t)) /\ Sheds(d, RevokeBoxToken(d, b, t))
  <2>1. d.tokens[b] \ {t} \in SUBSET Secret
    BY <1>0 DEF Store
  <2> QED
    BY <1>0, <2>1 DEF Store, RevokeBoxToken, Keeps, Sheds
<1>4. \A a \in Admins, seen \in SUBSET Secret : LET e == CreateBoxToken(d, a, b, seen) IN
        /\ GoodStore(e) /\ Advances(d, e)
        /\ e.tokens = [d.tokens EXCEPT ![b] =
                        (@ \ seen) \cup {[id |-> d.minted + 1, by |-> a]}]
  BY <1>1, <1>2
<1>5. \A t : Result(d, RevokeBoxToken(d, b, t))
  BY <1>1, <1>3 DEF Result
<1> QED
  BY <1>4, <1>5

----------------------------------------------------------------------------
(* Organizations and staff.                                                 *)

LEMMA OrgAdvances ==
  ASSUME NEW d, GoodStore(d), NEW o \in Orgs, NEW e \in Store,
         e = [d EXCEPT !.orgs = e.orgs, !.staffOverrides = e.staffOverrides],
         \A q \in Orgs : q # o => /\ e.orgs[q] = d.orgs[q]
                                  /\ e.staffOverrides[q] = d.staffOverrides[q]
  PROVE  Result(d, bumpConfigForOrg(e, o))
<1> DEFINE S == {b \in BoxIds : o \in e.boxOrgs[b]}
<1>1. /\ e.used = d.used /\ e.tokens = d.tokens /\ e.boxes = d.boxes
      /\ e.boxOrgs = d.boxOrgs /\ e.narrators = d.narrators /\ e.overrides = d.overrides
      /\ e.boxLimits = d.boxLimits /\ e.staff = d.staff /\ e.models = d.models
      /\ e.assignments = d.assignments /\ e.limits = d.limits
      /\ e.assignmentsSeeded = d.assignmentsSeeded /\ e.limitsSeeded = d.limitsSeeded
  BY DEF GoodStore, Store
<1>2. \A b \in BoxIds : d.boxOrgs[b] \subseteq Orgs
  BY DEF GoodStore, Store
<1>3. \A b \in BoxIds : b \notin S => Keeps(d, e, b)
  BY <1>1, <1>2 DEF Keeps
<1>4. S \in SUBSET BoxIds
  OBVIOUS
<1> HIDE DEF S
<1>5. Result(d, Bump(e, S))
  BY <1>1, <1>3, <1>4, BumpAdvances DEF Exists, GetBox
<1> QED
  BY <1>5 DEF bumpConfigForOrg, S

LEMMA OrgsAdvance ==
  ASSUME NEW d, GoodStore(d), NEW o \in Orgs
  PROVE  /\ \A v \in Values : Result(d, RenameOrg(d, o, v))
         /\ \A v \in Values : Result(d, SetOrgLevel(d, o, v))
         /\ \A s \in Staff, v \in Values : Result(d, SetOrgStaffOverride(d, o, s, v))
         /\ \A s \in Staff : Result(d, ClearOrgStaffOverride(d, o, s))
<1> DEFINE Row(r) == [d EXCEPT !.orgs[o] = r]
           Layer(l) == [d EXCEPT !.staffOverrides[o] = l]
<1>1. ASSUME NEW r \in OrgRow PROVE Result(d, bumpConfigForOrg(Row(r), o))
  <2>1. /\ Row(r) \in Store
        /\ Row(r) = [d EXCEPT !.orgs = Row(r).orgs, !.staffOverrides = Row(r).staffOverrides]
        /\ \A q \in Orgs : q # o => /\ Row(r).orgs[q] = d.orgs[q]
                                    /\ Row(r).staffOverrides[q] = d.staffOverrides[q]
    BY DEF GoodStore, Store
  <2> HIDE DEF Row
  <2> QED
    BY <2>1, OrgAdvances
<1>2. ASSUME NEW l \in [Staff -> OptValue] PROVE Result(d, bumpConfigForOrg(Layer(l), o))
  <2>1. /\ Layer(l) \in Store
        /\ Layer(l) = [d EXCEPT !.orgs = Layer(l).orgs,
                                !.staffOverrides = Layer(l).staffOverrides]
        /\ \A q \in Orgs : q # o => /\ Layer(l).orgs[q] = d.orgs[q]
                                    /\ Layer(l).staffOverrides[q] = d.staffOverrides[q]
    BY DEF GoodStore, Store
  <2> HIDE DEF Layer
  <2> QED
    BY <2>1, OrgAdvances
<1>3. d.orgs[o] \in OrgRow /\ d.staffOverrides[o] \in [Staff -> OptValue]
  BY DEF GoodStore, Store
<1>4. ASSUME NEW v \in Values
      PROVE  Result(d, RenameOrg(d, o, v)) /\ Result(d, SetOrgLevel(d, o, v))
  <2>1. [d.orgs[o] EXCEPT !.name = v] \in OrgRow /\ [d.orgs[o] EXCEPT !.level = v] \in OrgRow
    BY <1>3 DEF OrgRow
  <2>2. /\ [d EXCEPT !.orgs[o].name = v] = Row([d.orgs[o] EXCEPT !.name = v])
        /\ [d EXCEPT !.orgs[o].level = v] = Row([d.orgs[o] EXCEPT !.level = v])
    BY DEF GoodStore, Store
  <2> HIDE DEF Row
  <2> QED
    BY <1>1, <2>1, <2>2 DEF RenameOrg, SetOrgLevel
<1>5. ASSUME NEW s \in Staff, NEW v \in OptValue
      PROVE  Result(d, bumpConfigForOrg([d EXCEPT !.staffOverrides[o][s] = v], o))
  <2>1. [d.staffOverrides[o] EXCEPT ![s] = v] \in [Staff -> OptValue]
    BY <1>3
  <2>2. [d EXCEPT !.staffOverrides[o][s] = v] = Layer([d.staffOverrides[o] EXCEPT ![s] = v])
    BY DEF GoodStore, Store
  <2> HIDE DEF Layer
  <2> QED
    BY <1>2, <2>1, <2>2
<1> QED
  BY <1>4, <1>5 DEF SetOrgStaffOverride, ClearOrgStaffOverride, OptValue

----------------------------------------------------------------------------
(* The rosters every box reads: all of them advance.                        *)

LEMMA RostersAdvance ==
  ASSUME NEW d, GoodStore(d)
  PROVE  /\ \A s \in Staff, v \in Values : Result(d, UpsertStaff(d, s, v))
         /\ \A m \in ModelIds, pin \in Pin : Result(d, CreateModel(d, m, pin))
         /\ \A m \in ModelIds, pin \in Pin : Result(d, UpdateModel(d, m, pin))
         /\ \A m \in ModelIds : Result(d, DeleteModel(d, m))
         /\ \A p \in Purposes, m \in ModelIds : Result(d, SetAssignment(d, p, m))
         /\ \A p \in Purposes : Result(d, ClearAssignment(d, p))
         /\ \A p \in Purposes, v \in Values : Result(d, SetLimit(d, p, v))
         /\ \A p \in Purposes : Result(d, ClearLimit(d, p))
<1> DEFINE Roster(e) == /\ e \in Store /\ e.used = d.used /\ e.tokens = d.tokens
                        /\ e.boxes = d.boxes
                        /\ e.assignmentsSeeded = d.assignmentsSeeded
                        /\ e.limitsSeeded = d.limitsSeeded
<1>1. \A e : Roster(e) => Result(d, bumpAllBoxes(e))
  BY BumpAllAdvances
<1>2. \A s \in Staff, v \in OptValue : Roster([d EXCEPT !.staff[s] = v])
  BY DEF GoodStore, Store
<1>3. \A m \in ModelIds, pin \in Pin \cup {None} : Roster([d EXCEPT !.models[m] = pin])
  BY DEF GoodStore, Store
<1>4. \A p \in Purposes, m \in OptId : Roster([d EXCEPT !.assignments[p] = m])
  BY DEF GoodStore, Store
<1>5. \A p \in Purposes, v \in OptValue : Roster([d EXCEPT !.limits[p] = v])
  BY DEF GoodStore, Store
<1> HIDE DEF Roster
<1>6. None \in OptValue /\ None \in OptId /\ Values \subseteq OptValue /\ ModelIds \subseteq OptId
  BY DEF OptValue, OptId
<1>7. ASSUME NEW m \in ModelIds, NEW pin \in Pin PROVE Result(d, UpdateModel(d, m, pin))
  <2>1. CASE d.models[m] = None
    BY <2>1, SameHere DEF UpdateModel
  <2>2. CASE d.models[m] # None
    <3>1. d.models[m].size \in Values
      BY <2>2 DEF GoodStore, Store, Pin
    <3>2. [pin EXCEPT !.size = d.models[m].size] \in Pin
      BY <3>1 DEF Pin
    <3> QED
      BY <1>1, <1>3, <2>2, <3>2 DEF UpdateModel
  <2> QED
    BY <2>1, <2>2
<1>8. \A m \in ModelIds : Result(d, DeleteModel(d, m))
  BY <1>1, <1>3, SameHere DEF DeleteModel
<1>9. \A m \in ModelIds, pin \in Pin : Result(d, CreateModel(d, m, pin))
  BY <1>1, <1>3 DEF CreateModel
<1>10. /\ \A s \in Staff, v \in Values : Result(d, UpsertStaff(d, s, v))
       /\ \A p \in Purposes, m \in ModelIds : Result(d, SetAssignment(d, p, m))
       /\ \A p \in Purposes, v \in Values : Result(d, SetLimit(d, p, v))
  BY <1>1, <1>2, <1>4, <1>5, <1>6 DEF UpsertStaff, SetAssignment, SetLimit
<1>11. /\ \A p \in Purposes : Result(d, ClearAssignment(d, p))
       /\ \A p \in Purposes : Result(d, ClearLimit(d, p))
  BY <1>1, <1>4, <1>5, <1>6, SameHere DEF ClearAssignment, ClearLimit
<1> QED
  BY <1>7, <1>8, <1>9, <1>10, <1>11

(* What an inspection learns is not compared.                               *)
LEMMA InspectionAdvances ==
  ASSUME NEW d, GoodStore(d), NEW m \in ModelIds, NEW size \in Values
  PROVE  Result(d, SetModelMeta(d, m, size))
<1> DEFINE pin == [d.models[m] EXCEPT !.size = size]
           e == [d EXCEPT !.models[m] = pin]
<1>1. CASE d.models[m] = None
  BY <1>1, SameHere DEF SetModelMeta
<1>2. CASE d.models[m] # None
  <2>1. d.models[m] \in Pin
    BY <1>2 DEF GoodStore, Store
  <2>2. pin \in Pin /\ SamePin(d.models[m], pin)
    BY <1>2, <2>1, NoRow DEF Pin, SamePin
  <2> HIDE DEF pin
  <2>3. /\ e \in Store /\ e.used = d.used /\ e.tokens = d.tokens /\ e.boxes = d.boxes
        /\ e.assignmentsSeeded = d.assignmentsSeeded /\ e.limitsSeeded = d.limitsSeeded
        /\ e.boxOrgs = d.boxOrgs /\ e.narrators = d.narrators /\ e.overrides = d.overrides
        /\ e.boxLimits = d.boxLimits /\ e.staff = d.staff /\ e.orgs = d.orgs
        /\ e.assignments = d.assignments /\ e.limits = d.limits
        /\ e.staffOverrides = d.staffOverrides
        /\ e.models[m] = pin /\ \A n \in ModelIds : n # m => e.models[n] = d.models[n]
    BY <2>2 DEF GoodStore, Store
  <2> HIDE DEF e
  <2>4. \A n \in ModelIds : SamePin(d.models[n], e.models[n])
    BY <2>2, <2>3 DEF SamePin
  <2>5. \A c \in BoxIds : SameParts(d, e, c)
    <3> SUFFICES ASSUME NEW c \in BoxIds PROVE SameParts(d, e, c)
      OBVIOUS
    <3>1. ManifestOrgs(d, c) = ManifestOrgs(e, c)
      BY <2>3 DEF ManifestOrgs, StaffForOrg
    <3> QED
      BY <2>3, <2>4, <3>1 DEF SameParts, ResolvedId, ResolvedLimit
  <2>6. GoodStore(e)
    BY <2>3 DEF GoodStore, Exists, GetBox
  <2>7. \A c \in d.used : c \in BoxIds /\ (Exists(d, c) => d.boxes[c].version \in Nat)
    BY DEF GoodStore, Store, BoxRow, Exists, GetBox
  <2>8. Result(d, e)
    BY <2>3, <2>5, <2>6, <2>7 DEF Result, Sheds, Advances, Exists, GetBox
  <2>9. e = [d EXCEPT !.models[m].size = size]
    BY DEF e, pin, GoodStore, Store
  <2> QED
    BY <1>2, <2>8, <2>9 DEF SetModelMeta
<1> QED
  BY <1>1, <1>2

----------------------------------------------------------------------------
(* The open of the store.                                                   *)

Seeded(d) == d.assignmentsSeeded /\ d.limitsSeeded

SameLayers(d, e) == e.assignments = d.assignments /\ e.limits = d.limits

LEMMA FactoryPin == ASSUME NEW m \in DOMAIN FactoryModels PROVE Factory(m) \in Pin
<1>1. ParsePurposes(FactoryModels[m]) \in SUBSET Purposes
  BY Factories DEF ParsePurposes
<1> QED
  BY <1>1, Defaults DEF Factory, Pin

LEMMA SeedModelsAdvance ==
  ASSUME NEW d, GoodStore(d)
  PROVE  /\ Result(d, EnsureSeedModels(d))
         /\ SameLayers(d, EnsureSeedModels(d))
<1> DEFINE drifted == {m \in DOMAIN FactoryModels : d.models[m] # Factory(m)}
           rows == [m \in ModelIds |-> IF m \in drifted THEN Factory(m) ELSE d.models[m]]
           e == [d EXCEPT !.models = rows]
<1>1. CASE drifted = {}
  BY <1>1, SameHere DEF EnsureSeedModels, SameLayers
<1>2. CASE drifted # {}
  <2>1. rows \in [ModelIds -> Pin \cup {None}]
    BY FactoryPin DEF GoodStore, Store
  <2>2. EnsureSeedModels(d) = bumpAllBoxes(e)
    BY <1>2 DEF EnsureSeedModels
  <2> HIDE DEF drifted, rows
  <2>3. /\ e \in Store /\ e.used = d.used /\ e.tokens = d.tokens /\ e.boxes = d.boxes
        /\ e.assignmentsSeeded = d.assignmentsSeeded /\ e.limitsSeeded = d.limitsSeeded
        /\ e.assignments = d.assignments /\ e.limits = d.limits
    BY <2>1 DEF GoodStore, Store
  <2> HIDE DEF e
  <2>4. Result(d, bumpAllBoxes(e))
    BY <2>3, BumpAllAdvances
  <2>5. SameLayers(d, bumpAllBoxes(e))
    BY <2>3, BumpRows DEF SameLayers, bumpAllBoxes
  <2> QED
    BY <2>2, <2>4, <2>5
<1> QED
  BY <1>1, <1>2

LEMMA SeedAssignmentsAdvance ==
  ASSUME NEW d, GoodStore(d)
  PROVE  /\ Result(d, EnsureSeedAssignments(d))
         /\ EnsureSeedAssignments(d).assignmentsSeeded
         /\ d.assignmentsSeeded => EnsureSeedAssignments(d) = d
<1> DEFINE pending == pendingFactoryAssignments(d)
           marked == [d EXCEPT !.assignmentsSeeded = TRUE]
           rows == [p \in Purposes |-> IF p \in pending THEN FactoryPicks[p]
                                       ELSE marked.assignments[p]]
           e == [marked EXCEPT !.assignments = rows]
<1>1. CASE d.assignmentsSeeded
  BY <1>1, SameHere DEF EnsureSeedAssignments
<1>2. CASE ~d.assignmentsSeeded /\ pending = {}
  <2>1. EnsureSeedAssignments(d) = marked
    BY <1>2 DEF EnsureSeedAssignments
  <2>2. /\ marked \in Store /\ marked.assignmentsSeeded = TRUE
        /\ marked.used = d.used /\ marked.tokens = d.tokens /\ marked.boxes = d.boxes
        /\ marked.limitsSeeded = d.limitsSeeded
        /\ \A b \in BoxIds : Keeps(d, marked, b)
    BY DEF GoodStore, Store, Keeps
  <2> HIDE DEF marked
  <2>3. \A b \in BoxIds : SameParts(d, marked, b)
    BY <2>2, KeepsParts DEF GoodStore
  <2>4. GoodStore(marked)
    BY <2>2 DEF GoodStore, Exists, GetBox
  <2>5. \A c \in d.used : c \in BoxIds /\ (Exists(d, c) => d.boxes[c].version \in Nat)
    BY DEF GoodStore, Store, BoxRow, Exists, GetBox
  <2>6. Result(d, marked)
    BY <2>2, <2>3, <2>4, <2>5 DEF Result, Sheds, Advances, Exists, GetBox
  <2> QED
    BY <1>2, <2>1, <2>2, <2>6
<1>3. CASE ~d.assignmentsSeeded /\ pending # {}
  <2>1. EnsureSeedAssignments(d) = bumpAllBoxes(e)
    BY <1>3 DEF EnsureSeedAssignments
  <2>2. marked \in Store /\ marked.assignments = d.assignments
    BY DEF GoodStore, Store
  <2>3. rows \in [Purposes -> OptId]
    BY <2>2, Factories DEF pendingFactoryAssignments, OptId, Store
  <2> HIDE DEF pending, rows
  <2>4. /\ e \in Store /\ e.used = d.used /\ e.tokens = d.tokens /\ e.boxes = d.boxes
        /\ e.assignmentsSeeded = TRUE /\ e.limitsSeeded = d.limitsSeeded
    BY <2>3 DEF GoodStore, Store
  <2> HIDE DEF e, marked
  <2>5. Result(d, bumpAllBoxes(e))
    BY <2>4, BumpAllAdvances
  <2>6. bumpAllBoxes(e).assignmentsSeeded
    BY <2>4, BumpRows DEF bumpAllBoxes
  <2> QED
    BY <1>3, <2>1, <2>5, <2>6
<1> QED
  BY <1>1, <1>2, <1>3

LEMMA SeedLimitsAdvance ==
  ASSUME NEW d, GoodStore(d)
  PROVE  /\ Result(d, EnsureSeedLimits(d))
         /\ EnsureSeedLimits(d).limitsSeeded
         /\ d.limitsSeeded => EnsureSeedLimits(d) = d
<1> DEFINE pending == {p \in Generative : d.limits[p] = None}
           marked == [d EXCEPT !.limitsSeeded = TRUE]
           rows == [p \in Purposes |-> IF p \in pending THEN 1 ELSE marked.limits[p]]
           e == [marked EXCEPT !.limits = rows]
<1>1. CASE d.limitsSeeded
  BY <1>1, SameHere DEF EnsureSeedLimits
<1>2. CASE ~d.limitsSeeded /\ pending = {}
  <2>1. EnsureSeedLimits(d) = marked
    BY <1>2 DEF EnsureSeedLimits
  <2>2. /\ marked \in Store /\ marked.limitsSeeded = TRUE
        /\ marked.used = d.used /\ marked.tokens = d.tokens /\ marked.boxes = d.boxes
        /\ marked.assignmentsSeeded = d.assignmentsSeeded
        /\ \A b \in BoxIds : Keeps(d, marked, b)
    BY DEF GoodStore, Store, Keeps
  <2> HIDE DEF marked
  <2>3. \A b \in BoxIds : SameParts(d, marked, b)
    BY <2>2, KeepsParts DEF GoodStore
  <2>4. GoodStore(marked)
    BY <2>2 DEF GoodStore, Exists, GetBox
  <2>5. \A c \in d.used : c \in BoxIds /\ (Exists(d, c) => d.boxes[c].version \in Nat)
    BY DEF GoodStore, Store, BoxRow, Exists, GetBox
  <2>6. Result(d, marked)
    BY <2>2, <2>3, <2>4, <2>5 DEF Result, Sheds, Advances, Exists, GetBox
  <2> QED
    BY <1>2, <2>1, <2>2, <2>6
<1>3. CASE ~d.limitsSeeded /\ pending # {}
  <2>1. EnsureSeedLimits(d) = bumpAllBoxes(e)
    BY <1>3 DEF EnsureSeedLimits
  <2>2. marked \in Store /\ marked.limits = d.limits
    BY DEF GoodStore, Store
  <2>3. rows \in [Purposes -> OptValue]
    BY <2>2, Defaults DEF OptValue, Store
  <2> HIDE DEF pending, rows
  <2>4. /\ e \in Store /\ e.used = d.used /\ e.tokens = d.tokens /\ e.boxes = d.boxes
        /\ e.limitsSeeded = TRUE /\ e.assignmentsSeeded = d.assignmentsSeeded
    BY <2>3 DEF GoodStore, Store
  <2> HIDE DEF e, marked
  <2>5. Result(d, bumpAllBoxes(e))
    BY <2>4, BumpAllAdvances
  <2>6. bumpAllBoxes(e).limitsSeeded
    BY <2>4, BumpRows DEF bumpAllBoxes
  <2> QED
    BY <1>3, <2>1, <2>5, <2>6
<1> QED
  BY <1>1, <1>2, <1>3

LEMMA SeedStaffAdvances ==
  ASSUME NEW d, GoodStore(d)
  PROVE  /\ Result(d, EnsureSeedStaff(d))
         /\ SameLayers(d, EnsureSeedStaff(d))
<1> DEFINE rows == [s \in Staff |-> IF d.staff[s] = None THEN 0 ELSE d.staff[s]]
           e == [d EXCEPT !.staff = rows]
<1>1. CASE \A s \in Staff : d.staff[s] # None
  BY <1>1, SameHere DEF EnsureSeedStaff, SameLayers
<1>2. CASE ~ \A s \in Staff : d.staff[s] # None
  <2>1. rows \in [Staff -> OptValue]
    BY Defaults DEF GoodStore, Store, OptValue
  <2>2. EnsureSeedStaff(d) = bumpAllBoxes(e)
    BY <1>2 DEF EnsureSeedStaff
  <2> HIDE DEF rows
  <2>3. /\ e \in Store /\ e.used = d.used /\ e.tokens = d.tokens /\ e.boxes = d.boxes
        /\ e.assignmentsSeeded = d.assignmentsSeeded /\ e.limitsSeeded = d.limitsSeeded
        /\ e.assignments = d.assignments /\ e.limits = d.limits
    BY <2>1 DEF GoodStore, Store
  <2> HIDE DEF e
  <2>4. Result(d, bumpAllBoxes(e))
    BY <2>3, BumpAllAdvances
  <2>5. SameLayers(d, bumpAllBoxes(e))
    BY <2>3, BumpRows DEF SameLayers, bumpAllBoxes
  <2> QED
    BY <2>2, <2>4, <2>5
<1> QED
  BY <1>1, <1>2

(* A store is seeded once it was opened, and an open of a seeded store      *)
(* leaves the operator's layers alone.                                      *)
LEMMA OpenAdvances ==
  ASSUME NEW d, GoodStore(d)
  PROVE  /\ Result(d, openStore(d)) /\ Seeded(openStore(d))
         /\ Seeded(d) => SameLayers(d, openStore(d))
<1> DEFINE m == EnsureSeedModels(d)
           a == EnsureSeedAssignments(m)
           l == EnsureSeedLimits(a)
           s == EnsureSeedStaff(l)
<1>1. Result(d, m) /\ SameLayers(d, m)
  BY SeedModelsAdvance
<1> HIDE DEF m
<1>2. /\ Result(m, a) /\ a.assignmentsSeeded
      /\ m.assignmentsSeeded => a = m
  BY <1>1, SeedAssignmentsAdvance DEF Result
<1> HIDE DEF a
<1>3. /\ Result(a, l) /\ l.limitsSeeded
      /\ a.limitsSeeded => l = a
  BY <1>2, SeedLimitsAdvance DEF Result
<1> HIDE DEF l
<1>4. Result(l, s) /\ SameLayers(l, s)
  BY <1>3, SeedStaffAdvances DEF Result
<1> HIDE DEF s
<1>5. Result(d, a)
  BY <1>1, <1>2, Transitive
<1>6. Result(d, l)
  BY <1>3, <1>5, Transitive
<1>7. Result(d, s)
  BY <1>4, <1>6, Transitive
<1>8. s.assignmentsSeeded /\ s.limitsSeeded
  BY <1>2, <1>3, <1>4 DEF Result, Sheds, Advances
<1>9. Seeded(d) => SameLayers(d, s)
  BY <1>1, <1>2, <1>3, <1>4 DEF Result, Sheds, Advances, Seeded, SameLayers
<1>10. openStore(d) = s
  BY DEF openStore, s, l, a, m
<1> QED
  BY <1>7, <1>8, <1>9, <1>10 DEF Seeded

LEMMA EmptyIsGood == GoodStore(EmptyStore)
<1>1. EmptyStore \in Store
  BY Defaults DEF EmptyStore, Store, OptId, OptValue, OrgRow
<1> QED
  BY <1>1 DEF GoodStore, EmptyStore, Exists, GetBox

----------------------------------------------------------------------------
(* What a poll has read, and what a box applied.                            *)

IsManifest(g) ==
  g = [version |-> g.version, box |-> g.box, orgs |-> g.orgs,
       narrator |-> g.narrator, models |-> g.models, limits |-> g.limits]

(* Everything read so far is the hub's, unless the version it is labelled   *)
(* with is no longer the box's.                                             *)
ReadSoFar(d, q, b) ==
  /\ IsManifest(q.got) /\ q.got.version \in Nat /\ b \in d.used
  /\ Exists(d, b) =>
       /\ q.got.version <= d.boxes[b].version
       /\ q.got.version = d.boxes[b].version =>
            /\ q.got.box = d.boxes[b].fields
            /\ q.at # "orgs" => q.got.orgs = ManifestOrgs(d, b)
            /\ q.at \in {"models", "limits"} => q.got.narrator \in {d.narrators[b], None}
            /\ q.at = "limits" =>
                 Resolves(d, b) /\ SameModels(q.got.models, ResolvedModels(d, b))

PollOK(d, q, b) ==
  \/ q.at \in {"idle", "since", "box"}
  \/ q.at \in {"orgs", "narrator", "models", "limits"} /\ ReadSoFar(d, q, b)

(* A box never applied a version ahead of the hub's, and one that applied   *)
(* the hub's version runs the hub's configuration.                          *)
AppliedOK(d, m, b) ==
  /\ m.version \in Nat
  /\ b \notin d.used => m.version = 0
  /\ Exists(d, b) =>
       /\ m.version <= d.boxes[b].version
       /\ m.version = d.boxes[b].version =>
            Resolves(d, b) /\ SameConfig(m, Manifest(d, b))

Request ==
  [at : {"idle"}]
  \cup [at : {"seed", "token"}, box : BoxIds]
  \cup [at : {"mint"}, box : BoxIds, seen : SUBSET Secret]
  \cup [at : {"orgs"}, box : BoxIds, orgs : SUBSET Orgs]
  \cup [at : {"narrator"}, box : BoxIds, value : Values]
  \cup [at : {"limit"}, box : BoxIds, purpose : Purposes, value : Values]
  \cup [at : {"override"}, box : BoxIds, purpose : Purposes, model : ModelIds]
  \cup [at : {"assign"}, purpose : Purposes, model : ModelIds]
  \cup [at : {"update"}, model : ModelIds, pin : Pin]
  \cup [at : {"delete"}, model : ModelIds]

(* A mint on its way saw every secret its operator's earlier mints left.    *)
MintsSee(d, r, a) ==
  r.at = "mint" =>
    /\ database = "postgres"
    /\ \A t \in d.tokens[r.box] : t.by = a => t \in r.seen

FewSecrets(d) ==
  \A b \in BoxIds : \A t, u \in d.tokens[b] :
    (database = "sqlite" \/ t.by = u.by) => t = u

IInv ==
  /\ database \in {"sqlite", "postgres"}
  /\ FewSecrets(db) /\ \A a \in Admins : MintsSee(db, request[a], a)
  /\ edits \in 0..MaxEdits
  /\ GoodStore(db) /\ Seeded(db)
  /\ request \in [Admins -> Request]
  /\ poll = [b \in BoxIds |-> poll[b]]
  /\ \A b \in BoxIds : PollOK(db, poll[b], b)
  /\ applied = [b \in BoxIds |-> applied[b]]
  /\ \A b \in BoxIds : AppliedOK(db, applied[b], b)

----------------------------------------------------------------------------
(* An edit keeps what polls have read and what boxes applied.               *)

LEMMA Resolved ==
  ASSUME NEW d \in Store, NEW b \in BoxIds, NEW p \in Purposes, ResolvedId(d, b, p) # None
  PROVE  ResolvedId(d, b, p) \in ModelIds
BY DEF Store, ResolvedId, OptId

LEMMA ResolvesCarries ==
  ASSUME NEW d \in Store, NEW e \in Store, NEW b \in BoxIds, SameParts(d, e, b),
         Resolves(d, b)
  PROVE  /\ Resolves(e, b)
         /\ SameModels(ResolvedModels(d, b), ResolvedModels(e, b))
         /\ ManifestLimits(d, b, ResolvedModels(d, b))
              = ManifestLimits(e, b, ResolvedModels(e, b))
<1> DEFINE Q == {q \in Purposes : ResolvedId(d, b, q) # None}
<1>1. /\ \A p \in Purposes : ResolvedId(d, b, p) = ResolvedId(e, b, p)
      /\ \A p \in Purposes : ResolvedLimit(d, b, p) = ResolvedLimit(e, b, p)
      /\ \A m \in ModelIds : SamePin(d.models[m], e.models[m])
  BY DEF SameParts
<1>2. Resolves(e, b)
  BY <1>1, Resolved DEF Resolves, SamePin
<1>3. Q = {q \in Purposes : ResolvedId(e, b, q) # None}
  BY <1>1
<1>4. /\ DOMAIN ResolvedModels(d, b) = Q /\ DOMAIN ResolvedModels(e, b) = Q
      /\ \A p \in Q :
           /\ ResolvedModels(d, b)[p] = [id |-> ResolvedId(d, b, p),
                                         pin |-> d.models[ResolvedId(d, b, p)]]
           /\ ResolvedModels(e, b)[p] = [id |-> ResolvedId(e, b, p),
                                         pin |-> e.models[ResolvedId(e, b, p)]]
  BY <1>3 DEF ResolvedModels
<1>5. ASSUME NEW p \in Q
      PROVE  LET i == ResolvedId(d, b, p) IN
             [d.models[i] EXCEPT !.size = 0] = [e.models[i] EXCEPT !.size = 0]
  BY <1>1, Resolved DEF SamePin, Resolves
<1>6. SameModels(ResolvedModels(d, b), ResolvedModels(e, b))
  <2> HIDE DEF Q
  <2>1. Q \subseteq Purposes
    BY DEF Q
  <2> QED
    BY <1>1, <1>4, <1>5, <2>1 DEF SameModels
<1>7. ManifestLimits(d, b, ResolvedModels(d, b)) = ManifestLimits(e, b, ResolvedModels(e, b))
  BY <1>1, <1>4, Limited DEF ManifestLimits
<1> QED
  BY <1>2, <1>6, <1>7

LEMMA ModelsTransitive ==
  ASSUME NEW x, NEW y, NEW z, SameModels(x, y), SameModels(y, z)
  PROVE  SameModels(x, z)
BY DEF SameModels

LEMMA ConfigCarries ==
  ASSUME NEW d \in Store, NEW e \in Store, NEW b \in BoxIds, SameParts(d, e, b),
         Resolves(d, b), NEW m, SameConfig(m, Manifest(d, b))
  PROVE  SameConfig(m, Manifest(e, b))
<1>1. /\ m.box = d.boxes[b].fields /\ m.orgs = ManifestOrgs(d, b)
      /\ m.limits = ManifestLimits(d, b, ResolvedModels(d, b))
      /\ m.narrator \in {d.narrators[b], None}
      /\ SameModels(m.models, ResolvedModels(d, b))
  BY DEF SameConfig, Manifest
<1>2. /\ m.box = e.boxes[b].fields /\ m.orgs = ManifestOrgs(e, b)
      /\ m.narrator \in {e.narrators[b], None}
  BY <1>1 DEF SameParts
<1>3. /\ m.limits = ManifestLimits(e, b, ResolvedModels(e, b))
      /\ SameModels(m.models, ResolvedModels(e, b))
  BY <1>1, ResolvesCarries, ModelsTransitive
<1> QED
  BY <1>2, <1>3 DEF SameConfig, Manifest

LEMMA Carries ==
  ASSUME NEW d, GoodStore(d), NEW e, GoodStore(e), Advances(d, e),
         NEW b \in BoxIds
  PROVE  /\ \A q : PollOK(d, q, b) => PollOK(e, q, b)
         /\ \A m : AppliedOK(d, m, b) => AppliedOK(e, m, b)
<1>1. d \in Store /\ e \in Store /\ d.used \subseteq e.used
  BY DEF GoodStore, Advances
<1>2. ASSUME Exists(e, b), b \in d.used
      PROVE  /\ Exists(d, b) /\ d.boxes[b].version \in Nat /\ e.boxes[b].version \in Nat
             /\ d.boxes[b].version <= e.boxes[b].version
             /\ d.boxes[b].version = e.boxes[b].version => SameParts(d, e, b)
  <2>1. /\ Exists(d, b) /\ d.boxes[b].version <= e.boxes[b].version
        /\ d.boxes[b].version = e.boxes[b].version => SameParts(d, e, b)
    BY <1>2 DEF Advances
  <2>2. d.boxes[b].version \in Nat /\ e.boxes[b].version \in Nat
    BY <1>1, <1>2, <2>1 DEF Store, Exists, GetBox, BoxRow
  <2> QED
    BY <2>1, <2>2
<1>3. ASSUME NEW q, PollOK(d, q, b) PROVE PollOK(e, q, b)
  <2>1. SUFFICES ASSUME q.at \in {"orgs", "narrator", "models", "limits"}, ReadSoFar(d, q, b)
                 PROVE  ReadSoFar(e, q, b)
    BY <1>3 DEF PollOK
  <2>2. IsManifest(q.got) /\ q.got.version \in Nat /\ b \in d.used /\ b \in e.used
    BY <1>1, <2>1 DEF ReadSoFar
  <2>3. SUFFICES ASSUME Exists(e, b)
                 PROVE  /\ q.got.version <= e.boxes[b].version
                        /\ q.got.version = e.boxes[b].version =>
                           /\ q.got.box = e.boxes[b].fields
                           /\ q.at # "orgs" => q.got.orgs = ManifestOrgs(e, b)
                           /\ q.at \in {"models", "limits"} =>
                                q.got.narrator \in {e.narrators[b], None}
                           /\ q.at = "limits" =>
                                /\ Resolves(e, b)
                                /\ SameModels(q.got.models, ResolvedModels(e, b))
    BY <2>2 DEF ReadSoFar
  <2>4. /\ Exists(d, b) /\ q.got.version <= d.boxes[b].version
        /\ d.boxes[b].version \in Nat /\ e.boxes[b].version \in Nat
        /\ d.boxes[b].version <= e.boxes[b].version
    BY <1>2, <2>1, <2>2, <2>3 DEF ReadSoFar
  <2>5. q.got.version <= e.boxes[b].version
    BY <2>2, <2>4
  <2>6. ASSUME q.got.version = e.boxes[b].version
        PROVE  q.got.version = d.boxes[b].version /\ SameParts(d, e, b)
    <3>1. q.got.version = d.boxes[b].version
      BY <2>2, <2>4, <2>6
    <3> QED
      BY <1>2, <2>2, <2>3, <2>6, <3>1
  <2>7. ASSUME q.got.version = e.boxes[b].version
        PROVE  /\ q.got.box = e.boxes[b].fields
               /\ q.at # "orgs" => q.got.orgs = ManifestOrgs(e, b)
               /\ q.at \in {"models", "limits"} => q.got.narrator \in {e.narrators[b], None}
    BY <2>1, <2>4, <2>6, <2>7 DEF ReadSoFar, SameParts
  <2>8. ASSUME q.got.version = e.boxes[b].version, q.at = "limits"
        PROVE  Resolves(e, b) /\ SameModels(q.got.models, ResolvedModels(e, b))
    <3>1. Resolves(d, b) /\ SameModels(q.got.models, ResolvedModels(d, b))
      BY <2>1, <2>4, <2>6, <2>8 DEF ReadSoFar
    <3>2. Resolves(e, b) /\ SameModels(ResolvedModels(d, b), ResolvedModels(e, b))
      BY <1>1, <2>6, <2>8, <3>1, ResolvesCarries
    <3> QED
      BY <3>1, <3>2, ModelsTransitive
  <2> QED
    BY <2>5, <2>7, <2>8
<1>4. ASSUME NEW m, AppliedOK(d, m, b) PROVE AppliedOK(e, m, b)
  <2>1. m.version \in Nat /\ (b \notin e.used => m.version = 0)
    BY <1>1, <1>4 DEF AppliedOK
  <2>2. SUFFICES ASSUME Exists(e, b)
                 PROVE  /\ m.version <= e.boxes[b].version
                        /\ m.version = e.boxes[b].version =>
                             Resolves(e, b) /\ SameConfig(m, Manifest(e, b))
    BY <2>1 DEF AppliedOK
  <2>3. CASE b \notin d.used
    <3>1. m.version = 0 /\ e.boxes[b].version >= 1
      BY <1>4, <2>2, <2>3 DEF AppliedOK, GoodStore
    <3>2. e.boxes[b].version \in Nat
      BY <1>1, <2>2 DEF Store, Exists, GetBox, BoxRow
    <3> QED
      BY <3>1, <3>2
  <2>4. CASE b \in d.used
    <3>1. /\ Exists(d, b) /\ m.version <= d.boxes[b].version
          /\ d.boxes[b].version \in Nat /\ e.boxes[b].version \in Nat
          /\ d.boxes[b].version <= e.boxes[b].version
      BY <1>2, <1>4, <2>2, <2>4 DEF AppliedOK
    <3>2. m.version <= e.boxes[b].version
      BY <2>1, <3>1
    <3>3. ASSUME m.version = e.boxes[b].version
          PROVE  Resolves(e, b) /\ SameConfig(m, Manifest(e, b))
      <4>1. m.version = d.boxes[b].version
        BY <2>1, <3>1, <3>3
      <4>2. SameParts(d, e, b)
        BY <1>2, <2>2, <2>4, <3>3, <4>1
      <4>3. Resolves(d, b) /\ SameConfig(m, Manifest(d, b))
        BY <1>4, <3>1, <4>1 DEF AppliedOK
      <4> QED
        BY <1>1, <4>2, <4>3, ResolvesCarries, ConfigCarries
    <3> QED
      BY <3>2, <3>3
  <2> QED
    BY <2>3, <2>4
<1> QED
  BY <1>3, <1>4

----------------------------------------------------------------------------
(* The steps.                                                               *)

(* A step that edits the tables and touches neither polls nor boxes, and    *)
(* that neither mints a secret nor begins to.                               *)
Edits ==
  /\ Result(db, db')
  /\ request' \in [Admins -> Request]
  /\ \A a \in Admins : request'[a].at = "mint" => request'[a] = request[a]
  /\ edits' \in 0..MaxEdits
  /\ UNCHANGED <<poll, applied, database>>

LEMMA TablesKeep ==
  ASSUME IInv, GoodStore(db'), Advances(db, db'), UNCHANGED <<poll, applied>>
  PROVE  /\ Seeded(db')
         /\ \A b \in BoxIds : PollOK(db', poll'[b], b) /\ AppliedOK(db', applied'[b], b)
<1>1. Seeded(db')
  BY DEF IInv, Advances, Seeded
<1>2. \A b \in BoxIds : PollOK(db', poll[b], b) /\ AppliedOK(db', applied[b], b)
  BY Carries DEF IInv
<1> QED
  BY <1>1, <1>2

(* What was known of the secrets is known of the fewer that are left.       *)
LEMMA FewerSecrets ==
  ASSUME IInv, Sheds(db, db'), UNCHANGED database,
         request \in [Admins -> Request],
         \A a \in Admins : request'[a].at = "mint" => request'[a] = request[a]
  PROVE  FewSecrets(db)' /\ \A a \in Admins : MintsSee(db, request[a], a)'
<1>1. FewSecrets(db)'
  BY DEF IInv, FewSecrets, Sheds
<1>2. ASSUME NEW a \in Admins, request'[a].at = "mint" PROVE MintsSee(db, request[a], a)'
  <2>1. request'[a] = request[a]
    BY <1>2
  <2>2. request[a].box \in BoxIds
    BY <1>2, <2>1 DEF Request
  <2>3. MintsSee(db, request[a], a)
    BY DEF IInv
  <2> QED
    BY <1>2, <2>1, <2>2, <2>3 DEF MintsSee, Sheds
<1>3. ASSUME NEW a \in Admins, request'[a].at # "mint" PROVE MintsSee(db, request[a], a)'
  BY <1>3 DEF MintsSee
<1> QED
  BY <1>1, <1>2, <1>3

LEMMA EditsKeep == IInv /\ Edits => IInv'
<1> SUFFICES ASSUME IInv, Edits PROVE IInv'
  OBVIOUS
<1>1. GoodStore(db') /\ Advances(db, db') /\ Sheds(db, db')
  BY DEF Edits, Result
<1>2. Seeded(db') /\ \A b \in BoxIds : PollOK(db', poll'[b], b) /\ AppliedOK(db', applied'[b], b)
  BY <1>1, TablesKeep DEF Edits
<1>3. FewSecrets(db)' /\ \A a \in Admins : MintsSee(db, request[a], a)'
  BY <1>1, FewerSecrets DEF IInv, Edits
<1> QED
  BY <1>1, <1>2, <1>3 DEF IInv, Edits

LEMMA EditEdits ==
  ASSUME IInv, NEW d, Result(db, d), Edit(d)
  PROVE  Edits
BY Bounded DEF IInv, Edit, Edits

LEMMA AnswerEdits ==
  ASSUME IInv, NEW a \in Admins, NEW d, Result(db, d), Answer(a, d)
  PROVE  Edits
BY DEF IInv, Answer, Edits, Request, Idle

LEMMA AskEdits ==
  ASSUME IInv, NEW a \in Admins, Begin(a), UNCHANGED db, NEW r \in Request,
         r.at # "mint", request' = [request EXCEPT ![a] = r]
  PROVE  Edits
<1>1. Result(db, db')
  BY SameHere DEF IInv
<1>2. edits' \in 0..MaxEdits
  BY Bounded DEF IInv, Begin
<1> QED
  BY <1>1, <1>2 DEF IInv, Begin, Edits

LEMMA OrgEditsKeep == ASSUME IInv, OrgAndStaffEdits PROVE Edits
<1>0. GoodStore(db)
  BY DEF IInv
<1>1. ASSUME NEW o \in Orgs, NEW v \in Values, handleRenameOrg(o, v) \/ handleSetOrgLevel(o, v)
      PROVE  Edits
  BY <1>0, <1>1, OrgsAdvance, EditEdits DEF handleRenameOrg, handleSetOrgLevel
<1>2. ASSUME NEW s \in Staff, NEW v \in Values, handleUpsertStaff(s, v) PROVE Edits
  BY <1>0, <1>2, RostersAdvance, EditEdits DEF handleUpsertStaff
<1>3. ASSUME NEW o \in Orgs, NEW s \in Staff, NEW v \in Values,
             handleSetOrgStaffOverride(o, s, v)
      PROVE  Edits
  BY <1>0, <1>3, OrgsAdvance, EditEdits DEF handleSetOrgStaffOverride
<1>4. ASSUME NEW o \in Orgs, NEW s \in Staff, handleClearOrgStaffOverride(o, s) PROVE Edits
  BY <1>0, <1>4, OrgsAdvance, EditEdits DEF handleClearOrgStaffOverride
<1> QED
  BY <1>1, <1>2, <1>3, <1>4 DEF OrgAndStaffEdits

LEMMA CreateBoxEdits ==
  ASSUME IInv, NEW a \in Admins, NEW b \in BoxIds, handleCreateBox(a, b)
  PROVE  Edits
<1>1. Result(db, db')
  BY InsertBoxAdvances DEF IInv, handleCreateBox
<1>2. [at |-> "seed", box |-> b] \in Request
  BY DEF Request
<1>3. edits' \in 0..MaxEdits
  BY Bounded DEF IInv, handleCreateBox, Begin
<1> QED
  BY <1>1, <1>2, <1>3 DEF IInv, handleCreateBox, Begin, Edits

LEMMA BoxEditsKeep == ASSUME IInv, BoxEdits PROVE Edits
<1>0. GoodStore(db)
  BY DEF IInv
<1>1. ASSUME NEW b \in BoxIds, NEW v \in Values, handleUpdateBox(b, v) PROVE Edits
  BY <1>0, <1>1, UpdateBoxAdvances, EditEdits DEF handleUpdateBox
<1>2. ASSUME NEW b \in BoxIds, handleDeleteBox(b) PROVE Edits
  BY <1>0, <1>2, DeleteBoxAdvances, EditEdits DEF handleDeleteBox
<1>3. ASSUME NEW b \in BoxIds, NEW t, handleRevokeBoxToken(b, t) PROVE Edits
  BY <1>0, <1>3, TokensAdvance, EditEdits DEF handleRevokeBoxToken
<1>4. ASSUME NEW b \in BoxIds, NEW p \in Purposes,
             handleClearBoxLimit(b, p) \/ handleClearBoxModelOverride(b, p)
      PROVE  Edits
  BY <1>0, <1>4, BoxRowsAdvance, EditEdits
     DEF handleClearBoxLimit, handleClearBoxModelOverride
<1>5. ASSUME NEW a \in Admins, NEW b \in BoxIds, handleSetBoxOrgs(a, b) PROVE Edits
  <2>1. PICK os \in SUBSET Orgs :
          boxOr404(a, b) /\ request' = [request EXCEPT ![a] =
                                          [at |-> "orgs", box |-> b, orgs |-> os]]
    BY <1>5 DEF handleSetBoxOrgs
  <2>2. [at |-> "orgs", box |-> b, orgs |-> os] \in Request
    BY DEF Request
  <2> QED
    BY <2>1, <2>2, AskEdits DEF boxOr404, Ask
<1>6. ASSUME NEW a \in Admins, NEW b \in BoxIds, handleUpdateBoxNarrator(a, b) PROVE Edits
  <2>1. PICK v \in Values :
          boxOr404(a, b) /\ request' = [request EXCEPT ![a] =
                                          [at |-> "narrator", box |-> b, value |-> v]]
    BY <1>6 DEF handleUpdateBoxNarrator
  <2>2. [at |-> "narrator", box |-> b, value |-> v] \in Request
    BY DEF Request
  <2> QED
    BY <2>1, <2>2, AskEdits DEF boxOr404, Ask
<1>7. ASSUME NEW a \in Admins, NEW b \in BoxIds, handleCreateBoxToken(a, b) PROVE Edits
  <2>1. [at |-> "token", box |-> b] \in Request
    BY DEF Request
  <2> QED
    BY <1>7, <2>1, AskEdits DEF handleCreateBoxToken, boxOr404, Ask
<1>8. ASSUME NEW a \in Admins, NEW b \in BoxIds, NEW p \in Purposes,
             handleSetBoxLimit(a, b, p)
      PROVE  Edits
  <2>1. PICK v \in Values :
          boxOr404(a, b) /\ request' = [request EXCEPT ![a] =
                              [at |-> "limit", box |-> b, purpose |-> p, value |-> v]]
    BY <1>8 DEF handleSetBoxLimit
  <2>2. [at |-> "limit", box |-> b, purpose |-> p, value |-> v] \in Request
    BY DEF Request
  <2> QED
    BY <2>1, <2>2, AskEdits DEF boxOr404, Ask
<1>9. ASSUME NEW a \in Admins, NEW b \in BoxIds, NEW p \in Purposes, NEW m \in ModelIds,
             handleSetBoxModelOverride(a, b, p, m)
      PROVE  Edits
  <2>1. [at |-> "override", box |-> b, purpose |-> p, model |-> m] \in Request
    BY DEF Request
  <2> QED
    BY <1>9, <2>1, AskEdits DEF handleSetBoxModelOverride, boxOr404, Ask
<1> QED
  BY <1>1, <1>2, <1>3, <1>4, <1>5, <1>6, <1>7, <1>8, <1>9, CreateBoxEdits DEF BoxEdits

LEMMA PinsTyped == \A m \in ModelIds : Pins(m) \subseteq Pin
<1>1. \A ps \in SUBSET Purposes : ParsePurposes(ps) \in SUBSET Purposes
  BY DEF ParsePurposes
<1> QED
  BY <1>1, Defaults DEF Pins, Pin

LEMMA ModelEditsKeep == ASSUME IInv, ModelEdits PROVE Edits
<1>0. GoodStore(db)
  BY DEF IInv
<1>1. ASSUME NEW p \in Purposes, handleClearAssignment(p) \/ handleClearLimit(p) PROVE Edits
  BY <1>0, <1>1, RostersAdvance, EditEdits DEF handleClearAssignment, handleClearLimit
<1>2. ASSUME NEW p \in Purposes, NEW v \in Values, handleSetLimit(p, v) PROVE Edits
  BY <1>0, <1>2, RostersAdvance, EditEdits DEF handleSetLimit
<1>3. ASSUME NEW m \in ModelIds, NEW pin \in Pins(m), handleCreateModel(m, pin) PROVE Edits
  BY <1>0, <1>3, RostersAdvance, EditEdits, PinsTyped DEF handleCreateModel
<1>4. ASSUME NEW m \in ModelIds, NEW v \in Values, handleInspectModel(m, v) PROVE Edits
  BY <1>0, <1>4, InspectionAdvances, EditEdits DEF handleInspectModel
<1>5. ASSUME NEW a \in Admins, NEW m \in ModelIds, NEW pin \in Pins(m),
             handleUpdateModel(a, m, pin)
      PROVE  Edits
  <2>1. [at |-> "update", model |-> m, pin |-> pin] \in Request
    BY PinsTyped DEF Request
  <2> QED
    BY <1>5, <2>1, AskEdits DEF handleUpdateModel, Ask
<1>6. ASSUME NEW a \in Admins, NEW m \in ModelIds, NEW p \in Purposes,
             handleSetAssignment(a, p, m)
      PROVE  Edits
  <2>1. [at |-> "assign", purpose |-> p, model |-> m] \in Request
    BY DEF Request
  <2> QED
    BY <1>6, <2>1, AskEdits DEF handleSetAssignment, Ask
<1>7. ASSUME NEW a \in Admins, NEW m \in ModelIds, handleDeleteModel(a, m) PROVE Edits
  <2>1. [at |-> "delete", model |-> m] \in Request
    BY DEF Request
  <2> QED
    BY <1>7, <2>1, AskEdits DEF handleDeleteModel, Ask
<1> QED
  BY <1>1, <1>2, <1>3, <1>4, <1>5, <1>6, <1>7 DEF ModelEdits

(* What a request holds between its reads and its write.                    *)
LEMMA RequestHolds ==
  ASSUME NEW r \in Request
  PROVE  /\ r.at \in {"seed", "token", "orgs", "narrator", "limit", "override"} =>
              r.box \in BoxIds
         /\ r.at = "mint" => r.box \in BoxIds /\ r.seen \in SUBSET Secret
         /\ r.at = "orgs" => r.orgs \in SUBSET Orgs
         /\ r.at \in {"narrator", "limit"} => r.value \in Values
         /\ r.at \in {"limit", "override", "assign"} => r.purpose \in Purposes
         /\ r.at \in {"override", "assign", "update", "delete"} => r.model \in ModelIds
         /\ r.at = "update" => r.pin \in Pin
         /\ r.at \in {"idle", "seed", "orgs", "narrator", "token", "mint", "limit",
                      "override", "assign", "update", "delete"}
BY DEF Request

(* A mint that saw its operator's earlier secrets, and on SQLite all of     *)
(* them, leaves few.                                                        *)
LEMMA MintKeeps ==
  ASSUME IInv, NEW a \in Admins, NEW b \in BoxIds, NEW seen \in SUBSET Secret,
         \A t \in db.tokens[b] : (database = "sqlite" \/ t.by = a) => t \in seen,
         Answer(a, CreateBoxToken(db, a, b, seen))
  PROVE  IInv'
<1> DEFINE s == [id |-> db.minted + 1, by |-> a]
<1>1. /\ GoodStore(db') /\ Advances(db, db')
      /\ db'.tokens = [db.tokens EXCEPT ![b] = (@ \ seen) \cup {s}]
  BY TokensAdvance DEF IInv, Answer
<1>2. /\ request' = [request EXCEPT ![a] = Idle]
      /\ UNCHANGED <<poll, applied, database, edits>>
  BY DEF Answer
<1>3. Seeded(db') /\ \A c \in BoxIds : PollOK(db', poll'[c], c) /\ AppliedOK(db', applied'[c], c)
  BY <1>1, <1>2, TablesKeep
<1>4. request' \in [Admins -> Request] /\ request \in [Admins -> Request]
  BY <1>2 DEF IInv, Request, Idle
<1>5. s.by = a
  OBVIOUS
<1>6. /\ db'.tokens[b] = (db.tokens[b] \ seen) \cup {s}
      /\ \A c \in BoxIds \ {b} : db'.tokens[c] = db.tokens[c]
  BY <1>1 DEF IInv, GoodStore, Store
<1> HIDE DEF s
<1>7. FewSecrets(db)'
  <2> SUFFICES ASSUME NEW c \in BoxIds, NEW t \in db'.tokens[c], NEW u \in db'.tokens[c],
                      database' = "sqlite" \/ t.by = u.by
               PROVE  t = u
    BY DEF FewSecrets
  <2>0. database' = database
    BY <1>2
  <2>1. CASE c # b
    BY <1>6, <2>0, <2>1 DEF IInv, FewSecrets
  <2>2. CASE c = b
    <3>1. t \in db.tokens[b] /\ u \in db.tokens[b] => t = u
      BY <2>0 DEF IInv, FewSecrets
    <3>2. t = s => (u = s \/ (u \in db.tokens[b] /\ u \notin seen))
      BY <1>6, <2>2
    <3>3. u = s => (t = s \/ (t \in db.tokens[b] /\ t \notin seen))
      BY <1>6, <2>2
    <3>4. t = s \/ t \in db.tokens[b]
      BY <1>6, <2>2
    <3>5. u = s \/ u \in db.tokens[b]
      BY <1>6, <2>2
    <3>6. t = s => u = s
      BY <1>5, <2>0, <3>2
    <3>7. u = s => t = s
      BY <1>5, <2>0, <3>3
    <3> QED
      BY <3>1, <3>4, <3>5, <3>6, <3>7
  <2> QED
    BY <2>1, <2>2
<1>8. ASSUME NEW c \in Admins PROVE MintsSee(db, request[c], c)'
  <2>1. CASE c = a
    BY <1>2, <1>4, <2>1 DEF MintsSee, Idle
  <2>2. CASE c # a
    <3>1. request'[c] = request[c] /\ MintsSee(db, request[c], c)
      BY <1>2, <1>4, <2>2 DEF IInv
    <3>2. request[c].at = "mint" => request[c].box \in BoxIds
      BY <1>4, RequestHolds
    <3> SUFFICES ASSUME request[c].at = "mint"
                 PROVE  MintsSee(db, request[c], c)'
      BY <3>1 DEF MintsSee
    <3>3. \A t \in db'.tokens[request[c].box] : t = s \/ t \in db.tokens[request[c].box]
      BY <1>6, <3>2
    <3>4. \A t \in db'.tokens[request[c].box] : t.by = c => t \in request[c].seen
      BY <1>5, <2>2, <3>1, <3>3 DEF MintsSee
    <3>5. database' = "postgres"
      BY <1>2, <3>1 DEF MintsSee
    <3> QED
      BY <3>1, <3>4, <3>5 DEF MintsSee
  <2> QED
    BY <2>1, <2>2
<1> QED
  BY <1>1, <1>2, <1>3, <1>4, <1>7, <1>8 DEF IInv

(* The first statement of a mint on Postgres.                               *)
LEMMA RevokeKeeps == ASSUME IInv, NEW a \in Admins, RevokeLive(a) PROVE IInv'
<1> DEFINE b == request[a].box
           r == [at |-> "mint", box |-> b, seen |-> db.tokens[b]]
<1>0. request \in [Admins -> Request] /\ db \in Store
  BY DEF IInv, GoodStore
<1>1. b \in BoxIds
  BY <1>0, RequestHolds DEF RevokeLive
<1>2. r \in Request
  BY <1>0, <1>1 DEF Request, Store
<1>3. request' = [request EXCEPT ![a] = r] /\ UNCHANGED <<db, poll, applied, database, edits>>
  BY DEF RevokeLive
<1>4. request' \in [Admins -> Request]
  BY <1>0, <1>2, <1>3
<1>5. ASSUME NEW c \in Admins PROVE MintsSee(db, request[c], c)'
  <2>1. CASE c # a
    BY <1>0, <1>3, <2>1 DEF IInv, MintsSee
  <2>2. CASE c = a
    <3>1. request'[c] = r /\ database = "postgres"
      BY <1>0, <1>3, <2>2 DEF RevokeLive
    <3> QED
      BY <1>3, <3>1 DEF MintsSee
  <2> QED
    BY <2>1, <2>2
<1> QED
  BY <1>3, <1>4, <1>5 DEF IInv, FewSecrets

LEMMA WritesKeep == ASSUME IInv, NEW a \in Admins, Writes(a) PROVE IInv'
<1>0. GoodStore(db) /\ request[a] \in Request
  BY DEF IInv
<1>1. CASE SeedNarrator(a)
  BY <1>0, <1>1, RequestHolds, SeedNarratorAdvances, AnswerEdits, EditsKeep DEF SeedNarrator
<1>2. CASE WriteBoxOrgs(a)
  BY <1>0, <1>2, RequestHolds, BoxRowsAdvance, AnswerEdits, EditsKeep DEF WriteBoxOrgs
<1>3. CASE WriteNarrator(a)
  BY <1>0, <1>3, RequestHolds, BoxRowsAdvance, AnswerEdits, EditsKeep DEF WriteNarrator
<1>4. CASE MintAlone(a)
  <2>1. request[a].box \in BoxIds
    BY <1>0, <1>4, RequestHolds DEF MintAlone
  <2>2. db.tokens[request[a].box] \in SUBSET Secret
    BY <1>0, <2>1 DEF GoodStore, Store
  <2>3. \A t \in db.tokens[request[a].box] :
          (database = "sqlite" \/ t.by = a) => t \in db.tokens[request[a].box]
    OBVIOUS
  <2> QED
    BY <1>4, <2>1, <2>2, <2>3, MintKeeps DEF MintAlone
<1>10. CASE RevokeLive(a)
  BY <1>10, RevokeKeeps
<1>11. CASE InsertToken(a)
  <2>1. /\ request[a].box \in BoxIds /\ request[a].seen \in SUBSET Secret
        /\ MintsSee(db, request[a], a)
    BY <1>0, <1>11, RequestHolds DEF InsertToken, IInv
  <2>2. \A t \in db.tokens[request[a].box] :
          (database = "sqlite" \/ t.by = a) => t \in request[a].seen
    BY <1>11, <2>1 DEF InsertToken, MintsSee
  <2> QED
    BY <1>11, <2>1, <2>2, MintKeeps DEF InsertToken
<1>5. CASE WriteBoxLimit(a)
  BY <1>0, <1>5, RequestHolds, BoxRowsAdvance, AnswerEdits, EditsKeep DEF WriteBoxLimit
<1>6. CASE WriteOverride(a)
  BY <1>0, <1>6, RequestHolds, BoxRowsAdvance, AnswerEdits, EditsKeep DEF WriteOverride
<1>7. CASE WriteAssignment(a)
  BY <1>0, <1>7, RequestHolds, RostersAdvance, AnswerEdits, EditsKeep DEF WriteAssignment
<1>8. CASE WriteModel(a)
  BY <1>0, <1>8, RequestHolds, RostersAdvance, AnswerEdits, EditsKeep DEF WriteModel
<1>9. CASE WriteDelete(a)
  BY <1>0, <1>9, RequestHolds, RostersAdvance, AnswerEdits, EditsKeep DEF WriteDelete
<1> QED
  BY <1>1, <1>2, <1>3, <1>4, <1>5, <1>6, <1>7, <1>8, <1>9, <1>10, <1>11 DEF Writes

----------------------------------------------------------------------------
(* A poll reads the tables and edits none.                                  *)

LEMMA StepKeeps ==
  ASSUME IInv, NEW b \in BoxIds, NEW q, PollOK(db, q, b), Step(b, q)
  PROVE  IInv'
<1>1. /\ poll' = [c \in BoxIds |-> poll'[c]]
      /\ \A c \in BoxIds : PollOK(db, poll'[c], c)
  BY DEF IInv, Step
<1>2. \A a \in Admins : MintsSee(db, request[a], a)'
  BY DEF IInv, Step, MintsSee
<1>3. FewSecrets(db)'
  BY DEF IInv, Step, FewSecrets
<1> QED
  BY <1>1, <1>2, <1>3 DEF IInv, Step

(* One more part, read from the tables of this moment.                      *)
LEMMA ReadKeeps ==
  ASSUME IInv, NEW b \in BoxIds, Poll(b)
  PROVE  IInv'
<1> DEFINE q == poll[b]
           g == q.got
<1>0. PollOK(db, q, b) /\ db \in Store
  BY DEF IInv, GoodStore
<1>idle. PollOK(db, Idle, b) /\ PollOK(db, [at |-> "since"], b) /\ PollOK(db, [at |-> "box"], b)
  BY DEF PollOK, Idle
<1>1. CASE BoxTokenAuth(b)
  BY <1>1, <1>idle, StepKeeps DEF BoxTokenAuth
<1>2. CASE handleBoxChanges(b)
  BY <1>2, <1>idle, StepKeeps DEF handleBoxChanges
<1>3. CASE ReadBox(b)
  <2> DEFINE v == db.boxes[b].version
             f == db.boxes[b].fields
             h == [Nothing EXCEPT !.version = v, !.box = f]
  <2>1. CASE ~Exists(db, b)
    BY <1>3, <1>idle, <2>1, StepKeeps DEF ReadBox
  <2>2. CASE Exists(db, b)
    <3>1. h = [Nothing EXCEPT !.version = v, !.box = f]
      OBVIOUS
    <3>2. db.boxes[b].version \in Nat /\ b \in db.used
      BY <1>0, <2>2 DEF IInv, GoodStore, Store, Exists, GetBox, BoxRow
    <3> HIDE DEF v, f, h
    <3>3. IsManifest(h) /\ h.version = v /\ h.box = f
      BY <3>1 DEF Nothing, IsManifest
    <3>4. db.boxes[b].version <= db.boxes[b].version
      BY <3>2
    <3>5. PollOK(db, [at |-> "orgs", got |-> h], b)
      BY <3>2, <3>3, <3>4 DEF PollOK, ReadSoFar, v, f
    <3> QED
      BY <1>3, <2>2, <3>5, StepKeeps DEF ReadBox, h, v, f
  <2> QED
    BY <2>1, <2>2
<1>4. CASE ReadOrgs(b)
  <2> DEFINE h == [g EXCEPT !.orgs = ManifestOrgs(db, b)]
  <2>1. ReadSoFar(db, q, b) /\ q.at = "orgs"
    BY <1>0, <1>4 DEF PollOK, ReadOrgs, Read
  <2>2. IsManifest(g)
    BY <2>1 DEF ReadSoFar
  <2>3. /\ IsManifest(h) /\ h.version = g.version /\ h.box = g.box
        /\ h.orgs = ManifestOrgs(db, b)
    BY <2>2 DEF IsManifest
  <2> HIDE DEF h
  <2>4. PollOK(db, [at |-> "narrator", got |-> h], b)
    BY <2>1, <2>3 DEF PollOK, ReadSoFar
  <2> QED
    BY <1>4, <2>4, StepKeeps DEF ReadOrgs, Read, h
<1>5. CASE ReadNarrator(b)
  <2> DEFINE h == [g EXCEPT !.narrator = db.narrators[b]]
  <2>1. ReadSoFar(db, q, b) /\ q.at = "narrator"
    BY <1>0, <1>5 DEF PollOK, ReadNarrator, Read
  <2>2. IsManifest(g)
    BY <2>1 DEF ReadSoFar
  <2>3. /\ IsManifest(h) /\ h.version = g.version /\ h.box = g.box /\ h.orgs = g.orgs
        /\ h.narrator = db.narrators[b]
    BY <2>2 DEF IsManifest
  <2> HIDE DEF h
  <2>4. PollOK(db, [at |-> "models", got |-> h], b)
    BY <2>1, <2>3 DEF PollOK, ReadSoFar
  <2> QED
    BY <1>5, <2>4, StepKeeps DEF ReadNarrator, Read, h
<1>6. CASE ReadModels(b)
  <2> DEFINE h == [g EXCEPT !.models = ResolvedModels(db, b)]
  <2>1. CASE ~Resolves(db, b)
    BY <1>6, <1>idle, <2>1, StepKeeps DEF ReadModels
  <2>2. CASE Resolves(db, b)
    <3>1. ReadSoFar(db, q, b) /\ q.at = "models"
      BY <1>0, <1>6, <2>2 DEF PollOK, ReadModels, Read
    <3>2. IsManifest(g)
      BY <3>1 DEF ReadSoFar
    <3>3. /\ IsManifest(h) /\ h.version = g.version /\ h.box = g.box /\ h.orgs = g.orgs
          /\ h.narrator = g.narrator /\ h.models = ResolvedModels(db, b)
      BY <3>2 DEF IsManifest
    <3>4. SameModels(ResolvedModels(db, b), ResolvedModels(db, b))
      BY DEF SameModels
    <3> HIDE DEF h
    <3>5. PollOK(db, [at |-> "limits", got |-> h], b)
      BY <2>2, <3>1, <3>3, <3>4 DEF PollOK, ReadSoFar
    <3> QED
      BY <1>6, <2>2, <3>5, StepKeeps DEF ReadModels, Read, h
  <2> QED
    BY <2>1, <2>2
<1>7. CASE BuildBoxManifest(b)
  <2> DEFINE h == [g EXCEPT !.limits = ManifestLimits(db, b, g.models)]
  <2>1. ReadSoFar(db, q, b) /\ q.at = "limits"
    BY <1>0, <1>7 DEF PollOK, BuildBoxManifest
  <2>2. IsManifest(g)
    BY <2>1 DEF ReadSoFar
  <2>3. /\ h.version = g.version /\ h.box = g.box /\ h.orgs = g.orgs
        /\ h.narrator = g.narrator /\ h.models = g.models
        /\ h.limits = ManifestLimits(db, b, g.models)
    BY <2>2 DEF IsManifest
  <2> HIDE DEF h
  <2>4. ASSUME Exists(db, b), g.version = db.boxes[b].version
        PROVE  Resolves(db, b) /\ SameConfig(h, Manifest(db, b))
    <3>1. /\ g.box = db.boxes[b].fields /\ g.orgs = ManifestOrgs(db, b)
          /\ g.narrator \in {db.narrators[b], None}
          /\ Resolves(db, b) /\ SameModels(g.models, ResolvedModels(db, b))
      BY <2>1, <2>4 DEF ReadSoFar
    <3>2. ManifestLimits(db, b, g.models) = ManifestLimits(db, b, ResolvedModels(db, b))
      BY <3>1 DEF SameModels, ManifestLimits
    <3> QED
      BY <2>3, <3>1, <3>2 DEF SameConfig, Manifest
  <2>5. AppliedOK(db, h, b)
    BY <2>1, <2>3, <2>4 DEF AppliedOK, ReadSoFar
  <2>6. applied' = [applied EXCEPT ![b] = h] /\ poll' = [poll EXCEPT ![b] = Idle]
    BY <1>7 DEF BuildBoxManifest, h
  <2>7. /\ applied' = [c \in BoxIds |-> applied'[c]] /\ poll' = [c \in BoxIds |-> poll'[c]]
        /\ \A c \in BoxIds : PollOK(db, poll'[c], c) /\ AppliedOK(db, applied'[c], c)
    BY <1>idle, <2>5, <2>6 DEF IInv
  <2>8. UNCHANGED <<db, request, database, edits>>
    BY <1>7 DEF BuildBoxManifest
  <2>9. FewSecrets(db)' /\ \A a \in Admins : MintsSee(db, request[a], a)'
    BY <2>8 DEF IInv, FewSecrets, MintsSee
  <2> QED
    BY <2>7, <2>8, <2>9 DEF IInv
<1> QED
  BY <1>1, <1>2, <1>3, <1>4, <1>5, <1>6, <1>7 DEF Poll, Served

LEMMA RestartKeeps ==
  ASSUME IInv, Restart
  PROVE  IInv' /\ SameLayers(db, db')
<1>1. Result(db, db') /\ SameLayers(db, db')
  BY OpenAdvances DEF IInv, Restart
<1>2. GoodStore(db') /\ Seeded(db')
  BY <1>1 DEF IInv, Result, Advances, Seeded
<1>3. \A b \in BoxIds : AppliedOK(db', applied[b], b)
  BY <1>1, Carries DEF IInv, Result
<1>4. /\ poll' = [b \in BoxIds |-> poll'[b]]
      /\ \A b \in BoxIds : PollOK(db', poll'[b], b)
  BY DEF Restart, PollOK, Idle
<1>5. /\ request' \in [Admins -> Request] /\ edits' \in 0..MaxEdits
      /\ UNCHANGED <<applied, database>>
  BY Bounded DEF IInv, Restart, Request, Idle
<1>6. FewSecrets(db)' /\ \A a \in Admins : MintsSee(db, request[a], a)'
  <2>1. \A a \in Admins : request'[a].at # "mint"
    BY DEF Restart, Idle
  <2> QED
    BY <1>1, <1>5, <2>1, FewerSecrets DEF IInv, Result
<1> QED
  BY <1>1, <1>2, <1>3, <1>4, <1>5, <1>6 DEF IInv

LEMMA InitIsGood == Init => IInv
<1> SUFFICES ASSUME Init PROVE IInv
  OBVIOUS
<1>1. GoodStore(db) /\ Seeded(db)
  BY OpenAdvances, EmptyIsGood DEF Init, InitWith, Result
<1>6. FewSecrets(db) /\ \A a \in Admins : MintsSee(db, request[a], a)
  <2>1. \A b \in BoxIds : EmptyStore.tokens[b] = {}
    BY DEF EmptyStore
  <2>2. \A b \in BoxIds : db.tokens[b] = {}
    BY <2>1, OpenAdvances, EmptyIsGood DEF Init, InitWith, Result, Sheds
  <2>3. \A a \in Admins : request[a].at = "idle"
    BY DEF Init, InitWith, Idle
  <2> QED
    BY <2>2, <2>3 DEF FewSecrets, MintsSee
<1>2. \A b \in BoxIds : PollOK(db, poll[b], b)
  BY DEF Init, InitWith, PollOK, Idle
<1>3. \A b \in BoxIds : AppliedOK(db, applied[b], b)
  <2> SUFFICES ASSUME NEW b \in BoxIds PROVE AppliedOK(db, Nothing, b)
    BY DEF Init, InitWith
  <2>1. Nothing.version = 0
    BY DEF Nothing
  <2>2. Exists(db, b) => db.boxes[b].version \in Nat /\ db.boxes[b].version >= 1
    BY <1>1 DEF GoodStore, Store, Exists, GetBox, BoxRow
  <2> QED
    BY <2>1, <2>2 DEF AppliedOK
<1>4. request \in [Admins -> Request] /\ edits \in 0..MaxEdits
  BY Bounded DEF Init, InitWith, Request, Idle
<1>5. /\ poll = [b \in BoxIds |-> poll[b]]
      /\ applied = [b \in BoxIds |-> applied[b]]
  BY DEF Init, InitWith
<1>7. database \in {"sqlite", "postgres"}
  BY DEF Init, InitWith
<1> QED
  BY <1>1, <1>2, <1>3, <1>4, <1>5, <1>6, <1>7 DEF IInv

LEMMA NextKeeps == IInv /\ [Next]_vars => IInv'
<1> SUFFICES ASSUME IInv, [Next]_vars PROVE IInv'
  OBVIOUS
<1>1. CASE OrgAndStaffEdits
  BY <1>1, OrgEditsKeep, EditsKeep
<1>2. CASE BoxEdits
  BY <1>2, BoxEditsKeep, EditsKeep
<1>3. CASE ModelEdits
  BY <1>3, ModelEditsKeep, EditsKeep
<1>4. CASE \E a \in Admins : Writes(a)
  BY <1>4, WritesKeep
<1>5. CASE \E b \in BoxIds : Poll(b)
  BY <1>5, ReadKeeps
<1>6. CASE Restart
  BY <1>6, RestartKeeps
<1>7. CASE UNCHANGED vars
  BY <1>7 DEF vars, IInv, FewSecrets, MintsSee
<1> QED
  BY <1>1, <1>2, <1>3, <1>4, <1>5, <1>6, <1>7 DEF Next

LEMMA Inductive == Spec => []IInv
BY InitIsGood, NextKeeps, PTL DEF Spec

----------------------------------------------------------------------------
(* The theorems.                                                            *)

(* Every table of the store keeps its type, whatever edits, restarts and    *)
(* polls come in between.                                                   *)
THEOREM BoxesTyped == Spec => []TypeOK
<1>1. IInv => TypeOK
  <2> SUFFICES ASSUME IInv PROVE TypeOK
    OBVIOUS
  <2>1. \A a \in Admins : request[a].at \in
          {"idle", "seed", "orgs", "narrator", "token", "mint", "limit", "override",
           "assign", "update", "delete"}
    BY RequestHolds DEF IInv
  <2>2. \A b \in BoxIds : poll[b].at \in
          {"idle", "since", "box", "orgs", "narrator", "models", "limits"}
    BY DEF IInv, PollOK
  <2>3. db \in Store /\ edits \in 0..MaxEdits /\ database \in {"sqlite", "postgres"}
    BY DEF IInv, GoodStore
  <2> QED
    BY <2>1, <2>2, <2>3 DEF TypeOK, Store, OptId, OptValue
<1> QED
  BY <1>1, Inductive, PTL

(* On SQLite a box the hub answers "not modified" runs the hub's            *)
(* configuration of it, however its polls interleaved with edits of any     *)
(* table.                                                                   *)
THEOREM AppliedCurrent == Spec => []AppliedIsCurrent
<1>1. IInv => AppliedIsCurrent
  <2> SUFFICES ASSUME IInv, NEW b \in BoxIds, Exists(db, b), UpToDate(b)
               PROVE  SameConfig(applied[b], Manifest(db, b))
    BY DEF AppliedIsCurrent
  <2>1. AppliedOK(db, applied[b], b) /\ db.boxes[b].version \in Nat
    BY DEF IInv, GoodStore, Store, Exists, GetBox, BoxRow
  <2>2. applied[b].version = db.boxes[b].version
    BY <2>1 DEF AppliedOK, UpToDate
  <2> QED
    BY <2>1, <2>2 DEF AppliedOK
<1> QED
  BY <1>1, Inductive, PTL

(* On SQLite a box never carries two live secrets, though operators mint at *)
(* once; on Postgres it has as many as mints overlapped, and no more.       *)
THEOREM OneSecret == Spec => []OneLiveToken
<1>1. IInv => OneLiveToken
  <2> SUFFICES ASSUME IInv, NEW b \in BoxIds, database = "sqlite"
               PROVE  Cardinality(db.tokens[b]) <= 1
    BY DEF IInv, FewSecrets, OneLiveToken
  <2>1. \A t, u \in db.tokens[b] : t = u
    BY DEF IInv, FewSecrets
  <2>2. CASE db.tokens[b] = {}
    BY <2>2, FS_EmptySet
  <2>3. CASE db.tokens[b] # {}
    <3>1. PICK t : db.tokens[b] = {t}
      BY <2>1, <2>3
    <3> QED
      <4>1. Cardinality({t}) = 1
        BY FS_Singleton
      <4> QED
        BY <3>1, <4>1
  <2> QED
    BY <2>2, <2>3
<1> QED
  BY <1>1, Inductive, PTL

(* A restart of the hub leaves the operator's assignments and limits as     *)
(* they were: the factory seeds fill them at the first open only.           *)
THEOREM ChoicesSurvive == Spec => RestartKeepsChoices
<1>1. IInv /\ [Next]_vars =>
        [Restart => db'.assignments = db.assignments /\ db'.limits = db.limits]_vars
  BY RestartKeeps DEF SameLayers
<1> QED
  BY <1>1, Inductive, PTL DEF Spec, RestartKeepsChoices

=============================================================================
