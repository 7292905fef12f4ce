------------------------------ MODULE BoxConfig ------------------------------
(***************************************************************************)
(* The configuration of the boxes: the hub's tables an operator edits, the *)
(* config_version every edit has to advance, and the poll with which a box *)
(* fetches its manifest (internal/hub/box*.go, staff_store.go and the      *)
(* model layer).                                                           *)
(*                                                                         *)
(* The tables are the fields of one record, db.  A store operation is an   *)
(* operator from a database to the next one.  What a handler reads BEFORE  *)
(* its transaction is a step of its own, and other requests run in         *)
(* between.  A field an edit can change is a member of Values: the         *)
(* properties only tell "the same" from "another".                         *)
(*                                                                         *)
(* On SQLite a transaction is one step: the store has a single connection  *)
(* (store/store.go:42).  On Postgres transactions overlap, and minting a   *)
(* box's secret is taken apart into its two statements.  The other edits   *)
(* stay one step there too, which Postgres does not give (two SetBoxOrgs,  *)
(* or a binding against a rename that looks up the boxes to advance): what *)
(* rests on it is claimed of SQLite alone.                                 *)
(***************************************************************************)
EXTENDS Naturals, FiniteSets

CONSTANTS
  BoxIds,            \* boxes, present and future
  Orgs,              \* the installation's organizations
  Staff,             \* canonical staff members
  ModelIds,          \* ids a pin may have
  Purposes,          \* roles a model can be assigned to
  Generative,        \* the purposes whose limits reach the manifest
  Values,            \* what an editable field or a limit holds; 0 is no limit
  FactoryModels,     \* [factory pin -> the purposes it serves]
  FactoryPicks,      \* [some purposes -> factory pin]
  Admins,            \* requests of operators served at the same time
  MaxEdits,          \* bound: edits and restarts of one behaviour
  None               \* no row, no value

ASSUME Defaults == {0, 1} \subseteq Values
ASSUME Bounded == MaxEdits \in Nat
ASSUME Limited == Generative \subseteq Purposes
ASSUME Factories ==
  /\ DOMAIN FactoryModels \subseteq ModelIds
  /\ \A m \in DOMAIN FactoryModels : FactoryModels[m] \subseteq Purposes
  /\ DOMAIN FactoryPicks \subseteq Purposes
  /\ \A p \in DOMAIN FactoryPicks : FactoryPicks[p] \in ModelIds

VARIABLES
  db,                \* the tables
  request,           \* [Admins -> a request between its reads and its write]
  poll,              \* [BoxIds -> the poll the hub is serving for the box]
  applied,           \* [BoxIds -> the manifest the box applied last]
  database,          \* "sqlite" or "postgres", chosen when the hub is set up
  edits              \* edits so far (bound only)

vars == <<db, request, poll, applied, database, edits>>

----------------------------------------------------------------------------
(* Rows.                                                                    *)

BoxRow == [version : Nat, fields : Values]
OrgRow == [name : Values, level : Values]
Pin == [fields : Values, purposes : SUBSET Purposes, verified : BOOLEAN, size : Values]

ASSUME NoRow == None \notin BoxRow \cup Pin \cup Values \cup ModelIds

(* ParsePurposes: a pin for the persona also serves the narrator.           *)
ParsePurposes(ps) ==
  IF "persona" \in ps THEN ps \cup ({"narrator"} \cap Purposes) ELSE ps

ServesPurpose(pin, p) == p \in pin.purposes

EmptyStore ==
  [used        |-> {},                     \* ids minted so far
   boxes       |-> [b \in BoxIds |-> None],
   boxOrgs     |-> [b \in BoxIds |-> {}],
   narrators   |-> [b \in BoxIds |-> None],
   tokens      |-> [b \in BoxIds |-> {}],
   minted      |-> 0,
   orgs        |-> [o \in Orgs |-> [name |-> 0, level |-> 0]],
   staff       |-> [s \in Staff |-> None],
   staffOverrides |-> [o \in Orgs |-> [s \in Staff |-> None]],
   models      |-> [m \in ModelIds |-> None],
   assignments |-> [p \in Purposes |-> None],
   overrides   |-> [b \in BoxIds |-> [p \in Purposes |-> None]],
   limits      |-> [p \in Purposes |-> None],
   boxLimits   |-> [b \in BoxIds |-> [p \in Purposes |-> None]],
   assignmentsSeeded |-> FALSE,
   limitsSeeded      |-> FALSE]

----------------------------------------------------------------------------
(* The version.                                                             *)

GetBox(d, b) == d.boxes[b]
Exists(d, b) == GetBox(d, b) # None

Bump(d, S) ==
  [d EXCEPT !.boxes = [b \in BoxIds |->
     IF b \in S /\ Exists(d, b)
       THEN [d.boxes[b] EXCEPT !.version = @ + 1]
       ELSE d.boxes[b]]]

bumpBoxConfig(d, b) == Bump(d, {b})
bumpAllBoxes(d) == Bump(d, BoxIds)
bumpConfigForOrg(d, o) == Bump(d, {b \in BoxIds : o \in d.boxOrgs[b]})

----------------------------------------------------------------------------
(* Boxes, what they are bound to, and their secrets.                        *)

(* CreateBox is two commits: the row at version 1, then the narrator's      *)
(* seed, which advances nothing.                                            *)
InsertBox(d, b) ==
  [d EXCEPT !.boxes[b] = [version |-> 1, fields |-> 0], !.used = @ \cup {b}]

EnsureSeedNarrator(d, b) ==
  IF d.narrators[b] = None THEN [d EXCEPT !.narrators[b] = 0] ELSE d

UpdateBox(d, b, v) == bumpBoxConfig([d EXCEPT !.boxes[b].fields = v], b)

SetBoxOrgs(d, b, os) == bumpBoxConfig([d EXCEPT !.boxOrgs[b] = os], b)

(* The cascade names the tables one by one; the box's limits are not among  *)
(* them.                                                                    *)
DeleteBox(d, b) ==
  [d EXCEPT !.boxOrgs[b] = {},
            !.narrators[b] = None,
            !.tokens[b] = {},
            !.overrides[b] = [p \in Purposes |-> None],
            !.boxes[b] = None]

(* Slip: the arguments of the statement swapped.                           *)
UpdateBoxNarratorSwapped(d, b, v) == bumpBoxConfig([d EXCEPT !.narrators[b] = b], b)

UpdateBoxNarrator(d, b, v) == bumpBoxConfig([d EXCEPT !.narrators[b] = v], b)

(* A secret is known by its row's id and the operator who minted it.  The   *)
(* UPDATE revokes the live rows it saw; rows committed since stay live.     *)

(* Slip: the live secrets are not revoked.                                 *)
CreateBoxTokenBeside(d, a, b, seen) ==
  [d EXCEPT !.tokens[b] = @ \cup {[id |-> d.minted + 1, by |-> a]}, !.minted = @ + 1]

CreateBoxToken(d, a, b, seen) ==
  [d EXCEPT !.tokens[b] = (@ \ seen) \cup {[id |-> d.minted + 1, by |-> a]},
            !.minted = @ + 1]

RevokeBoxToken(d, b, t) == [d EXCEPT !.tokens[b] = @ \ {t}]

----------------------------------------------------------------------------
(* Organizations and staff.                                                 *)

RenameOrg(d, o, v) == bumpConfigForOrg([d EXCEPT !.orgs[o].name = v], o)
SetOrgLevel(d, o, v) == bumpConfigForOrg([d EXCEPT !.orgs[o].level = v], o)

UpsertStaff(d, s, v) == bumpAllBoxes([d EXCEPT !.staff[s] = v])

SetOrgStaffOverride(d, o, s, v) ==
  bumpConfigForOrg([d EXCEPT !.staffOverrides[o][s] = v], o)

(* Clearing an override that is not there is no error, and advances too.    *)
ClearOrgStaffOverride(d, o, s) ==
  bumpConfigForOrg([d EXCEPT !.staffOverrides[o][s] = None], o)

(* The roster of one organization: the override where there is one.         *)
StaffForOrg(d, o) ==
  [s \in {t \in Staff : d.staff[t] # None} |->
     IF d.staffOverrides[o][s] # None THEN d.staffOverrides[o][s] ELSE d.staff[s]]

----------------------------------------------------------------------------
(* The model layer: pins, factory assignments, overrides, limits.           *)

CreateModel(d, m, pin) == bumpAllBoxes([d EXCEPT !.models[m] = pin])

(* The learned size is not among the fields an update writes.               *)
UpdateModel(d, m, pin) ==
  IF d.models[m] = None THEN d
  ELSE bumpAllBoxes([d EXCEPT !.models[m] = [pin EXCEPT !.size = d.models[m].size]])

(* What the inspection of a pin learned; no version advances.               *)
SetModelMeta(d, m, size) ==
  IF d.models[m] = None THEN d ELSE [d EXCEPT !.models[m].size = size]

modelInUse(d, m) ==
  \/ \E p \in Purposes : d.assignments[p] = m
  \/ \E b \in BoxIds, p \in Purposes : d.overrides[b][p] = m

DeleteModel(d, m) ==
  IF d.models[m] = None THEN d ELSE bumpAllBoxes([d EXCEPT !.models[m] = None])

(* The cross-validation of an assignment and of an override.                *)
Assignable(d, m, p) ==
  /\ d.models[m] # None
  /\ ServesPurpose(d.models[m], p)
  /\ d.models[m].verified

SetAssignment(d, p, m) == bumpAllBoxes([d EXCEPT !.assignments[p] = m])

ClearAssignment(d, p) ==
  IF d.assignments[p] = None THEN d
  ELSE bumpAllBoxes([d EXCEPT !.assignments[p] = None])

SetBoxModelOverride(d, b, p, m) ==
  bumpBoxConfig([d EXCEPT !.overrides[b][p] = m], b)

ClearBoxModelOverride(d, b, p) ==
  IF d.overrides[b][p] = None THEN d
  ELSE bumpBoxConfig([d EXCEPT !.overrides[b][p] = None], b)

SetLimit(d, p, v) == bumpAllBoxes([d EXCEPT !.limits[p] = v])

ClearLimit(d, p) ==
  IF d.limits[p] = None THEN d ELSE bumpAllBoxes([d EXCEPT !.limits[p] = None])

SetBoxLimit(d, b, p, v) == bumpBoxConfig([d EXCEPT !.boxLimits[b][p] = v], b)

ClearBoxLimit(d, b, p) ==
  IF d.boxLimits[b][p] = None THEN d
  ELSE bumpBoxConfig([d EXCEPT !.boxLimits[b][p] = None], b)

(* override ?? factory                                                      *)
ResolvedId(d, b, p) ==
  IF d.overrides[b][p] # None THEN d.overrides[b][p] ELSE d.assignments[p]

(* A reference to a pin that is gone is an error of the whole roster.       *)
Resolves(d, b) ==
  \A p \in Purposes : ResolvedId(d, b, p) # None => d.models[ResolvedId(d, b, p)] # None

ResolvedModels(d, b) ==
  [p \in {q \in Purposes : ResolvedId(d, b, q) # None} |->
     [id |-> ResolvedId(d, b, p), pin |-> d.models[ResolvedId(d, b, p)]]]

ResolvedLimit(d, b, p) ==
  IF d.boxLimits[b][p] # None THEN d.boxLimits[b][p] ELSE d.limits[p]

(* Only a positive limit of a generative purpose that has a model is        *)
(* written out.                                                             *)
ManifestLimits(d, b, models) ==
  [p \in Generative \cap DOMAIN models |->
     IF ResolvedLimit(d, b, p) \in {None, 0} THEN None ELSE ResolvedLimit(d, b, p)]

----------------------------------------------------------------------------
(* The factory seeds, run on every open of the store.                       *)

Factory(m) ==
  [fields |-> 0, purposes |-> ParsePurposes(FactoryModels[m]), verified |-> TRUE, size |-> 0]

(* A factory pin that is missing or has drifted is written back.  A digest  *)
(* the store holds is kept, and the factory's only fills an empty one: both *)
(* leave the pin verified.                                                  *)
EnsureSeedModels(d) ==
  LET drifted == {m \in DOMAIN FactoryModels : d.models[m] # Factory(m)}
  IN  IF drifted = {} THEN d
      ELSE bumpAllBoxes([d EXCEPT !.models =
             [m \in ModelIds |-> IF m \in drifted THEN Factory(m) ELSE d.models[m]]])

pendingFactoryAssignments(d) ==
  {p \in DOMAIN FactoryPicks : d.assignments[p] = None /\ Assignable(d, FactoryPicks[p], p)}

(* Slip: the marker is not looked at.                                      *)
EnsureSeedAssignmentsAlways(d) ==
  LET pending == pendingFactoryAssignments(d)
  IN  IF pending = {} THEN d
      ELSE bumpAllBoxes([d EXCEPT !.assignments =
             [p \in Purposes |-> IF p \in pending THEN FactoryPicks[p] ELSE @[p]]])

(* Once: the marker is written whether or not anything was filled.          *)
EnsureSeedAssignments(d) ==
  LET pending == pendingFactoryAssignments(d)
      marked  == [d EXCEPT !.assignmentsSeeded = TRUE]
  IN  IF d.assignmentsSeeded THEN d
      ELSE IF pending = {} THEN marked
      ELSE bumpAllBoxes([marked EXCEPT !.assignments =
             [p \in Purposes |-> IF p \in pending THEN FactoryPicks[p] ELSE @[p]]])

EnsureSeedLimits(d) ==
  LET pending == {p \in Generative : d.limits[p] = None}
      marked  == [d EXCEPT !.limitsSeeded = TRUE]
  IN  IF d.limitsSeeded THEN d
      ELSE IF pending = {} THEN marked
      ELSE bumpAllBoxes([marked EXCEPT !.limits =
             [p \in Purposes |-> IF p \in pending THEN 1 ELSE @[p]]])

EnsureSeedStaff(d) ==
  IF \A s \in Staff : d.staff[s] # None THEN d
  ELSE bumpAllBoxes([d EXCEPT !.staff =
         [s \in Staff |-> IF @[s] = None THEN 0 ELSE @[s]]])

(* The order of openStore.                                                  *)
openStore(d) ==
  EnsureSeedStaff(EnsureSeedLimits(EnsureSeedAssignments(EnsureSeedModels(d))))

----------------------------------------------------------------------------
(* What a box is served.                                                    *)

(* Part by part, in the order BuildBoxManifest reads.                       *)
ManifestOrgs(d, b) ==
  [o \in d.boxOrgs[b] |-> [row |-> d.orgs[o], staff |-> StaffForOrg(d, o)]]

Manifest(d, b) ==
  [version  |-> d.boxes[b].version,
   box      |-> d.boxes[b].fields,
   orgs     |-> ManifestOrgs(d, b),
   narrator |-> d.narrators[b],
   models   |-> ResolvedModels(d, b),
   limits   |-> ManifestLimits(d, b, ResolvedModels(d, b))]

(* A manifest of which nothing was read.                                    *)
Nothing == [version |-> 0, box |-> None, orgs |-> None, narrator |-> None,
            models |-> None, limits |-> None]
Idle == [at |-> "idle"]

----------------------------------------------------------------------------
(* Operators' requests.  Edit is a handler that writes at once; Ask and     *)
(* Answer are one that reads before it writes.                              *)

Edit(d) ==
  /\ edits < MaxEdits
  /\ edits' = edits + 1
  /\ db' = d
  /\ UNCHANGED <<request, poll, applied, database>>

Begin(a) ==
  /\ edits < MaxEdits
  /\ request[a] = Idle
  /\ edits' = edits + 1
  /\ UNCHANGED <<poll, applied, database>>

Ask(a) == Begin(a) /\ UNCHANGED db

Answer(a, d) ==
  /\ request' = [request EXCEPT ![a] = Idle]
  /\ db' = d
  /\ UNCHANGED <<poll, applied, database, edits>>

handleUpdateBox(b, v) == Exists(db, b) /\ Edit(UpdateBox(db, b, v))
handleDeleteBox(b) == Exists(db, b) /\ Edit(DeleteBox(db, b))
handleRenameOrg(o, v) == Edit(RenameOrg(db, o, v))
handleSetOrgLevel(o, v) == Edit(SetOrgLevel(db, o, v))
handleUpsertStaff(s, v) == Edit(UpsertStaff(db, s, v))
handleSetOrgStaffOverride(o, s, v) == Edit(SetOrgStaffOverride(db, o, s, v))
handleClearOrgStaffOverride(o, s) == Edit(ClearOrgStaffOverride(db, o, s))
handleClearAssignment(p) == Edit(ClearAssignment(db, p))
handleSetLimit(p, v) == Edit(SetLimit(db, p, v))
handleClearLimit(p) == Edit(ClearLimit(db, p))
handleCreateModel(m, pin) == db.models[m] = None /\ Edit(CreateModel(db, m, pin))

(* The inspection asks Hugging Face between its read and its write; the     *)
(* write goes by id, so the read leaves nothing behind.                     *)
handleInspectModel(m, size) == Edit(SetModelMeta(db, m, size))

(* The row is committed, the narrator is not seeded yet.  The id is new.    *)
handleCreateBox(a, b) ==
  /\ b \notin db.used
  /\ Begin(a)
  /\ db' = InsertBox(db, b)
  /\ request' = [request EXCEPT ![a] = [at |-> "seed", box |-> b]]

SeedNarrator(a) ==
  /\ request[a].at = "seed"
  /\ Answer(a, EnsureSeedNarrator(db, request[a].box))

(* boxOr404, then the write: by then the box may be gone.                   *)
boxOr404(a, b) == Exists(db, b) /\ Ask(a)

handleSetBoxOrgs(a, b) ==
  \E os \in SUBSET Orgs :
    /\ boxOr404(a, b)
    /\ request' = [request EXCEPT ![a] = [at |-> "orgs", box |-> b, orgs |-> os]]

WriteBoxOrgs(a) ==
  /\ request[a].at = "orgs"
  /\ Answer(a, SetBoxOrgs(db, request[a].box, request[a].orgs))

handleUpdateBoxNarrator(a, b) ==
  \E v \in Values :
    /\ boxOr404(a, b)
    /\ request' = [request EXCEPT ![a] = [at |-> "narrator", box |-> b, value |-> v]]

WriteNarrator(a) ==
  /\ request[a].at = "narrator"
  /\ Answer(a, UpdateBoxNarrator(db, request[a].box, request[a].value))

handleCreateBoxToken(a, b) ==
  /\ boxOr404(a, b)
  /\ request' = [request EXCEPT ![a] = [at |-> "token", box |-> b]]

(* The transaction on SQLite, its UPDATE and its INSERT in one.             *)
MintAlone(a) ==
  /\ database = "sqlite"
  /\ request[a].at = "token"
  /\ Answer(a, CreateBoxToken(db, a, request[a].box, db.tokens[request[a].box]))

(* On Postgres the UPDATE revokes the rows committed by then; one that      *)
(* waits for another mint's row lock does not see the row that mint         *)
(* inserted.  Nothing of it shows before the commit.                        *)
RevokeLive(a) ==
  /\ database = "postgres"
  /\ request[a].at = "token"
  /\ request' = [request EXCEPT ![a] =
       [at |-> "mint", box |-> request[a].box, seen |-> db.tokens[request[a].box]]]
  /\ UNCHANGED <<db, poll, applied, database, edits>>

(* The INSERT and the commit; no index has two live rows of a box refused.  *)
InsertToken(a) ==
  /\ request[a].at = "mint"
  /\ Answer(a, CreateBoxToken(db, a, request[a].box, request[a].seen))

handleRevokeBoxToken(b, t) == Exists(db, b) /\ Edit(RevokeBoxToken(db, b, t))

handleSetBoxLimit(a, b, p) ==
  \E v \in Values :
    /\ boxOr404(a, b)
    /\ request' = [request EXCEPT ![a] =
         [at |-> "limit", box |-> b, purpose |-> p, value |-> v]]

WriteBoxLimit(a) ==
  /\ request[a].at = "limit"
  /\ Answer(a, SetBoxLimit(db, request[a].box, request[a].purpose, request[a].value))

handleClearBoxLimit(b, p) == Exists(db, b) /\ Edit(ClearBoxLimit(db, b, p))

handleClearBoxModelOverride(b, p) ==
  Exists(db, b) /\ Edit(ClearBoxModelOverride(db, b, p))

(* The pin is validated before the transaction that refers to it.           *)
handleSetBoxModelOverride(a, b, p, m) ==
  /\ Assignable(db, m, p)
  /\ boxOr404(a, b)
  /\ request' = [request EXCEPT ![a] =
       [at |-> "override", box |-> b, purpose |-> p, model |-> m]]

WriteOverride(a) ==
  LET r == request[a]
  IN  /\ r.at = "override"
      /\ Answer(a, SetBoxModelOverride(db, r.box, r.purpose, r.model))

handleSetAssignment(a, p, m) ==
  /\ Assignable(db, m, p)
  /\ Ask(a)
  /\ request' = [request EXCEPT ![a] = [at |-> "assign", purpose |-> p, model |-> m]]

WriteAssignment(a) ==
  /\ request[a].at = "assign"
  /\ Answer(a, SetAssignment(db, request[a].purpose, request[a].model))

handleUpdateModel(a, m, pin) ==
  /\ db.models[m] # None
  /\ Ask(a)
  /\ request' = [request EXCEPT ![a] = [at |-> "update", model |-> m, pin |-> pin]]

WriteModel(a) ==
  /\ request[a].at = "update"
  /\ Answer(a, UpdateModel(db, request[a].model, request[a].pin))

(* The in-use read guards the delete, it does not join it.                  *)
handleDeleteModel(a, m) ==
  /\ ~modelInUse(db, m)
  /\ Ask(a)
  /\ request' = [request EXCEPT ![a] = [at |-> "delete", model |-> m]]

WriteDelete(a) ==
  /\ request[a].at = "delete"
  /\ Answer(a, DeleteModel(db, request[a].model))

----------------------------------------------------------------------------
(* The poll of one box.  The box asks since the version it applied.         *)

Step(b, p) ==
  /\ poll' = [poll EXCEPT ![b] = p]
  /\ UNCHANGED <<db, request, applied, database, edits>>

(* BoxTokenAuth: a live secret, and the box of the path is the token's.     *)
BoxTokenAuth(b) ==
  /\ poll[b].at = "idle"
  /\ db.tokens[b] # {}
  /\ Step(b, [at |-> "since"])

(* 404 for a box that is gone, 304 at or past the current version.          *)
UpToDate(b) == Exists(db, b) => applied[b].version >= db.boxes[b].version

(* Slip: a box one edit behind is told it is up to date.                    *)
handleBoxChangesLagging(b) ==
  /\ poll[b].at = "since"
  /\ Step(b, IF Exists(db, b) => applied[b].version + 1 >= db.boxes[b].version
               THEN Idle ELSE [at |-> "box"])

handleBoxChanges(b) ==
  /\ poll[b].at = "since"
  /\ Step(b, IF UpToDate(b) THEN Idle ELSE [at |-> "box"])

(* BuildBoxManifest: one statement after another, no transaction around.    *)
Read(b, stage, next, got) ==
  /\ poll[b].at = stage
  /\ Step(b, [at |-> next, got |-> got])

ReadBox(b) ==
  /\ poll[b].at = "box"
  /\ Step(b, IF Exists(db, b)
               THEN [at |-> "orgs", got |-> [Nothing EXCEPT !.version = db.boxes[b].version,
                                                            !.box = db.boxes[b].fields]]
               ELSE Idle)

ReadOrgs(b) ==
  Read(b, "orgs", "narrator", [poll[b].got EXCEPT !.orgs = ManifestOrgs(db, b)])

ReadNarrator(b) ==
  Read(b, "narrator", "models", [poll[b].got EXCEPT !.narrator = db.narrators[b]])

ReadModels(b) ==
  IF Resolves(db, b)
    THEN Read(b, "models", "limits", [poll[b].got EXCEPT !.models = ResolvedModels(db, b)])
    ELSE poll[b].at = "models" /\ Step(b, Idle)

(* Slip: the version is read after the parts.                              *)
BuildBoxManifestLabelledLast(b) ==
  /\ poll[b].at = "limits"
  /\ applied' = [applied EXCEPT ![b] =
       [poll[b].got EXCEPT !.limits = ManifestLimits(db, b, poll[b].got.models),
                           !.version = IF Exists(db, b) THEN db.boxes[b].version ELSE 0]]
  /\ poll' = [poll EXCEPT ![b] = Idle]
  /\ UNCHANGED <<db, request, database, edits>>

(* The last read; the manifest is answered and the box applies it.          *)
BuildBoxManifest(b) ==
  /\ poll[b].at = "limits"
  /\ applied' = [applied EXCEPT ![b] =
       [poll[b].got EXCEPT !.limits = ManifestLimits(db, b, poll[b].got.models)]]
  /\ poll' = [poll EXCEPT ![b] = Idle]
  /\ UNCHANGED <<db, request, database, edits>>

(* The hub stops anywhere and opens its store again: the requests and the   *)
(* polls it was serving are gone, what was committed stays.                 *)
Restart ==
  /\ edits < MaxEdits
  /\ edits' = edits + 1
  /\ db' = openStore(db)
  /\ request' = [a \in Admins |-> Idle]
  /\ poll' = [b \in BoxIds |-> Idle]
  /\ UNCHANGED <<applied, database>>

----------------------------------------------------------------------------
Pins(m) ==
  [fields : Values, purposes : {ParsePurposes(ps) : ps \in SUBSET Purposes \ {{}}},
   verified : BOOLEAN, size : {0}]

OrgAndStaffEdits ==
  \/ \E o \in Orgs, v \in Values : handleRenameOrg(o, v) \/ handleSetOrgLevel(o, v)
  \/ \E s \in Staff, v \in Values : handleUpsertStaff(s, v)
  \/ \E o \in Orgs, s \in Staff, v \in Values : handleSetOrgStaffOverride(o, s, v)
  \/ \E o \in Orgs, s \in Staff : handleClearOrgStaffOverride(o, s)

BoxEdits ==
  \/ \E b \in BoxIds, v \in Values : handleUpdateBox(b, v)
  \/ \E b \in BoxIds : handleDeleteBox(b)
  \/ \E b \in BoxIds : \E t \in db.tokens[b] : handleRevokeBoxToken(b, t)
  \/ \E b \in BoxIds, p \in Purposes :
       handleClearBoxLimit(b, p) \/ handleClearBoxModelOverride(b, p)
  \/ \E a \in Admins, b \in BoxIds :
       \/ handleCreateBox(a, b)
       \/ handleSetBoxOrgs(a, b)
       \/ handleUpdateBoxNarrator(a, b)
       \/ handleCreateBoxToken(a, b)
       \/ \E p \in Purposes : handleSetBoxLimit(a, b, p)
       \/ \E p \in Purposes, m \in ModelIds : handleSetBoxModelOverride(a, b, p, m)

ModelEdits ==
  \/ \E p \in Purposes : handleClearAssignment(p) \/ handleClearLimit(p)
  \/ \E p \in Purposes, v \in Values : handleSetLimit(p, v)
  \/ \E m \in ModelIds : \E pin \in Pins(m) : handleCreateModel(m, pin)
  \/ \E m \in ModelIds, v \in Values : handleInspectModel(m, v)
  \/ \E a \in Admins, m \in ModelIds :
       \/ \E pin \in Pins(m) : handleUpdateModel(a, m, pin)
       \/ \E p \in Purposes : handleSetAssignment(a, p, m)
       \/ handleDeleteModel(a, m)

Writes(a) ==
  \/ SeedNarrator(a) \/ WriteBoxOrgs(a) \/ WriteNarrator(a)
  \/ MintAlone(a) \/ RevokeLive(a) \/ InsertToken(a)
  \/ WriteBoxLimit(a) \/ WriteOverride(a) \/ WriteAssignment(a) \/ WriteModel(a)
  \/ WriteDelete(a)

Served(b) ==
  \/ handleBoxChanges(b) \/ ReadBox(b) \/ ReadOrgs(b) \/ ReadNarrator(b)
  \/ ReadModels(b) \/ BuildBoxManifest(b)

Poll(b) == BoxTokenAuth(b) \/ Served(b)

Next ==
  \/ OrgAndStaffEdits
  \/ BoxEdits
  \/ ModelEdits
  \/ \E a \in Admins : Writes(a)
  \/ \E b \in BoxIds : Poll(b)
  \/ Restart

InitWith(d) ==
  /\ db = d
  /\ request = [a \in Admins |-> Idle]
  /\ poll = [b \in BoxIds |-> Idle]
  /\ applied = [b \in BoxIds |-> Nothing]
  /\ database \in {"sqlite", "postgres"}
  /\ edits = 0

Init == InitWith(openStore(EmptyStore))

Spec == Init /\ [][Next]_vars

(* A request that was accepted is carried out, and a box polls forever.     *)
Fairness ==
  /\ \A a \in Admins : WF_vars(Writes(a))
  /\ \A b \in BoxIds : WF_vars(Poll(b))

----------------------------------------------------------------------------
(* Properties.                                                              *)

TypeOK ==
  /\ edits \in 0..MaxEdits
  /\ db.boxes \in [BoxIds -> BoxRow \cup {None}]
  /\ db.boxOrgs \in [BoxIds -> SUBSET Orgs]
  /\ db.orgs \in [Orgs -> OrgRow]
  /\ db.narrators \in [BoxIds -> Values \cup {None}]
  /\ db.staff \in [Staff -> Values \cup {None}]
  /\ db.models \in [ModelIds -> Pin \cup {None}]
  /\ db.assignments \in [Purposes -> ModelIds \cup {None}]
  /\ db.overrides \in [BoxIds -> [Purposes -> ModelIds \cup {None}]]
  /\ db.limits \in [Purposes -> Values \cup {None}]
  /\ \A b \in BoxIds : poll[b].at \in
       {"idle", "since", "box", "orgs", "narrator", "models", "limits"}
  /\ \A a \in Admins : request[a].at \in
       {"idle", "seed", "orgs", "narrator", "token", "mint", "limit", "override",
        "assign", "update", "delete"}
  /\ database \in {"sqlite", "postgres"}

(* Two things reach a manifest without advancing the version: the size an   *)
(* inspection learns, and the seed of a narrator nobody had read.  Equal    *)
(* otherwise.                                                               *)
SameModels(ms, ns) ==
  /\ DOMAIN ms = DOMAIN ns
  /\ \A p \in DOMAIN ms : /\ ms[p].id = ns[p].id
                          /\ [ms[p].pin EXCEPT !.size = 0] = [ns[p].pin EXCEPT !.size = 0]

SameConfig(m, n) ==
  /\ m.box = n.box /\ m.orgs = n.orgs /\ m.limits = n.limits
  /\ m.narrator \in {n.narrator, None}
  /\ SameModels(m.models, n.models)

(* On SQLite, a box the hub answers "not modified" runs the hub's           *)
(* configuration of it: no edit of any table changes a manifest without     *)
(* advancing the version, and a manifest read piecemeal, across edits, is   *)
(* never labelled with a version newer than one of its parts (box_sync.go,  *)
(* box_manifest.go, and every bump of the stores).                          *)
AppliedIsCurrent ==
  database = "sqlite" =>
    \A b \in BoxIds :
      (Exists(db, b) /\ UpToDate(b) /\ Resolves(db, b)) =>
        SameConfig(applied[b], Manifest(db, b))

(* Minting retires a box's earlier secrets (box_token_store.go,             *)
(* CreateBoxToken).  On SQLite a box never carries two live ones, though    *)
(* two operators mint at once.  On Postgres it can: mints that overlap each *)
(* leave theirs.  No more than that: of one operator's mints at most the    *)
(* last is live, so a box never has more secrets than mints that overlapped.*)
OneLiveToken ==
  \A b \in BoxIds :
    /\ database = "sqlite" => Cardinality(db.tokens[b]) <= 1
    /\ \A t, u \in db.tokens[b] : t.by = u.by => t = u

(* A restart of the hub leaves the operator's layers as they were: an       *)
(* assignment or a limit that was cleared stays cleared, one that was set   *)
(* stays set (EnsureSeedAssignments, EnsureSeedLimits).                     *)
RestartKeepsChoices ==
  [][Restart => db'.assignments = db.assignments /\ db'.limits = db.limits]_vars

(* On SQLite, once the operators are done, a box that holds a secret ends   *)
(* up with the configuration the hub has for it (handleBoxChanges: nothing  *)
(* but since decides whether it is served again).                           *)
Settled(b) ==
  /\ edits = MaxEdits /\ \A a \in Admins : request[a] = Idle
  /\ Exists(db, b) /\ db.tokens[b] # {} /\ Resolves(db, b)

EditsReachTheBox ==
  \A b \in BoxIds :
    (database = "sqlite" /\ Settled(b)) ~> (Exists(db, b) /\ UpToDate(b) /\ SameConfig(applied[b], Manifest(db, b)))

(* What ResolvedModels says of the store's guards: no assignment and no     *)
(* override refers to a pin that is not in the registry                     *)
(* (box_model_override_store.go:155).                                       *)
RosterResolves == \A b \in BoxIds : Exists(db, b) => Resolves(db, b)

=============================================================================
