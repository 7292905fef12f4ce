-------------------- MODULE ProjectsAndEnrolment_proofs ----------------------
(****************************************************************************)
(* Theorems about the projects of a hub and the enrolment of machines into  *)
(* them (HubServices), for any number of projects, machines, tokens and     *)
(* requests: the walls of the plan, what the idle sweep deletes, and that a *)
(* token enrols one connector, of the project it was minted for.            *)
(****************************************************************************)
EXTENDS HubServices, FiniteSetTheorems, SequenceTheorems, TLAPS

----------------------------------------------------------------------------
(* Projects.                                                                *)

(* HubProjects counts as the theorems about finite sets do.                 *)
LEMMA ProjectsCount ==
  ASSUME NEW S
  PROVE  /\ Project!Cardinality(S) = Cardinality(S)
         /\ Project!IsFiniteSet(S) <=> IsFiniteSet(S)
BY DEF Project!Cardinality, Cardinality, Project!IsFiniteSet, IsFiniteSet

FewRequests == IsFiniteSet(ProjectRequests)

Machine == ProjectMachines \cup {None}
Rows == [HubProjectIds -> Project!Row \cup {None, Gone}]

(* The stages of a request.                                                 *)
Creations == [at : {"create"}, machine : Machine]
Choices   == [at : {"update", "attach", "select", "write selected", "detach"},
              project : HubProjectIds, machine : Machine]
Visits    == [at : {"stamp", "list", "ran", "keep"}, project : HubProjectIds]
Repairs   == [at : {"repair"}, project : HubProjectIds, ids : Seq(ProjectMachines)]
Kinds     == {Project!Idle} \cup Creations \cup Choices \cup Visits \cup Repairs

RequestsOK == project_request \in [ProjectRequests -> Kinds]

Distinct(s) == \A i, j \in 1..Len(s) : s[i] = s[j] => i = j
Elements(s) == {s[i] : i \in 1..Len(s)}

EnrolledOK ==
  /\ project_enrolled \in [HubProjectIds -> Seq(ProjectMachines)]
  /\ \A p \in HubProjectIds : Distinct(project_enrolled[p])

(* A project that was never there has no machines, and no request adds one. *)
Unborn ==
  \A p \in HubProjectIds : project_project[p] = None =>
    /\ project_enrolled[p] = <<>>
    /\ \A r \in ProjectRequests : project_request[r].at \in {"update", "attach"} =>
         project_request[r].project # p

(* The requests that have been let through the wall and have not written.   *)
Creating == {r \in ProjectRequests : Project!At(r, "create")}
Adding(p) == {r \in ProjectRequests : /\ project_request[r].at \in {"update", "attach"}
                                      /\ project_request[r].project = p
                                      /\ project_request[r].machine # None}
Wanted(p) == Elements(project_enrolled[p]) \cup {project_request[r].machine : r \in Adding(p)}

(* The walls, with the requests that have been let through them.            *)
ProjectsFit ==
  /\ IsFiniteSet(Project!Existing)
  /\ ProjectLimit # 0 =>
       Cardinality(Project!Existing) + Cardinality(Creating)
         <= ProjectLimit + Cardinality(ProjectRequests) - 1

MachinesFit ==
  MachineLimit # 0 =>
    \A p \in Project!Existing :
      /\ IsFiniteSet(Wanted(p))
      /\ Cardinality(Wanted(p)) <= MachineLimit + Cardinality(ProjectRequests) - 1

(* The row of a project knows every use of it.                              *)
UsedOK ==
  /\ project_used \in [HubProjectIds -> Nat]
  /\ \A p \in HubProjectIds : project_used[p] <= project_clock
  /\ \A p \in Project!Existing : project_used[p] <= project_project[p].activity

(* So do the rows the sweep decides by, of the uses before it listed them;  *)
(* a row that it is about to read again knows of the worker it found.       *)
Visiting ==
  [at : {"visit"}, now : Nat, left : SUBSET HubProjectIds, rows : Rows,
   used : [HubProjectIds -> Nat]]
Deciding == [at : {"decide", "read again", "mark"}, now : Nat, left : SUBSET HubProjectIds,
             rows : Rows, used : [HubProjectIds -> Nat], project : HubProjectIds]

Known(p) ==
  project_sweep.rows[p] \in Project!Row /\ project_sweep.used[p] <= project_sweep.rows[p].activity

SweepOK ==
  /\ project_sweep \in {Project!Resting} \cup Visiting \cup Deciding
  /\ project_sweep \in Visiting \cup Deciding =>
       /\ project_sweep.now <= project_clock
       /\ \A p \in HubProjectIds : project_sweep.used[p] <= project_clock
       /\ \A p \in project_sweep.left : Known(p)
  /\ project_sweep \in Deciding => project_sweep.project \notin project_sweep.left
  /\ Project!SweepAt("decide") => Known(project_sweep.project)
  /\ Project!SweepAt("read again") /\ project_sweep.project \in Project!Existing =>
       project_sweep.used[project_sweep.project] <= project_project[project_sweep.project].activity

RowsOK == Project!TypeOK /\ RequestsOK /\ EnrolledOK /\ Unborn

ProjectInv == RowsOK /\ ProjectsFit /\ MachinesFit /\ UsedOK /\ SweepOK

----------------------------------------------------------------------------
(* Sequences without repetition.                                            *)

(* One more.                                                                *)
LEMMA Appended ==
  ASSUME NEW C, NEW s \in Seq(C), Distinct(s), NEW c \in C, \A i \in 1..Len(s) : s[i] # c
  PROVE  /\ Append(s, c) \in Seq(C) /\ Distinct(Append(s, c))
         /\ Elements(Append(s, c)) = Elements(s) \cup {c}
<1>1. /\ Append(s, c) \in Seq(C) /\ Len(Append(s, c)) = Len(s) + 1 /\ Len(s) \in Nat
      /\ \A i \in 1..Len(s) : Append(s, c)[i] = s[i]
      /\ Append(s, c)[Len(s) + 1] = c
  OBVIOUS
<1>2. Distinct(Append(s, c))
  BY <1>1 DEF Distinct
<1>3. \A i \in 1..(Len(s) + 1) : i \in 1..Len(s) \/ i = Len(s) + 1
  BY <1>1
<1>4. Elements(Append(s, c)) = Elements(s) \cup {c}
  BY <1>1, <1>3 DEF Elements
<1> QED
  BY <1>1, <1>2, <1>4

(* One less.                                                                *)
LEMMA Removed ==
  ASSUME NEW C, NEW s \in Seq(C), Distinct(s), NEW c
  PROVE  /\ Project!Without(s, c) \in Seq(C) /\ Distinct(Project!Without(s, c))
         /\ Elements(Project!Without(s, c)) \subseteq Elements(s)
<1>1. CASE ~\E i \in 1..Len(s) : s[i] = c
  BY <1>1 DEF Project!Without
<1>2. CASE \E i \in 1..Len(s) : s[i] = c
  <2> DEFINE i == CHOOSE j \in 1..Len(s) : s[j] = c
             front == SubSeq(s, 1, i - 1)
             back == SubSeq(s, i + 1, Len(s))
             t == front \o back
  <2>1. i \in 1..Len(s) /\ Len(s) \in Nat
    BY <1>2
  <2>2. Project!Without(s, c) = t
    BY <1>2, Zenon DEF Project!Without
  <2> HIDE DEF i
  <2>3. \A j \in 1..Len(s) : s[j] \in C
    OBVIOUS
  <2>4. /\ front \in Seq(C) /\ Len(front) = i - 1
        /\ \A j \in 1..(i - 1) : front[j] = s[j]
    BY <2>1, <2>3, SubSeqProperties
  <2>5. /\ back \in Seq(C) /\ Len(back) = Len(s) - i
        /\ \A j \in 1..(Len(s) - i) : back[j] = s[i + j]
    BY <2>1, <2>3, SubSeqProperties
  <2> HIDE DEF front, back
  <2>6. /\ t \in Seq(C) /\ Len(t) = Len(s) - 1
        /\ \A j \in 1..(Len(s) - 1) : t[j] = IF j < i THEN s[j] ELSE s[j + 1]
    <3>1. /\ t \in Seq(C) /\ Len(t) = Len(front) + Len(back)
          /\ \A j \in 1..Len(front) + Len(back) :
               t[j] = IF j <= Len(front) THEN front[j] ELSE back[j - Len(front)]
      BY <2>4, <2>5, ConcatProperties
    <3> HIDE DEF t
    <3>2. Len(t) = Len(s) - 1
      BY <2>1, <2>4, <2>5, <3>1
    <3>3. Len(front) + Len(back) = Len(s) - 1 /\ Len(front) = i - 1
      BY <2>1, <2>4, <2>5
    <3>4. \A j \in 1..(Len(s) - 1) : t[j] = IF j <= i - 1 THEN front[j] ELSE back[j - (i - 1)]
      BY <3>1, <3>3
    <3>5. ASSUME NEW j \in 1..(Len(s) - 1) PROVE t[j] = IF j < i THEN s[j] ELSE s[j + 1]
      <4>1. CASE j < i
        BY <2>1, <2>4, <3>4, <4>1
      <4>2. CASE j >= i
        <5>1. t[j] = back[j - (i - 1)] /\ j - (i - 1) \in 1..(Len(s) - i)
          BY <2>1, <3>4, <4>2
        <5>2. back[j - (i - 1)] = s[i + (j - (i - 1))] /\ i + (j - (i - 1)) = j + 1
          BY <2>1, <2>5, <5>1
        <5> QED
          BY <2>1, <4>2, <5>1, <5>2
      <4> QED
        BY <2>1, <4>1, <4>2
    <3> QED
      BY <3>1, <3>2, <3>5
  <2> HIDE DEF t
  <2>7. Distinct(t)
    <3> SUFFICES ASSUME NEW a \in 1..Len(t), NEW b \in 1..Len(t), t[a] = t[b] PROVE a = b
      BY DEF Distinct
    <3> DEFINE Was(j) == IF j < i THEN j ELSE j + 1
    <3>1. /\ a \in 1..(Len(s) - 1) /\ b \in 1..(Len(s) - 1)
          /\ Was(a) \in 1..Len(s) /\ Was(b) \in 1..Len(s)
      BY <2>1, <2>6
    <3>2. t[a] = s[Was(a)] /\ t[b] = s[Was(b)]
      BY <2>6, <3>1
    <3>3. Was(a) = Was(b)
      BY <3>1, <3>2 DEF Distinct
    <3> QED
      BY <2>1, <3>1, <3>3
  <2>8. \A j \in 1..Len(t) : j \in 1..Len(s) /\ j + 1 \in 1..Len(s)
    BY <2>1, <2>6
  <2>9. Elements(t) \subseteq Elements(s)
    BY <2>6, <2>8 DEF Elements
  <2> QED
    BY <2>6, <2>7, <2>9, <2>2
<1> QED
  BY <1>1, <1>2

(* As many elements as places.                                              *)
LEMMA Counted ==
  ASSUME NEW C, NEW s \in Seq(C)
  PROVE  /\ IsFiniteSet(Elements(s)) /\ Cardinality(Elements(s)) <= Len(s)
         /\ Distinct(s) =>
              \A T : IsFiniteSet(T) /\ Elements(s) \subseteq T => Len(s) <= Cardinality(T)
<1>1. Len(s) \in Nat /\ DOMAIN s = 1..Len(s) /\ s \in [1..Len(s) -> C]
  OBVIOUS
<1>2. IsFiniteSet(1..Len(s)) /\ Cardinality(1..Len(s)) = Len(s)
  BY <1>1, FS_Interval
<1>3. s \in [1..Len(s) -> Elements(s)]
  BY <1>1 DEF Elements
<1>4. s \in Surjection(1..Len(s), Elements(s))
  BY <1>3 DEF Surjection, Elements
<1>5. IsFiniteSet(Elements(s)) /\ Cardinality(Elements(s)) <= Len(s)
  BY <1>2, <1>4, FS_Surjection
<1>6. ASSUME Distinct(s), NEW T, IsFiniteSet(T), Elements(s) \subseteq T
      PROVE  Len(s) <= Cardinality(T)
  <2>1. s \in [1..Len(s) -> T]
    BY <1>3, <1>6
  <2>2. s \in Injection(1..Len(s), T)
    BY <1>1, <2>1, <1>6 DEF Injection, IsInjective, Distinct
  <2> QED
    BY <1>2, <1>6, <2>2, FS_Injection
<1> QED
  BY <1>5, <1>6

(* As many machines as requests that name them.                             *)
LEMMA Named ==
  ASSUME NEW R, IsFiniteSet(R), NEW f, NEW S, S = {f[r].machine : r \in R}
  PROVE  IsFiniteSet(S) /\ Cardinality(S) <= Cardinality(R)
<1> DEFINE g == [r \in R |-> f[r].machine]
<1>1. g \in Surjection(R, S)
  BY DEF Surjection
<1> QED
  BY <1>1, FS_Surjection

----------------------------------------------------------------------------
(* What steps have in common.                                               *)

(* No project is created, and no activity goes back.                        *)
Onward ==
  /\ project_project' \in Rows
  /\ \A p \in HubProjectIds : project_project'[p] = None <=> project_project[p] = None
  /\ \A p \in HubProjectIds : p \in Project!Existing' =>
       p \in Project!Existing /\ project_project'[p].activity >= project_project[p].activity

(* No request is about to add a machine that was not.                       *)
NoNewcomer ==
  \A r \in ProjectRequests : project_request'[r].at \in {"update", "attach"} =>
    project_request'[r] = project_request[r]

(* What the tables hold for a project.                                      *)
LEMMA RowFacts ==
  ASSUME RowsOK, NEW p \in HubProjectIds
  PROVE  /\ project_project[p] \in Project!Row \cup {None, Gone}
         /\ p \in Project!Existing => project_project[p] \in Project!Row
         /\ p \in Project!Existing <=> project_project[p] # None /\ project_project[p] # Gone
         /\ project_enrolled[p] \in Seq(ProjectMachines) /\ Distinct(project_enrolled[p])
BY DEF RowsOK, Project!TypeOK, EnrolledOK, Project!Existing

(* Rows that nobody writes.                                                 *)
LEMMA SameRows == ASSUME RowsOK, UNCHANGED project_project PROVE Onward
<1>1. \A p \in Project!Existing : project_project[p].activity >= project_project[p].activity
  BY RowFacts DEF Project!Row, Project!Existing
<1> QED
  BY <1>1 DEF RowsOK, Project!TypeOK, Onward, Rows, Project!Existing

(* A request goes on.                                                       *)
LEMMA Stepped ==
  ASSUME RowsOK, NEW r \in ProjectRequests, NEW next \in Kinds, Project!Step(r, next)
  PROVE  /\ RequestsOK' /\ project_request'[r] = next
         /\ \A s \in ProjectRequests : s # r => project_request'[s] = project_request[s]
         /\ next.at # "create" => Creating' \subseteq Creating \ {r}
         /\ next.at \notin {"update", "attach"} => NoNewcomer
<1>1. /\ project_request' \in [ProjectRequests -> Kinds] /\ project_request'[r] = next
      /\ \A s \in ProjectRequests : s # r => project_request'[s] = project_request[s]
  BY DEF RowsOK, RequestsOK, Project!Step
<1> QED
  BY <1>1 DEF RequestsOK, Creating, Project!At, NoNewcomer

(* No project is made.                                                      *)
LEMMA UnbornStays ==
  ASSUME RowsOK, Onward, NoNewcomer,
         \A p \in HubProjectIds : project_project[p] = None => project_enrolled'[p] = <<>>
  PROVE  Unborn'
BY DEF RowsOK, Unborn, Onward, NoNewcomer

(* The first wall holds when nobody new is let through it.                  *)
LEMMA ProjectsStillFit ==
  ASSUME FewRequests, Project!Sizes, ProjectInv, Onward, Creating' \subseteq Creating
  PROVE  ProjectsFit'
<1>1. /\ IsFiniteSet(Creating) /\ Project!Existing' \subseteq Project!Existing
      /\ IsFiniteSet(Project!Existing)
  BY FS_Subset
  DEF FewRequests, Project!Sizes, Creating, Onward, Project!Existing, ProjectInv, ProjectsFit
<1>2. /\ IsFiniteSet(Project!Existing')
      /\ Cardinality(Project!Existing') <= Cardinality(Project!Existing)
      /\ Cardinality(Creating') <= Cardinality(Creating)
      /\ Cardinality(Project!Existing') \in Nat /\ Cardinality(Project!Existing) \in Nat
      /\ Cardinality(Creating') \in Nat /\ Cardinality(Creating) \in Nat
      /\ Cardinality(ProjectRequests) \in Nat
  BY <1>1, FS_Subset, FS_CardinalityType DEF FewRequests, Project!Sizes
<1> QED
  BY <1>2 DEF ProjectInv, ProjectsFit, FewRequests, Project!Sizes

(* The machines a project has, or is to have, only get fewer.               *)
LEMMA MachinesStillFit ==
  ASSUME FewRequests, Project!Sizes, ProjectInv, Onward,
         \A p \in Project!Existing : Wanted(p)' \subseteq Wanted(p)
  PROVE  MachinesFit'
<1> SUFFICES ASSUME MachineLimit # 0, NEW p \in Project!Existing'
             PROVE  /\ IsFiniteSet(Wanted(p)')
                    /\ Cardinality(Wanted(p)') <= MachineLimit + Cardinality(ProjectRequests) - 1
  BY DEF MachinesFit
<1>1. p \in Project!Existing
  BY DEF Onward, Project!Existing
<1>2. /\ IsFiniteSet(Wanted(p))
      /\ Cardinality(Wanted(p)) <= MachineLimit + Cardinality(ProjectRequests) - 1
  BY <1>1 DEF ProjectInv, MachinesFit
<1>3. /\ IsFiniteSet(Wanted(p)') /\ Cardinality(Wanted(p)') <= Cardinality(Wanted(p))
      /\ Cardinality(Wanted(p)') \in Nat /\ Cardinality(Wanted(p)) \in Nat
      /\ Cardinality(ProjectRequests) \in Nat /\ MachineLimit \in Nat
  BY <1>1, <1>2, FS_Subset, FS_CardinalityType DEF FewRequests, Project!Sizes
<1> QED
  BY <1>2, <1>3

(* Nobody new asks, and no sequence of machines grows but by what a request *)
(* that was let through asked for.                                          *)
LEMMA WantedShrinks ==
  ASSUME NoNewcomer, NEW p \in HubProjectIds, Elements(project_enrolled[p])' \subseteq Wanted(p)
  PROVE  Wanted(p)' \subseteq Wanted(p)
<1>1. /\ Adding(p)' \subseteq Adding(p)
      /\ \A r \in Adding(p)' : project_request'[r] = project_request[r]
  BY DEF NoNewcomer, Adding
<1>2. \A x \in Wanted(p)' :
          \/ x \in Elements(project_enrolled[p])'
          \/ \E r \in Adding(p)' : x = project_request'[r].machine
  BY DEF Wanted
<1> QED
  BY <1>1, <1>2 DEF Wanted

(* A row that is not written still knows its uses.                          *)
LEMMA UseKeeps ==
  ASSUME RowsOK, UsedOK, Onward, UNCHANGED project_used, project_clock' \in Nat,
         project_clock' >= project_clock
  PROVE  UsedOK'
<1>1. project_clock \in Nat
  BY DEF RowsOK, Project!TypeOK
<1>2. \A p \in Project!Existing' :
          /\ p \in Project!Existing /\ p \in HubProjectIds
          /\ project_project'[p].activity >= project_project[p].activity
  BY DEF Onward, Project!Existing
<1>3. \A p \in HubProjectIds : project_project'[p] \in Project!Row \cup {None, Gone}
  BY DEF Onward, Rows
<1>4. \A p \in Project!Existing' :
          project_project[p].activity \in Nat /\ project_project'[p].activity \in Nat
  BY <1>2, <1>3, RowFacts DEF Project!Existing, Project!Row
<1>5. \A p \in Project!Existing' : project_used[p] <= project_project'[p].activity
  BY <1>2, <1>4 DEF UsedOK
<1>6. \A p \in HubProjectIds : project_used[p] <= project_clock'
  BY <1>1 DEF UsedOK
<1> QED
  BY <1>5, <1>6 DEF UsedOK

(* What a stage says of the sweep.                                          *)
LEMMA SweepFacts ==
  ASSUME SweepOK
  PROVE  /\ \/ Project!SweepAt("rest") \/ Project!SweepAt("visit") \/ Project!SweepAt("decide")
            \/ Project!SweepAt("read again") \/ Project!SweepAt("mark")
         /\ Project!SweepAt("rest") <=> project_sweep \in {Project!Resting}
         /\ Project!SweepAt("visit") <=> project_sweep \in Visiting
         /\ Project!SweepAt("decide") \/ Project!SweepAt("read again") \/ Project!SweepAt("mark") <=>
              project_sweep \in Deciding
         /\ project_sweep \in Visiting \/ project_sweep \in Deciding =>
              /\ project_sweep.now \in Nat /\ project_sweep.left \subseteq HubProjectIds
              /\ project_sweep.rows \in Rows
              /\ project_sweep.used \in [HubProjectIds -> Nat] /\ project_sweep.now <= project_clock
              /\ \A p \in HubProjectIds : project_sweep.used[p] <= project_clock
              /\ \A p \in project_sweep.left : Known(p)
         /\ project_sweep \in Deciding =>
              /\ project_sweep.project \in HubProjectIds
              /\ project_sweep.project \notin project_sweep.left
<1> /\ \A s \in Visiting : s.at = "visit"
    /\ \A s \in Deciding : s.at \in {"decide", "read again", "mark"}
    /\ Project!Resting.at = "rest"
  BY DEF Visiting, Deciding, Project!Resting
<1>1. CASE project_sweep = Project!Resting
  BY <1>1 DEF Project!SweepAt
<1>2. CASE project_sweep \in Visiting
  <2>1. /\ project_sweep.at = "visit" /\ project_sweep.now \in Nat
        /\ project_sweep.left \subseteq HubProjectIds
        /\ project_sweep.rows \in Rows /\ project_sweep.used \in [HubProjectIds -> Nat]
    BY <1>2 DEF Visiting
  <2>2. /\ project_sweep.now <= project_clock
        /\ \A p \in HubProjectIds : project_sweep.used[p] <= project_clock
        /\ \A p \in project_sweep.left : Known(p)
    BY <1>2 DEF SweepOK
  <2>3. project_sweep # Project!Resting /\ project_sweep \notin Deciding
    BY <2>1
  <2> QED
    BY <1>2, <2>1, <2>2, <2>3 DEF Project!SweepAt
<1>3. CASE project_sweep \in Deciding
  <2>1. /\ project_sweep.at \in {"decide", "read again", "mark"} /\ project_sweep.now \in Nat
        /\ project_sweep.left \subseteq HubProjectIds
        /\ project_sweep.rows \in Rows /\ project_sweep.used \in [HubProjectIds -> Nat]
        /\ project_sweep.project \in HubProjectIds
    BY <1>3 DEF Deciding
  <2>2. /\ project_sweep.now <= project_clock
        /\ \A p \in HubProjectIds : project_sweep.used[p] <= project_clock
        /\ \A p \in project_sweep.left : Known(p)
        /\ project_sweep.project \notin project_sweep.left
    BY <1>3 DEF SweepOK
  <2>3. project_sweep # Project!Resting /\ project_sweep \notin Visiting
    BY <2>1
  <2> QED
    BY <1>3, <2>1, <2>2, <2>3 DEF Project!SweepAt
<1> QED
  BY <1>1, <1>2, <1>3 DEF SweepOK

(* The sweep stands.                                                        *)
LEMMA SweepKeeps ==
  ASSUME RowsOK, SweepOK, Onward, UNCHANGED project_sweep, project_clock' \in Nat,
         project_clock' >= project_clock
  PROVE  SweepOK'
<1>1. project_clock \in Nat
  BY DEF RowsOK, Project!TypeOK
<1>2. project_sweep \in Visiting \cup Deciding =>
        /\ project_sweep.now <= project_clock'
        /\ \A p \in HubProjectIds : project_sweep.used[p] <= project_clock'
  <2> SUFFICES ASSUME project_sweep \in Visiting \/ project_sweep \in Deciding
               PROVE  /\ project_sweep.now <= project_clock'
                      /\ \A p \in HubProjectIds : project_sweep.used[p] <= project_clock'
    OBVIOUS
  <2>1. /\ project_sweep.now \in Nat /\ project_sweep.now <= project_clock
        /\ \A p \in HubProjectIds :
               project_sweep.used[p] \in Nat /\ project_sweep.used[p] <= project_clock
    BY SweepFacts
  <2> QED
    BY <1>1, <2>1
<1>3. ASSUME Project!SweepAt("read again"), project_sweep.project \in Project!Existing'
      PROVE  project_sweep.used[project_sweep.project] <= project_project'[project_sweep.project].activity
  <2>1. project_sweep \in Deciding /\ project_sweep.project \in HubProjectIds
    BY <1>3, SweepFacts
  <2> DEFINE p == project_sweep.project
  <2>2. p \in Project!Existing /\ project_project'[p].activity >= project_project[p].activity
    BY <1>3, <2>1 DEF Onward
  <2>3. project_project'[p].activity \in Nat /\ project_project[p].activity \in Nat
    BY <1>3, <2>1, <2>2, RowFacts DEF Onward, Rows, Project!Existing, Project!Row
  <2>4. project_sweep.used[p] \in Nat /\ project_sweep.used[p] <= project_project[p].activity
    BY <1>3, <2>1, <2>2 DEF SweepOK, Deciding
  <2> QED
    BY <2>2, <2>3, <2>4
<1> QED
  BY <1>2, <1>3 DEF SweepOK, Project!SweepAt, Known

(* A step that lets nobody through a wall and leaves the sweep alone.       *)
LEMMA Closing ==
  ASSUME FewRequests, Project!Sizes, ProjectInv, Onward, Creating' \subseteq Creating, NoNewcomer,
         EnrolledOK', RequestsOK',
         \A p \in HubProjectIds : project_project[p] = None => project_enrolled'[p] = <<>>,
         \A p \in Project!Existing : Elements(project_enrolled[p])' \subseteq Wanted(p),
         project_online' \subseteq project_machines', project_outputs' \subseteq HubProjectIds,
         project_clock' \in 1..MaxProjectTime, project_calls' \in 0..MaxProjectCalls,
         UsedOK', SweepOK'
  PROVE  ProjectInv'
<1>1. Project!TypeOK'
  BY DEF Project!TypeOK, Onward, Rows, EnrolledOK, Distinct
<1>2. Unborn'
  BY UnbornStays DEF ProjectInv
<1>3. ProjectsFit'
  BY ProjectsStillFit
<1>4. MachinesFit'
  BY MachinesStillFit, WantedShrinks DEF Project!Existing
<1> QED
  BY <1>1, <1>2, <1>3, <1>4 DEF ProjectInv, RowsOK

(* A step of a request that leaves the machines of projects alone, and one  *)
(* that leaves their rows alone as well.                                    *)
LEMMA RequestGoesOn ==
  ASSUME FewRequests, Project!Sizes, ProjectInv, NEW r \in ProjectRequests, NEW next \in Kinds,
         Project!Step(r, next),
         next.at \notin {"create", "update", "attach"},
         Onward, UsedOK', project_outputs' \subseteq HubProjectIds,
         UNCHANGED <<project_enrolled, project_machines, project_online, project_sweep,
                     project_clock>>, project_calls' \in 0..MaxProjectCalls
  PROVE  ProjectInv'
<1>1. RequestsOK' /\ NoNewcomer /\ Creating' \subseteq Creating
  BY Stepped DEF ProjectInv
<1>2. EnrolledOK' /\ \A p \in HubProjectIds : project_project[p] = None =>
        project_enrolled'[p] = <<>>
  BY DEF ProjectInv, RowsOK, EnrolledOK, Unborn
<1>3. \A p \in Project!Existing : Elements(project_enrolled[p])' \subseteq Wanted(p)
  BY DEF Wanted, Elements
<1>4. /\ project_online' \subseteq project_machines' /\ project_clock' \in 1..MaxProjectTime
      /\ project_clock' \in Nat /\ project_clock' >= project_clock
  BY DEF ProjectInv, RowsOK, Project!TypeOK
<1>5. SweepOK'
  BY <1>4, SweepKeeps DEF ProjectInv
<1> QED
  BY <1>1, <1>2, <1>3, <1>4, <1>5, Closing DEF ProjectInv

(* A step that writes the request alone.                                    *)
LEMMA RequestOnly ==
  ASSUME FewRequests, Project!Sizes, ProjectInv, NEW r \in ProjectRequests, NEW next \in Kinds,
         Project!Step(r, next),
         next.at \notin {"create", "update", "attach"},
         UNCHANGED <<project_project, project_used, project_enrolled, project_machines,
                     project_online, project_sweep, project_clock>>,
         project_outputs' \subseteq HubProjectIds, project_calls' \in 0..MaxProjectCalls
  PROVE  ProjectInv'
<1>1. Onward
  BY SameRows DEF ProjectInv
<1>2. project_clock' \in Nat /\ project_clock' >= project_clock
  BY DEF ProjectInv, RowsOK, Project!TypeOK
<1>3. UsedOK'
  BY <1>1, <1>2, UseKeeps DEF ProjectInv
<1> QED
  BY <1>1, <1>3, RequestGoesOn

----------------------------------------------------------------------------
(* Requests that begin.                                                     *)

(* What a request begins with.                                              *)
LEMMA Begun ==
  ASSUME FewRequests, Project!Sizes, ProjectInv, NEW r \in ProjectRequests, NEW next \in Kinds,
         Project!Begin(r, next)
  PROVE  /\ Project!Step(r, next) /\ project_request[r].at = "idle"
         /\ project_calls' \in 0..MaxProjectCalls
         /\ UNCHANGED <<project_project, project_enrolled, project_machines, project_online,
                        project_outputs, project_sweep, project_clock, project_used>>
BY DEF Project!Begin, Project!FirstFree, Project!At, ProjectInv, RowsOK, Project!TypeOK,
   FewRequests, Project!Sizes

(* It writes no table.                                                      *)
LEMMA BeginKeeps ==
  ASSUME FewRequests, Project!Sizes, ProjectInv, NEW r \in ProjectRequests, NEW next \in Kinds,
         Project!Begin(r, next),
         next.at \in {"update", "attach"} => project_project[next.project] # None
  PROVE  RowsOK' /\ UsedOK' /\ SweepOK' /\ Onward
<1>1. /\ Project!Step(r, next) /\ project_calls' \in 0..MaxProjectCalls
      /\ UNCHANGED <<project_project, project_enrolled, project_machines, project_online,
                     project_outputs, project_sweep, project_clock, project_used>>
  BY Begun
<1>2. /\ RequestsOK' /\ project_request'[r] = next
      /\ \A s \in ProjectRequests : s # r => project_request'[s] = project_request[s]
  BY <1>1, Stepped DEF ProjectInv
<1>3. Onward /\ project_clock' \in Nat /\ project_clock' >= project_clock
  BY <1>1, SameRows DEF ProjectInv, RowsOK, Project!TypeOK
<1>4. Project!TypeOK' /\ EnrolledOK'
  BY <1>1 DEF ProjectInv, RowsOK, Project!TypeOK, EnrolledOK
<1>5. Unborn'
  BY <1>1, <1>2 DEF ProjectInv, RowsOK, Unborn
<1>6. UsedOK' /\ SweepOK'
  BY <1>1, <1>3, UseKeeps, SweepKeeps DEF ProjectInv
<1> QED
  BY <1>2, <1>3, <1>4, <1>5, <1>6 DEF RowsOK

(* There was room for a project when it was let through.                    *)
LEMMA CreateBegins ==
  ASSUME FewRequests, Project!Sizes, ProjectInv, NEW r \in ProjectRequests, NEW c \in Machine,
         Project!handleCreateProject(r, c)
  PROVE  ProjectInv'
<1> DEFINE next == [at |-> "create", machine |-> c]
<1>1. next \in Kinds /\ next.at = "create" /\ Project!Begin(r, next)
  BY DEF Project!handleCreateProject, Kinds, Creations
<1> HIDE DEF next
<1>2. RowsOK' /\ UsedOK' /\ SweepOK' /\ Onward
  BY <1>1, BeginKeeps
<1>3. /\ Project!Step(r, next) /\ project_request[r].at = "idle"
      /\ UNCHANGED <<project_project, project_enrolled, project_machines, project_online,
                     project_outputs, project_sweep, project_clock, project_used>>
  BY <1>1, Begun
<1>4. /\ NoNewcomer /\ \A s \in ProjectRequests : s # r => project_request'[s] = project_request[s]
  BY <1>1, <1>3, Stepped DEF ProjectInv
<1>5. ProjectsFit'
  <2>1. IsFiniteSet(Project!Existing) /\ Project!Existing' = Project!Existing
    BY <1>3 DEF ProjectInv, ProjectsFit, Project!Existing
  <2>2. Creating' \subseteq ProjectRequests
    BY DEF Creating
  <2>3. /\ Cardinality(Creating') <= Cardinality(ProjectRequests) /\ Cardinality(Creating') \in Nat
        /\ Cardinality(ProjectRequests) \in Nat /\ Cardinality(Project!Existing) \in Nat
    BY <2>1, <2>2, FS_Subset, FS_CardinalityType DEF FewRequests, Project!Sizes
  <2>4. ProjectLimit # 0 => Cardinality(Project!Existing) < ProjectLimit
    BY ProjectsCount DEF Project!handleCreateProject, Project!AllowsAnother
  <2> QED
    BY <2>1, <2>3, <2>4 DEF ProjectsFit, FewRequests, Project!Sizes
<1>6. MachinesFit'
  <2>1. \A p \in Project!Existing : Elements(project_enrolled[p])' \subseteq Wanted(p)
    BY <1>3 DEF Wanted, Elements
  <2> QED
    BY <1>2, <1>4, <2>1, WantedShrinks, MachinesStillFit DEF Project!Existing
<1> QED
  BY <1>2, <1>5, <1>6 DEF ProjectInv

(* The machine is on the project already, or there is room for it.          *)
LEMMA AddingBegins ==
  ASSUME FewRequests, Project!Sizes, ProjectInv, NEW r \in ProjectRequests, NEW next \in Choices,
         next.at \in {"update", "attach"},
         Project!Begin(r, next), next.project \in Project!Existing,
         Project!MachineFits(next.project, next.machine)
  PROVE  ProjectInv'
<1> DEFINE p == next.project
           c == next.machine
<1>0. next \in Kinds /\ p \in HubProjectIds
  BY DEF Kinds, Choices
<1>1. RowsOK' /\ UsedOK' /\ SweepOK' /\ Onward
  BY <1>0, BeginKeeps DEF Project!Existing
<1>2. /\ Project!Step(r, next) /\ project_request[r].at = "idle"
      /\ UNCHANGED <<project_project, project_enrolled, project_machines, project_online,
                     project_outputs, project_sweep, project_clock, project_used>>
  BY <1>0, Begun
<1>3. /\ project_request'[r] = next /\ Creating' \subseteq Creating
      /\ \A s \in ProjectRequests : s # r => project_request'[s] = project_request[s]
  BY <1>0, <1>2, Stepped DEF ProjectInv
<1>4. ProjectsFit'
  BY <1>1, <1>3, ProjectsStillFit
<1>5. ASSUME MachineLimit # 0, NEW q \in Project!Existing
      PROVE  /\ IsFiniteSet(Wanted(q)')
             /\ Cardinality(Wanted(q)') <= MachineLimit + Cardinality(ProjectRequests) - 1
  <2>0. /\ q \in HubProjectIds /\ Elements(project_enrolled[q])' = Elements(project_enrolled[q])
        /\ project_enrolled[q] \in Seq(ProjectMachines)
    BY <1>2, RowFacts DEF Project!Existing, Elements, ProjectInv
  <2>1. /\ IsFiniteSet(Wanted(q))
        /\ Cardinality(Wanted(q)) <= MachineLimit + Cardinality(ProjectRequests) - 1
        /\ MachineLimit \in Nat /\ Cardinality(ProjectRequests) \in Nat
    BY <1>5, FS_CardinalityType DEF ProjectInv, MachinesFit, FewRequests, Project!Sizes
  <2>2. CASE q # p \/ c = None \/ Project!On(q, c)
    <3>1. \A s \in Adding(q)' : s # r => s \in Adding(q) /\ project_request'[s] = project_request[s]
      BY <1>3 DEF Adding
    <3>2. r \in Adding(q)' => project_request'[r].machine \in Elements(project_enrolled[q])
      BY <1>3, <2>2 DEF Adding, Project!On, Elements
    <3>3. Wanted(q)' \subseteq Wanted(q)
      <4> SUFFICES ASSUME NEW x \in Wanted(q)', x \notin Elements(project_enrolled[q])
                   PROVE  x \in Wanted(q)
        BY DEF Wanted
      <4>1. PICK s \in Adding(q)' : x = project_request'[s].machine
        BY <2>0 DEF Wanted
      <4> QED
        BY <3>1, <3>2, <4>1 DEF Wanted
    <3>4. /\ IsFiniteSet(Wanted(q)') /\ Cardinality(Wanted(q)') <= Cardinality(Wanted(q))
          /\ Cardinality(Wanted(q)') \in Nat /\ Cardinality(Wanted(q)) \in Nat
      BY <2>1, <3>3, FS_Subset, FS_CardinalityType
    <3> QED
      BY <2>1, <3>4
  <2>3. CASE q = p /\ c # None /\ ~Project!On(q, c)
    <3>1. Len(project_enrolled[q]) < MachineLimit /\ Len(project_enrolled[q]) \in Nat
      BY <1>5, <2>0, <2>3 DEF Project!MachineFits, Project!AllowsAnother
    <3> DEFINE E == Elements(project_enrolled[q])
               A == Adding(q)'
               M == {project_request'[s].machine : s \in A}
    <3>2. IsFiniteSet(A) /\ Cardinality(A) <= Cardinality(ProjectRequests)
      BY FS_Subset DEF Adding, FewRequests, Project!Sizes
    <3>3. IsFiniteSet(M) /\ Cardinality(M) <= Cardinality(A)
      <4> HIDE DEF A
      <4> QED
        BY <3>2, Named
    <3>4. IsFiniteSet(E) /\ Cardinality(E) <= Len(project_enrolled[q])
      BY <2>0, Counted
    <3>5. Wanted(q)' = E \cup M
      BY <2>0 DEF Wanted
    <3> HIDE DEF E, M, A
    <3>6. /\ IsFiniteSet(E \cup M)
          /\ Cardinality(E \cup M) = Cardinality(E) + Cardinality(M) - Cardinality(E \cap M)
      BY <3>3, <3>4, FS_Union
    <3>7. /\ Cardinality(E) \in Nat /\ Cardinality(M) \in Nat /\ Cardinality(A) \in Nat
          /\ Cardinality(E \cap M) \in Nat
      <4>1. IsFiniteSet(E \cap M)
        BY <3>3, FS_Subset
      <4> QED
        BY <3>2, <3>3, <3>4, <4>1, FS_CardinalityType
    <3> QED
      BY <2>1, <3>1, <3>2, <3>3, <3>4, <3>5, <3>6, <3>7
  <2> QED
    BY <2>2, <2>3
<1>6. MachinesFit'
  BY <1>2, <1>5 DEF MachinesFit, Project!Existing
<1> QED
  BY <1>1, <1>4, <1>6 DEF ProjectInv

----------------------------------------------------------------------------
(* Requests that go on.                                                     *)

(* What a stage says of a request.                                          *)
LEMMA Asked ==
  ASSUME RowsOK, NEW r \in ProjectRequests
  PROVE  /\ project_request[r] \in Kinds
         /\ Project!At(r, "create") => project_request[r].machine \in Machine
         /\ project_request[r].at \in {"update", "attach", "select", "write selected", "detach"} =>
              project_request[r] \in Choices
         /\ project_request[r].at \in {"stamp", "list", "ran", "keep"} =>
              project_request[r] \in Visits
         /\ Project!At(r, "repair") => project_request[r] \in Repairs
<1>1. project_request[r] \in Kinds
  BY DEF RowsOK, RequestsOK
<1>2. /\ Project!Idle.at = "idle" /\ \A a \in Creations : a.at = "create" /\ a.machine \in Machine
      /\ \A a \in Choices : a.at \in {"update", "attach", "select", "write selected", "detach"}
      /\ \A a \in Visits : a.at \in {"stamp", "list", "ran", "keep"}
      /\ \A a \in Repairs : a.at = "repair"
  BY DEF Project!Idle, Creations, Choices, Visits, Repairs
<1> QED
  BY <1>1, <1>2 DEF Kinds, Project!At

(* The stages that lead on.                                                 *)
LEMMA NextKinds ==
  /\ Project!Idle \in Kinds /\ Project!Idle.at = "idle"
  /\ \A p \in HubProjectIds : \A stage \in {"stamp", "list", "ran", "keep"} :
       [at |-> stage, project |-> p] \in Kinds /\ [at |-> stage, project |-> p].at = stage
  /\ \A p \in HubProjectIds : \A c \in Machine : \A stage \in {"select", "write selected", "detach"} :
       /\ [at |-> stage, project |-> p, machine |-> c] \in Kinds
       /\ [at |-> stage, project |-> p, machine |-> c].at = stage
BY DEF Kinds, Project!Idle, Visits, Choices

(* A choice goes on with the machine it is about.                           *)
LEMMA Moved ==
  ASSUME NEW a \in Choices, NEW stage \in {"select", "write selected"}
  PROVE  [a EXCEPT !.at = stage] \in Kinds /\ [a EXCEPT !.at = stage].at = stage
BY DEF Kinds, Choices

(* The machines with one more.                                              *)
LEMMA WithKeeps ==
  ASSUME RowsOK, NEW p \in HubProjectIds, NEW c \in Machine
  PROVE  /\ Project!With(p, c) \in Seq(ProjectMachines) /\ Distinct(Project!With(p, c))
         /\ Elements(Project!With(p, c)) \subseteq Elements(project_enrolled[p]) \cup ({c} \ {None})
<1>1. project_enrolled[p] \in Seq(ProjectMachines) /\ Distinct(project_enrolled[p])
  BY RowFacts
<1>2. CASE c = None \/ Project!On(p, c)
  BY <1>1, <1>2 DEF Project!With
<1>3. CASE c # None /\ ~Project!On(p, c)
  <2>1. Project!With(p, c) = Append(project_enrolled[p], c)
    BY <1>3 DEF Project!With
  <2>2. c \in ProjectMachines /\ \A i \in 1..Len(project_enrolled[p]) : project_enrolled[p][i] # c
    BY <1>3 DEF Machine, Project!On
  <2>3. /\ Append(project_enrolled[p], c) \in Seq(ProjectMachines)
        /\ Distinct(Append(project_enrolled[p], c))
        /\ Elements(Append(project_enrolled[p], c)) = Elements(project_enrolled[p]) \cup {c}
    BY <1>1, <2>2, Appended
  <2> QED
    BY <1>3, <2>1, <2>3
<1> QED
  BY <1>2, <1>3

(* The machines of one project are written.                                 *)
LEMMA EnrolledSet ==
  ASSUME RowsOK, NEW p \in HubProjectIds, NEW s \in Seq(ProjectMachines), Distinct(s),
         project_enrolled' = [project_enrolled EXCEPT ![p] = s]
  PROVE  /\ EnrolledOK' /\ project_enrolled'[p] = s
         /\ \A q \in HubProjectIds : q # p => project_enrolled'[q] = project_enrolled[q]
<1>1. /\ project_enrolled' \in [HubProjectIds -> Seq(ProjectMachines)] /\ project_enrolled'[p] = s
      /\ \A q \in HubProjectIds : q # p => project_enrolled'[q] = project_enrolled[q]
  BY DEF RowsOK, EnrolledOK
<1>2. \A q \in HubProjectIds : Distinct(project_enrolled'[q])
  BY <1>1, RowFacts
<1> QED
  BY <1>1, <1>2 DEF EnrolledOK

(* One row is written, and neither made nor given an earlier activity.      *)
LEMMA RowWritten ==
  ASSUME RowsOK, NEW p \in HubProjectIds, NEW row \in Project!Row \cup {None, Gone},
         project_project' = [project_project EXCEPT ![p] = row],
         project_project[p] = None <=> row = None,
         row # None /\ row # Gone =>
           p \in Project!Existing /\ row.activity >= project_project[p].activity
  PROVE  Onward
<1>1. /\ project_project' \in Rows /\ project_project'[p] = row
      /\ \A q \in HubProjectIds : q # p => project_project'[q] = project_project[q]
  BY DEF RowsOK, Project!TypeOK, Rows
<1>2. ASSUME NEW q \in HubProjectIds
      PROVE  /\ project_project'[q] = None <=> project_project[q] = None
             /\ q \in Project!Existing' =>
                  /\ q \in Project!Existing
                  /\ project_project'[q].activity >= project_project[q].activity
  <2>1. CASE q = p
    BY <1>1, <2>1 DEF Project!Existing
  <2>2. CASE q # p
    <3>1. q \in Project!Existing => project_project[q].activity \in Nat
      BY RowFacts DEF Project!Row
    <3> QED
      BY <1>1, <2>2, <3>1 DEF Project!Existing
  <2> QED
    BY <2>1, <2>2
<1> QED
  BY <1>1, <1>2 DEF Onward

(* A machine is selected.                                                   *)
LEMMA Selects ==
  ASSUME FewRequests, Project!Sizes, RowsOK, NEW p \in Project!Existing, NEW c \in Machine,
         project_project' = [project_project EXCEPT ![p].selected = c]
  PROVE  Onward
<1>1. p \in HubProjectIds /\ project_project[p] \in Project!Row
  BY RowFacts DEF Project!Existing
<1> DEFINE row == [project_project[p] EXCEPT !.selected = c]
<1>2. /\ row \in Project!Row /\ row.activity = project_project[p].activity
      /\ project_project[p].activity \in Nat
  BY <1>1 DEF Project!Row, Machine
<1>3. project_project' = [project_project EXCEPT ![p] = row]
  OBVIOUS
<1>4. row # None /\ project_project[p] # None
  BY <1>1, <1>2 DEF FewRequests, Project!Sizes
<1>5. row.activity >= project_project[p].activity /\ row \in Project!Row \cup {None, Gone}
  BY <1>2
<1>6. project_project[p] = None <=> row = None
  BY <1>4
<1> HIDE DEF row
<1> QED
  BY <1>1, <1>3, <1>5, <1>6, RowWritten

(* The activity of some projects is written, and they were used.            *)
LEMMA TouchKeeps ==
  ASSUME FewRequests, Project!Sizes, RowsOK, UsedOK, NEW S, NEW now \in Nat, now <= project_clock,
         Project!TouchProjectActivity(S, now), Project!Uses(S, now), project_clock' = project_clock
  PROVE  /\ Onward /\ UsedOK'
         /\ \A p \in S \cap Project!Existing : project_project'[p].activity >= now
<1>0. project_clock \in Nat /\ Project!Existing \subseteq HubProjectIds
  BY DEF RowsOK, Project!TypeOK, Project!Existing
<1>1. ASSUME NEW p \in Project!Existing
      PROVE  /\ Project!Touched(project_project[p], now) \in Project!Row
             /\ project_project[p].activity \in Nat
             /\ Project!Touched(project_project[p], now).activity >= project_project[p].activity
             /\ Project!Touched(project_project[p], now).activity >= now
  <2>1. project_project[p] \in Project!Row /\ project_project[p].activity \in Nat
    BY <1>0, RowFacts DEF Project!Row
  <2>2. CASE project_project[p].activity < now
    <3>1. /\ [project_project[p] EXCEPT !.activity = now, !.warned = FALSE] \in Project!Row
          /\ [project_project[p] EXCEPT !.activity = now, !.warned = FALSE].activity = now
      BY <2>1 DEF Project!Row
    <3> QED
      BY <2>1, <2>2, <3>1 DEF Project!Touched
  <2>3. CASE ~(project_project[p].activity < now)
    BY <2>1, <2>3 DEF Project!Touched
  <2> QED
    BY <2>2, <2>3
<1>2. \A p \in HubProjectIds :
          project_project'[p] = IF p \in S \cap Project!Existing
              THEN Project!Touched(project_project[p], now) ELSE project_project[p]
  BY DEF Project!TouchProjectActivity
<1>3. \A p \in HubProjectIds : project_project'[p] \in Project!Row \cup {None, Gone}
  BY <1>1, <1>2, RowFacts
<1>4. project_project' \in Rows
  BY <1>3 DEF Project!TouchProjectActivity, Rows
<1>5. \A p \in Project!Existing : project_project[p] # None
  BY DEF Project!Existing
<1>6. \A p \in HubProjectIds : project_project'[p] = None <=> project_project[p] = None
  BY <1>1, <1>2, <1>5 DEF FewRequests, Project!Sizes
<1>7. \A p \in HubProjectIds : p \in Project!Existing' =>
        /\ p \in Project!Existing /\ project_project'[p].activity >= project_project[p].activity
        /\ project_project[p].activity \in Nat /\ project_project'[p].activity \in Nat
        /\ p \in S => project_project'[p].activity >= now
  <2> SUFFICES ASSUME NEW p \in HubProjectIds, p \in Project!Existing'
               PROVE  /\ p \in Project!Existing
                      /\ project_project'[p].activity >= project_project[p].activity
                      /\ project_project[p].activity \in Nat /\ project_project'[p].activity \in Nat
                      /\ p \in S => project_project'[p].activity >= now
    OBVIOUS
  <2>1. p \in Project!Existing
    BY <1>2 DEF Project!Existing
  <2> QED
    BY <1>1, <1>2, <2>1 DEF Project!Row
<1>8. Onward
  BY <1>4, <1>6, <1>7 DEF Onward
<1>9. /\ project_used' \in [HubProjectIds -> Nat]
      /\ \A p \in HubProjectIds :
             project_used'[p] = IF p \in S /\ project_used[p] < now THEN now ELSE project_used[p]
  BY DEF Project!Uses, UsedOK
<1>10. \A p \in HubProjectIds : project_used'[p] <= project_clock
  BY <1>0, <1>9 DEF UsedOK
<1>11. ASSUME NEW p \in Project!Existing' PROVE project_used'[p] <= project_project'[p].activity
  <2>1. /\ p \in Project!Existing /\ project_project'[p].activity >= project_project[p].activity
        /\ project_project[p].activity \in Nat /\ project_project'[p].activity \in Nat
        /\ p \in S => project_project'[p].activity >= now
    BY <1>7 DEF Project!Existing
  <2>2. /\ project_used[p] \in Nat /\ project_used[p] <= project_project[p].activity
        /\ p \in HubProjectIds
    BY <2>1 DEF UsedOK, Project!Existing
  <2> QED
    BY <1>9, <2>1, <2>2
<1>12. UsedOK'
  BY <1>9, <1>10, <1>11 DEF UsedOK
<1> QED
  BY <1>1, <1>2, <1>8, <1>12, <1>0

(* The project a request was let through for.                               *)
LEMMA ProjectCreated ==
  ASSUME FewRequests, Project!Sizes, ProjectInv, NEW r \in ProjectRequests, NEW p \in HubProjectIds,
         Project!CreateProject(r, p)
  PROVE  ProjectInv'
<1> DEFINE c == project_request[r].machine
           row == [selected |-> c, activity |-> project_clock, warned |-> FALSE]
<1>0. RowsOK /\ project_clock \in Nat /\ project_clock \in 1..MaxProjectTime
  BY DEF ProjectInv, RowsOK, Project!TypeOK
<1>1. /\ Project!At(r, "create") /\ project_project[p] = None
      /\ project_project' = [project_project EXCEPT ![p] = row]
      /\ project_enrolled' = [project_enrolled EXCEPT ![p] = Project!With(p, c)]
      /\ Project!Uses({p}, project_clock) /\ Project!Step(r, Project!Idle)
      /\ UNCHANGED <<project_machines, project_online, project_sweep, project_clock, project_calls,
                     project_outputs>>
  BY DEF Project!CreateProject, Project!Done, Project!Quiet
<1>2. c \in Machine /\ row \in Project!Row /\ row.activity = project_clock /\ row # None
  <2>1. c \in Machine
    BY <1>0, <1>1, Asked
  <2> HIDE DEF c
  <2>2. row \in Project!Row /\ row.activity = project_clock
    BY <1>0, <2>1 DEF Project!Row, Machine
  <2> QED
    BY <2>1, <2>2 DEF FewRequests, Project!Sizes
<1> HIDE DEF c, row
<1>3. /\ project_project' \in Rows /\ project_project'[p] = row
      /\ \A q \in HubProjectIds : q # p => project_project'[q] = project_project[q]
  BY <1>0, <1>1, <1>2 DEF RowsOK, Project!TypeOK, Rows
<1>4. /\ RequestsOK' /\ NoNewcomer /\ Creating' \subseteq Creating \ {r}
  BY <1>0, <1>1, Stepped, NextKinds
<1>5. /\ Project!With(p, c) \in Seq(ProjectMachines) /\ Distinct(Project!With(p, c))
      /\ Elements(Project!With(p, c)) \subseteq Elements(project_enrolled[p]) \cup {c}
  BY <1>0, <1>2, WithKeeps
<1>6. /\ EnrolledOK' /\ project_enrolled'[p] = Project!With(p, c)
      /\ \A q \in HubProjectIds : q # p => project_enrolled'[q] = project_enrolled[q]
  BY <1>0, <1>1, <1>5, EnrolledSet
<1>7. Project!TypeOK'
  BY <1>0, <1>1, <1>3, <1>6 DEF RowsOK, Project!TypeOK, Rows, EnrolledOK, Distinct
<1>8. Unborn'
  BY <1>0, <1>2, <1>3, <1>4, <1>6 DEF RowsOK, Unborn, NoNewcomer
<1>9. /\ Project!Existing' \subseteq Project!Existing \cup {p} /\ p \notin Project!Existing
      /\ r \in Creating
  BY <1>1, <1>3 DEF Project!Existing, Creating
<1>10. ProjectsFit'
  <2>1. IsFiniteSet(Project!Existing) /\ IsFiniteSet(Creating)
    BY FS_Subset DEF ProjectInv, ProjectsFit, Creating, FewRequests, Project!Sizes
  <2>2. /\ IsFiniteSet(Project!Existing \cup {p})
        /\ Cardinality(Project!Existing \cup {p}) = Cardinality(Project!Existing) + 1
        /\ IsFiniteSet(Creating \ {r}) /\ Cardinality(Creating \ {r}) = Cardinality(Creating) - 1
    BY <1>9, <2>1, FS_AddElement, FS_RemoveElement
  <2>3. /\ IsFiniteSet(Project!Existing')
        /\ Cardinality(Project!Existing') <= Cardinality(Project!Existing) + 1
        /\ IsFiniteSet(Creating') /\ Cardinality(Creating') <= Cardinality(Creating) - 1
    BY <1>4, <1>9, <2>2, FS_Subset
  <2>4. /\ Cardinality(Project!Existing') \in Nat /\ Cardinality(Project!Existing) \in Nat
        /\ Cardinality(Creating') \in Nat /\ Cardinality(Creating) \in Nat
        /\ Cardinality(ProjectRequests) \in Nat
    BY <2>1, <2>3, FS_CardinalityType DEF FewRequests, Project!Sizes
  <2> QED
    BY <2>3, <2>4 DEF ProjectInv, ProjectsFit, FewRequests, Project!Sizes
<1>11. ASSUME MachineLimit # 0, NEW q \in Project!Existing'
       PROVE  /\ IsFiniteSet(Wanted(q)')
              /\ Cardinality(Wanted(q)') <= MachineLimit + Cardinality(ProjectRequests) - 1
  <2>0. Cardinality(ProjectRequests) \in Nat /\ MachineLimit \in Nat
    BY FS_CardinalityType DEF FewRequests, Project!Sizes
  <2>1. CASE q # p
    <3>1. /\ q \in Project!Existing /\ q \in HubProjectIds
          /\ Elements(project_enrolled[q])' = Elements(project_enrolled[q])
      BY <1>6, <1>9, <2>1 DEF Project!Existing, Elements
    <3>2. Wanted(q)' \subseteq Wanted(q)
      BY <1>4, <3>1, WantedShrinks DEF Wanted
    <3>3. /\ IsFiniteSet(Wanted(q))
          /\ Cardinality(Wanted(q)) <= MachineLimit + Cardinality(ProjectRequests) - 1
      BY <1>11, <3>1 DEF ProjectInv, MachinesFit
    <3>4. /\ IsFiniteSet(Wanted(q)') /\ Cardinality(Wanted(q)') <= Cardinality(Wanted(q))
          /\ Cardinality(Wanted(q)') \in Nat /\ Cardinality(Wanted(q)) \in Nat
      BY <3>2, <3>3, FS_Subset, FS_CardinalityType
    <3> QED
      BY <2>0, <3>3, <3>4
  <2>2. CASE q = p
    <3>1. Elements(project_enrolled[p]) = {}
      BY <1>0, <1>1 DEF RowsOK, Unborn, Elements
    <3>2. Adding(p)' = {}
      BY <1>0, <1>1, <1>4 DEF RowsOK, Unborn, NoNewcomer, Adding
    <3>3. Wanted(p)' \subseteq {c}
      BY <1>5, <1>6, <3>1, <3>2 DEF Wanted, Elements
    <3>4. IsFiniteSet({c}) /\ Cardinality({c}) = 1 /\ IsFiniteSet({r}) /\ Cardinality({r}) = 1
      BY FS_Singleton
    <3>5. /\ IsFiniteSet(Wanted(p)') /\ Cardinality(Wanted(p)') <= 1
          /\ Cardinality(Wanted(p)') \in Nat
          /\ 1 <= Cardinality(ProjectRequests)
      BY <3>3, <3>4, FS_Subset, FS_CardinalityType DEF FewRequests, Project!Sizes
    <3> QED
      BY <1>11, <2>0, <2>2, <3>5
  <2> QED
    BY <2>1, <2>2
<1>12. MachinesFit'
  BY <1>11 DEF MachinesFit
<1>13. UsedOK'
  <2>1. \A q \in HubProjectIds :
            project_used'[q] = IF q = p /\ project_used[q] < project_clock THEN project_clock
                ELSE project_used[q]
    BY <1>1 DEF Project!Uses
  <2>2. \A q \in HubProjectIds :
            /\ project_used[q] \in Nat /\ project_used[q] <= project_clock
            /\ (q \in Project!Existing => project_used[q] <= project_project[q].activity)
    BY DEF ProjectInv, UsedOK, Project!Existing
  <2>3. project_used' \in [HubProjectIds -> Nat]
    BY <1>0, <1>1, <2>2 DEF Project!Uses
  <2>4. \A q \in Project!Existing' :
            q \in HubProjectIds /\ project_used'[q] <= project_project'[q].activity
    BY <1>0, <1>2, <1>3, <1>9, <2>1, <2>2 DEF Project!Existing
  <2> QED
    BY <1>0, <1>1, <2>1, <2>2, <2>3, <2>4 DEF UsedOK
<1>14. SweepOK'
  <2>1. ASSUME Project!SweepAt("read again"), project_sweep.project \in Project!Existing'
        PROVE  project_sweep.used[project_sweep.project] <= project_project'[project_sweep.project].activity
    <3>1. /\ project_sweep \in Deciding /\ project_sweep.project \in HubProjectIds
          /\ project_sweep.used[project_sweep.project] <= project_clock
      BY <2>1, SweepFacts DEF ProjectInv
    <3> QED
      BY <1>2, <1>3, <1>9, <2>1, <3>1 DEF ProjectInv, SweepOK
  <2> QED
    BY <1>1, <2>1 DEF ProjectInv, SweepOK, Project!SweepAt, Known
<1> QED
  BY <1>4, <1>6, <1>7, <1>8, <1>10, <1>12, <1>13, <1>14 DEF ProjectInv, RowsOK

(* A step of a request that writes the machines of the project it is about. *)
LEMMA MachinesWritten ==
  ASSUME FewRequests, Project!Sizes, ProjectInv, NEW r \in ProjectRequests, NEW next \in Kinds,
         Project!Step(r, next),
         next.at \notin {"create", "update", "attach"},
         NEW p \in HubProjectIds, project_project[p] # None, NEW s \in Seq(ProjectMachines),
         Distinct(s),
         project_enrolled' = [project_enrolled EXCEPT ![p] = s],
         p \in Project!Existing => Elements(s) \subseteq Wanted(p),
         Onward,
         UNCHANGED <<project_machines, project_online, project_outputs, project_sweep,
                     project_clock, project_used, project_calls>>
  PROVE  ProjectInv'
<1>1. RequestsOK' /\ NoNewcomer /\ Creating' \subseteq Creating
  BY Stepped DEF ProjectInv
<1>2. /\ EnrolledOK' /\ project_enrolled'[p] = s
      /\ \A q \in HubProjectIds : q # p => project_enrolled'[q] = project_enrolled[q]
  BY EnrolledSet DEF ProjectInv
<1>3. \A q \in HubProjectIds : project_project[q] = None => project_enrolled'[q] = <<>>
  BY <1>2 DEF ProjectInv, RowsOK, Unborn
<1>4. \A q \in Project!Existing : Elements(project_enrolled[q])' \subseteq Wanted(q)
  <2> SUFFICES ASSUME NEW q \in Project!Existing
               PROVE  Elements(project_enrolled[q])' \subseteq Wanted(q)
    OBVIOUS
  <2>1. CASE q = p
    BY <1>2, <2>1 DEF Elements
  <2>2. CASE q # p
    BY <1>2, <2>2 DEF Elements, Wanted, Project!Existing
  <2> QED
    BY <2>1, <2>2
<1>5. /\ project_online' \subseteq project_machines' /\ project_outputs' \subseteq HubProjectIds
      /\ project_calls' \in 0..MaxProjectCalls
      /\ project_clock' \in 1..MaxProjectTime /\ project_clock' \in Nat
      /\ project_clock' >= project_clock
  BY DEF ProjectInv, RowsOK, Project!TypeOK
<1>6. UsedOK' /\ SweepOK'
  BY <1>5, UseKeeps, SweepKeeps DEF ProjectInv
<1> QED
  BY <1>1, <1>2, <1>3, <1>4, <1>5, <1>6, Closing DEF ProjectInv

(* The machines of an update are written.                                   *)
LEMMA ProjectUpdated ==
  ASSUME FewRequests, Project!Sizes, ProjectInv, NEW r \in ProjectRequests, Project!UpdateProject(r)
  PROVE  ProjectInv'
<1> DEFINE a == project_request[r]
           p == a.project
<1>0. /\ RowsOK /\ Project!At(r, "update")
      /\ UNCHANGED <<project_machines, project_online, project_sweep, project_clock, project_calls,
                     project_outputs, project_used>>
  BY DEF Project!UpdateProject, ProjectInv, Project!Quiet
<1>1. p \in HubProjectIds /\ a.machine \in Machine
  BY <1>0, Asked DEF Choices, Project!At
<1>2. CASE p \in Project!Existing
  <2>1. /\ project_enrolled' = [project_enrolled EXCEPT ![p] = Project!With(p, a.machine)]
        /\ project_project' = [project_project EXCEPT ![p].selected = a.machine]
        /\ Project!Step(r, [at |-> "stamp", project |-> p])
    BY <1>2 DEF Project!UpdateProject
  <2>2. Onward
    BY <1>0, <1>1, <1>2, <2>1, Selects
  <2>3. /\ Project!With(p, a.machine) \in Seq(ProjectMachines)
        /\ Distinct(Project!With(p, a.machine))
        /\ Elements(Project!With(p, a.machine)) \subseteq Elements(project_enrolled[p]) \cup
               ({a.machine} \ {None})
    BY <1>0, <1>1, WithKeeps
  <2>4. a.machine # None => r \in Adding(p)
    BY <1>0 DEF Adding, Project!At
  <2>5. Elements(Project!With(p, a.machine)) \subseteq Wanted(p)
    BY <2>3, <2>4 DEF Wanted
  <2>6. [at |-> "stamp", project |-> p] \in Kinds /\ project_project[p] # None
    BY <1>1, <1>2, NextKinds DEF Project!Existing
  <2> HIDE DEF p
  <2> QED
    BY <1>0, <1>1, <2>1, <2>2, <2>3, <2>5, <2>6, MachinesWritten
<1>3. CASE p \notin Project!Existing
  <2>1. UNCHANGED <<project_enrolled, project_project>> /\ Project!Step(r, Project!Idle)
    BY <1>3 DEF Project!UpdateProject, Project!Done
  <2>2. project_outputs' \subseteq HubProjectIds /\ project_calls' \in 0..MaxProjectCalls
    BY <1>0 DEF RowsOK, Project!TypeOK
  <2> QED
    BY <1>0, <2>1, <2>2, NextKinds, RequestOnly
<1> QED
  BY <1>2, <1>3

(* A machine is attached.                                                   *)
LEMMA ConnectorAttached ==
  ASSUME FewRequests, Project!Sizes, ProjectInv, NEW r \in ProjectRequests,
         Project!AttachProjectConnector(r)
  PROVE  ProjectInv'
<1> DEFINE a == project_request[r]
           p == a.project
           next == [a EXCEPT !.at = "select"]
<1>0. /\ RowsOK /\ Project!At(r, "attach")
      /\ project_enrolled' = [project_enrolled EXCEPT ![p] = Project!With(p, a.machine)]
      /\ Project!Step(r, next)
      /\ UNCHANGED <<project_machines, project_online, project_sweep, project_clock, project_calls,
                     project_project, project_outputs, project_used>>
  BY DEF Project!AttachProjectConnector, ProjectInv, Project!Quiet
<1>1. a \in Choices /\ p \in HubProjectIds /\ a.machine \in Machine /\ project_project[p] # None
  <2>1. a \in Choices
    BY <1>0, Asked DEF Project!At
  <2>2. p \in HubProjectIds /\ a.machine \in Machine
    BY <2>1 DEF Choices
  <2> QED
    BY <1>0, <2>1, <2>2 DEF RowsOK, Unborn, Project!At
<1>2. next \in Kinds /\ next.at = "select"
  BY <1>1, Moved
<1>3. /\ Project!With(p, a.machine) \in Seq(ProjectMachines) /\ Distinct(Project!With(p, a.machine))
      /\ Elements(Project!With(p, a.machine)) \subseteq Elements(project_enrolled[p]) \cup
             ({a.machine} \ {None})
  BY <1>0, <1>1, WithKeeps
<1>4. a.machine # None => r \in Adding(p)
  BY <1>0 DEF Adding, Project!At
<1>5. Elements(Project!With(p, a.machine)) \subseteq Wanted(p)
  BY <1>3, <1>4 DEF Wanted
<1>6. Onward
  BY <1>0, SameRows
<1> HIDE DEF p, next
<1> QED
  BY <1>0, <1>1, <1>2, <1>3, <1>5, <1>6, MachinesWritten

(* A machine is detached.                                                   *)
LEMMA ConnectorDetached ==
  ASSUME FewRequests, Project!Sizes, ProjectInv, NEW r \in ProjectRequests,
         Project!DetachProjectConnector(r)
  PROVE  ProjectInv'
<1> DEFINE p == project_request[r].project
           s == Project!Without(project_enrolled[p], project_request[r].machine)
           next == [at |-> "list", project |-> p]
<1>0. /\ RowsOK /\ Project!At(r, "detach")
      /\ project_enrolled' = [project_enrolled EXCEPT ![p] = s] /\ Project!Step(r, next)
      /\ UNCHANGED <<project_machines, project_online, project_sweep, project_clock, project_calls,
                     project_project, project_outputs, project_used>>
  BY DEF Project!DetachProjectConnector, ProjectInv, Project!Quiet
<1>1. p \in HubProjectIds
  BY <1>0, Asked DEF Project!At, Choices
<1>2. next \in Kinds /\ next.at = "list"
  BY <1>1, NextKinds
<1>3. /\ s \in Seq(ProjectMachines) /\ Distinct(s)
      /\ Elements(s) \subseteq Elements(project_enrolled[p])
  BY <1>0, <1>1, RowFacts, Removed
<1>4. Elements(s) \subseteq Wanted(p)
  BY <1>3 DEF Wanted
<1>5. Onward
  BY <1>0, SameRows
<1>6. CASE project_project[p] # None
  <2> HIDE DEF p, next, s
  <2> QED
    BY <1>0, <1>1, <1>2, <1>3, <1>4, <1>5, <1>6, MachinesWritten
<1>7. CASE project_project[p] = None
  <2>1. project_enrolled[p] = <<>> /\ s = <<>>
    <3>1. project_enrolled[p] = <<>>
      BY <1>0, <1>1, <1>7 DEF RowsOK, Unborn
    <3> QED
      BY <3>1 DEF Project!Without
  <2>2. UNCHANGED project_enrolled
    BY <1>0, <1>1, <2>1 DEF RowsOK, EnrolledOK
  <2>3. project_outputs' \subseteq HubProjectIds /\ project_calls' \in 0..MaxProjectCalls
    BY <1>0 DEF RowsOK, Project!TypeOK
  <2> HIDE DEF next
  <2> QED
    BY <1>0, <1>2, <2>2, <2>3, RequestOnly
<1> QED
  BY <1>6, <1>7

(* A use is recorded.                                                       *)
LEMMA Stamped ==
  ASSUME FewRequests, Project!Sizes, ProjectInv, NEW r \in ProjectRequests,
         Project!stampProjectActivity(r)
  PROVE  ProjectInv'
<1> DEFINE S == {project_request[r].project}
<1>1. /\ Project!TouchProjectActivity(S, project_clock) /\ Project!Uses(S, project_clock)
      /\ Project!Step(r, Project!Idle)
      /\ UNCHANGED <<project_machines, project_online, project_sweep, project_clock, project_calls,
                     project_enrolled, project_outputs>>
  BY DEF Project!stampProjectActivity, Project!Done, Project!Quiet
<1>2. /\ RowsOK /\ project_clock \in Nat /\ project_clock <= project_clock
      /\ project_outputs' \subseteq HubProjectIds /\ project_calls' \in 0..MaxProjectCalls
  BY <1>1 DEF ProjectInv, RowsOK, Project!TypeOK
<1> HIDE DEF S
<1>3. Onward /\ UsedOK'
  BY <1>1, <1>2, TouchKeeps DEF ProjectInv
<1> QED
  BY <1>1, <1>2, <1>3, NextKinds, RequestGoesOn

(* The machine that was selected is written.                                *)
LEMMA SelectedWritten ==
  ASSUME FewRequests, Project!Sizes, ProjectInv, NEW r \in ProjectRequests, Project!WriteSelected(r)
  PROVE  ProjectInv'
<1> DEFINE p == project_request[r].project
           c == project_request[r].machine
<1>1. /\ Project!At(r, "write selected") /\ Project!Step(r, Project!Idle)
      /\ project_project' = IF p \in Project!Existing
             THEN [project_project EXCEPT ![p].selected = c] ELSE project_project
      /\ UNCHANGED <<project_machines, project_online, project_sweep, project_clock, project_calls,
                     project_enrolled, project_outputs, project_used>>
  BY DEF Project!WriteSelected, Project!Done, Project!Quiet
<1>2. /\ RowsOK /\ project_clock' \in Nat /\ project_clock' >= project_clock
      /\ project_outputs' \subseteq HubProjectIds /\ project_calls' \in 0..MaxProjectCalls
  <2>1. /\ RowsOK /\ project_clock \in Nat /\ project_outputs \subseteq HubProjectIds
        /\ project_calls \in 0..MaxProjectCalls
    BY DEF ProjectInv, RowsOK, Project!TypeOK
  <2>2. /\ project_clock' = project_clock /\ project_outputs' = project_outputs
        /\ project_calls' = project_calls
    BY <1>1
  <2> QED
    BY <2>1, <2>2
<1>3. p \in HubProjectIds /\ c \in Machine
  BY <1>1, <1>2, Asked DEF Project!At, Choices
<1> HIDE DEF p, c
<1>4. Onward
  <2>1. CASE p \in Project!Existing
    BY <1>1, <1>2, <1>3, <2>1, Selects
  <2>2. CASE p \notin Project!Existing
    BY <1>1, <1>2, <2>2, SameRows
  <2> QED
    BY <2>1, <2>2
<1>5. UsedOK'
  BY <1>1, <1>2, <1>4, UseKeeps DEF ProjectInv
<1> QED
  BY <1>1, <1>2, <1>4, <1>5, NextKinds, RequestGoesOn

(* The other steps write no row.                                            *)
LEMMA RequestReads ==
  ASSUME FewRequests, Project!Sizes, ProjectInv, NEW r \in ProjectRequests,
         \/ Project!selectConnectorIfEmpty(r) \/ Project!ListProjectConnectorIds(r)
         \/ Project!repairSelectedConnector(r)
         \/ Project!rememberTaskOutput(r) \/ Project!SaveTaskOutput(r)
  PROVE  ProjectInv'
<1> DEFINE a == project_request[r]
           p == a.project
<1>0. RowsOK
  BY DEF ProjectInv
<1>1. UNCHANGED <<project_project, project_used, project_enrolled, project_machines, project_online,
                  project_sweep, project_clock, project_calls>>
  BY DEF Project!selectConnectorIfEmpty, Project!ListProjectConnectorIds,
     Project!repairSelectedConnector,
         Project!rememberTaskOutput, Project!SaveTaskOutput, Project!Quiet
<1>2. p \in HubProjectIds
  <2>1. a \in Choices \/ a \in Visits \/ a \in Repairs
    BY <1>0, Asked
    DEF Project!selectConnectorIfEmpty, Project!ListProjectConnectorIds,
        Project!repairSelectedConnector,
        Project!rememberTaskOutput, Project!SaveTaskOutput, Project!At
  <2> QED
    BY <2>1 DEF Choices, Visits, Repairs
<1>3. project_outputs' \subseteq HubProjectIds /\ project_calls' \in 0..MaxProjectCalls
  <2>1. project_outputs' = project_outputs \/ project_outputs' = project_outputs \cup {p}
    BY DEF Project!selectConnectorIfEmpty, Project!ListProjectConnectorIds,
       Project!repairSelectedConnector,
           Project!rememberTaskOutput, Project!SaveTaskOutput
  <2> QED
    BY <1>0, <1>1, <1>2, <2>1 DEF RowsOK, Project!TypeOK
<1>4. \E next \in Kinds : next.at \notin {"create", "update", "attach"} /\ Project!Step(r, next)
  <2>1. CASE Project!selectConnectorIfEmpty(r)
    <3>1. a \in Choices
      BY <1>0, <2>1, Asked DEF Project!selectConnectorIfEmpty, Project!At
    <3>2. /\ [a EXCEPT !.at = "write selected"] \in Kinds
          /\ [a EXCEPT !.at = "write selected"].at = "write selected"
      BY <3>1, Moved
    <3> QED
      BY <2>1, <3>2, NextKinds DEF Project!selectConnectorIfEmpty, Project!Done
  <2>2. CASE Project!ListProjectConnectorIds(r)
    <3> DEFINE next == [at |-> "repair", project |-> p, ids |-> project_enrolled[p]]
    <3>1. next \in Kinds /\ next.at = "repair" /\ Project!Step(r, next)
      <4>1. project_enrolled[p] \in Seq(ProjectMachines)
        BY <1>0, <1>2, RowFacts
      <4> QED
        BY <1>2, <2>2, <4>1 DEF Project!ListProjectConnectorIds, Kinds, Repairs
    <3> QED
      BY <3>1
  <2>3. CASE Project!repairSelectedConnector(r)
    <3>1. a.ids \in Seq(ProjectMachines)
      BY <1>0, <2>3, Asked DEF Project!repairSelectedConnector, Repairs
    <3>2. Project!Oldest(a.ids) \in Machine
      BY <3>1 DEF Project!Oldest, Machine
    <3> QED
      BY <1>2, <2>3, <3>2, NextKinds DEF Project!repairSelectedConnector, Project!Done
  <2>4. CASE Project!rememberTaskOutput(r)
    BY <1>2, <2>4, NextKinds DEF Project!rememberTaskOutput
  <2>5. CASE Project!SaveTaskOutput(r)
    BY <1>2, <2>5, NextKinds DEF Project!SaveTaskOutput
  <2> QED
    BY <2>1, <2>2, <2>3, <2>4, <2>5
<1> QED
  BY <1>1, <1>3, <1>4, RequestOnly

(* So every step of a request keeps the invariant.                          *)
LEMMA ServeKeeps ==
  ASSUME FewRequests, Project!Sizes, ProjectInv, NEW r \in ProjectRequests, Project!Serve(r)
  PROVE  ProjectInv'
<1>1. ASSUME NEW c \in Machine, NEW p \in HubProjectIds, Project!handleUpdateProject(r, p, c)
      PROVE  ProjectInv'
  <2> DEFINE chosen == IF c # None THEN c ELSE project_project[p].selected
             next == [at |-> "update", project |-> p, machine |-> chosen]
  <2>1. p \in Project!Existing /\ Project!MachineFits(p, chosen) /\ Project!Begin(r, next)
    BY <1>1 DEF Project!handleUpdateProject
  <2>2. chosen \in Machine
    BY <2>1, RowFacts DEF Project!Row, Machine, ProjectInv
  <2> HIDE DEF chosen
  <2>3. next \in Choices /\ next.at = "update" /\ next.project = p /\ next.machine = chosen
    BY <2>2 DEF Choices
  <2> QED
    BY <2>1, <2>3, AddingBegins
<1>2. ASSUME NEW p \in HubProjectIds, NEW c \in ProjectMachines,
             Project!handleAttachProjectConnector(r, p, c)
      PROVE  ProjectInv'
  <2> DEFINE next == [at |-> "attach", project |-> p, machine |-> c]
  <2>1. p \in Project!Existing /\ Project!MachineFits(p, c) /\ Project!Begin(r, next)
    BY <1>2 DEF Project!handleAttachProjectConnector
  <2>2. next \in Choices /\ next.at = "attach" /\ next.project = p /\ next.machine = c
    BY DEF Choices, Machine
  <2> QED
    BY <2>1, <2>2, AddingBegins
<1>3. ASSUME NEW p \in HubProjectIds, NEW c \in ProjectMachines,
             Project!handleDetachProjectConnector(r, p, c)
      PROVE  ProjectInv'
  <2>1. PICK next \in Kinds :
                 next.at \notin {"create", "update", "attach"} /\ Project!Begin(r, next)
    <3>1. c \in Machine
      BY DEF Machine
    <3> QED
      BY <1>3, <3>1, NextKinds DEF Project!handleDetachProjectConnector
  <2>2. /\ Project!Step(r, next) /\ project_calls' \in 0..MaxProjectCalls
        /\ UNCHANGED <<project_project, project_enrolled, project_machines, project_online,
                       project_outputs, project_sweep, project_clock, project_used>>
    BY <2>1, Begun
  <2>3. project_outputs' \subseteq HubProjectIds
    BY <2>2 DEF ProjectInv, RowsOK, Project!TypeOK
  <2> QED
    BY <2>1, <2>2, <2>3, RequestOnly
<1>4. ASSUME NEW p \in HubProjectIds,
             Project!handleProjectActivity(r, p) \/ Project!handleCreateTask(r, p)
      PROVE  ProjectInv'
  <2>1. PICK next \in Kinds :
                 next.at \notin {"create", "update", "attach"} /\ Project!Begin(r, next)
    BY <1>4, NextKinds DEF Project!handleProjectActivity, Project!handleCreateTask
  <2>2. /\ Project!Step(r, next) /\ project_calls' \in 0..MaxProjectCalls
        /\ UNCHANGED <<project_project, project_enrolled, project_machines, project_online,
                       project_outputs, project_sweep, project_clock, project_used>>
    BY <2>1, Begun
  <2>3. project_outputs' \subseteq HubProjectIds
    BY <2>2 DEF ProjectInv, RowsOK, Project!TypeOK
  <2> QED
    BY <2>1, <2>2, <2>3, RequestOnly
<1> QED
  BY <1>1, <1>2, <1>3, <1>4, CreateBegins, ProjectCreated, ProjectUpdated, ConnectorAttached,
     ConnectorDetached, Stamped, SelectedWritten, RequestReads
  DEF Project!Serve, Machine

----------------------------------------------------------------------------
(* Rows that go.                                                            *)

(* What a deletion does to the tables.                                      *)
LEMMA Deletes ==
  ASSUME FewRequests, Project!Sizes, ProjectInv, NEW p \in HubProjectIds, Project!DeleteProject(p),
         UNCHANGED project_request
  PROVE  /\ Onward /\ EnrolledOK' /\ project_outputs' \subseteq HubProjectIds
         /\ RequestsOK' /\ NoNewcomer /\ Creating' \subseteq Creating
         /\ \A q \in HubProjectIds : project_project[q] = None => project_enrolled'[q] = <<>>
         /\ \A q \in Project!Existing : Elements(project_enrolled[q])' \subseteq Wanted(q)
<1>0. RowsOK
  BY DEF ProjectInv
<1> DEFINE row == IF project_project[p] = None THEN None ELSE Gone
<1>1. project_project' = [project_project EXCEPT ![p] = row]
  BY DEF Project!DeleteProject
<1>2. Onward
  <2>1. /\ row \in Project!Row \cup {None, Gone}
        /\ project_project[p] = None <=> row = None
        /\ ~(row # None /\ row # Gone)
    BY DEF FewRequests, Project!Sizes
  <2> HIDE DEF row
  <2> QED
    BY <1>0, <1>1, <2>1, RowWritten
<1>3. /\ <<>> \in Seq(ProjectMachines) /\ Distinct(<<>>)
      /\ project_enrolled' = [project_enrolled EXCEPT ![p] = <<>>]
  BY DEF Distinct, Project!DeleteProject
<1>4. /\ EnrolledOK' /\ project_enrolled'[p] = <<>>
      /\ \A q \in HubProjectIds : q # p => project_enrolled'[q] = project_enrolled[q]
  BY <1>0, <1>3, EnrolledSet
<1>5. \A q \in HubProjectIds : project_project[q] = None => project_enrolled'[q] = <<>>
  BY <1>0, <1>4 DEF RowsOK, Unborn
<1>6. ASSUME NEW q \in Project!Existing PROVE Elements(project_enrolled[q])' \subseteq Wanted(q)
  <2>1. CASE q = p
    BY <1>4, <2>1 DEF Elements
  <2>2. CASE q # p
    BY <1>4, <2>2 DEF Elements, Wanted, Project!Existing
  <2> QED
    BY <2>1, <2>2
<1>7. RequestsOK' /\ NoNewcomer /\ Creating' \subseteq Creating
  BY <1>0 DEF RowsOK, RequestsOK, NoNewcomer, Creating, Project!At
<1>8. project_outputs' \subseteq HubProjectIds
  BY <1>0 DEF RowsOK, Project!TypeOK, Project!DeleteProject
<1> QED
  BY <1>2, <1>4, <1>5, <1>6, <1>7, <1>8

(* An owner deletes a project.                                              *)
LEMMA DeletedByRequest ==
  ASSUME FewRequests, Project!Sizes, ProjectInv, NEW p \in HubProjectIds,
         Project!handleDeleteProject(p)
  PROVE  ProjectInv'
<1>1. /\ Project!DeleteProject(p) /\ project_calls < MaxProjectCalls
      /\ project_calls' = project_calls + 1
      /\ UNCHANGED <<project_machines, project_online, project_request, project_sweep,
                     project_clock, project_used>>
  BY DEF Project!handleDeleteProject
<1>2. /\ project_online' \subseteq project_machines' /\ project_clock' \in 1..MaxProjectTime
      /\ project_calls' \in 0..MaxProjectCalls
      /\ project_clock' \in Nat /\ project_clock' >= project_clock
  BY <1>1 DEF ProjectInv, RowsOK, Project!TypeOK, FewRequests, Project!Sizes
<1>3. /\ Onward /\ EnrolledOK' /\ project_outputs' \subseteq HubProjectIds
      /\ RequestsOK' /\ NoNewcomer /\ Creating' \subseteq Creating
      /\ \A q \in HubProjectIds : project_project[q] = None => project_enrolled'[q] = <<>>
      /\ \A q \in Project!Existing : Elements(project_enrolled[q])' \subseteq Wanted(q)
  BY <1>1, Deletes
<1>4. UsedOK' /\ SweepOK'
  BY <1>1, <1>2, <1>3, UseKeeps, SweepKeeps DEF ProjectInv
<1> QED
  BY <1>2, <1>3, <1>4, Closing

(* A machine is deleted: each project it was selected for is left with      *)
(* its oldest other.                                                        *)
LEMMA ConnectorDeleted ==
  ASSUME FewRequests, Project!Sizes, ProjectInv, NEW c \in ProjectMachines,
         Project!handleDeleteConnector(c)
  PROVE  ProjectInv'
<1>0. RowsOK
  BY DEF ProjectInv
<1>1. /\ project_calls < MaxProjectCalls /\ project_calls' = project_calls + 1
      /\ project_machines' = project_machines \ {c} /\ project_online' = project_online \ {c}
      /\ project_enrolled' = [p \in HubProjectIds |-> Project!Without(project_enrolled[p], c)]
      /\ project_project' = [p \in HubProjectIds |->
           IF p \in Project!Existing /\ project_project[p].selected = c
             THEN [project_project[p] EXCEPT
                     !.selected = Project!Oldest(Project!Without(project_enrolled[p], c))]
             ELSE project_project[p]]
      /\ UNCHANGED <<project_outputs, project_request, project_sweep, project_clock, project_used>>
  BY DEF Project!handleDeleteConnector
<1>2. ASSUME NEW p \in HubProjectIds
      PROVE  /\ project_enrolled'[p] \in Seq(ProjectMachines) /\ Distinct(project_enrolled'[p])
             /\ Elements(project_enrolled'[p]) \subseteq Elements(project_enrolled[p])
             /\ Project!Oldest(project_enrolled'[p]) \in Machine
             /\ project_enrolled[p] = <<>> => project_enrolled'[p] = <<>>
  <2>1. project_enrolled'[p] = Project!Without(project_enrolled[p], c)
    BY <1>1
  <2>2. /\ project_enrolled'[p] \in Seq(ProjectMachines) /\ Distinct(project_enrolled'[p])
        /\ Elements(project_enrolled'[p]) \subseteq Elements(project_enrolled[p])
    BY <1>0, <2>1, RowFacts, Removed
  <2>3. Project!Oldest(project_enrolled'[p]) \in Machine
    BY <2>2 DEF Project!Oldest, Machine
  <2>4. project_enrolled[p] = <<>> => project_enrolled'[p] = <<>>
    BY <2>1 DEF Project!Without
  <2> QED
    BY <2>2, <2>3, <2>4
<1>3. EnrolledOK'
  BY <1>1, <1>2 DEF EnrolledOK
<1>4. ASSUME NEW p \in HubProjectIds
      PROVE  /\ project_project'[p] \in Project!Row \cup {None, Gone}
             /\ project_project'[p] = None <=> project_project[p] = None
             /\ p \in Project!Existing' =>
                  /\ p \in Project!Existing
                  /\ project_project'[p].activity >= project_project[p].activity
  <2> DEFINE d == Project!Oldest(project_enrolled'[p])
             row == [project_project[p] EXCEPT !.selected = d]
  <2>1. CASE p \in Project!Existing /\ project_project[p].selected = c
    <3>1. /\ project_project'[p] = row /\ project_project[p] \in Project!Row /\ d \in Machine
          /\ project_project[p] # None
      BY <1>0, <1>1, <1>2, <2>1, RowFacts
    <3> HIDE DEF d
    <3>2. /\ row \in Project!Row /\ row.activity = project_project[p].activity
          /\ project_project[p].activity \in Nat
      BY <3>1 DEF Project!Row, Machine
    <3> HIDE DEF row
    <3> QED
      BY <2>1, <3>1, <3>2 DEF FewRequests, Project!Sizes
  <2>2. CASE ~(p \in Project!Existing /\ project_project[p].selected = c)
    <3>1. project_project'[p] = project_project[p]
      BY <1>1, <2>2
    <3>2. p \in Project!Existing => project_project[p].activity \in Nat
      BY <1>0, RowFacts DEF Project!Row
    <3> QED
      BY <1>0, <3>1, <3>2, RowFacts DEF Project!Existing
  <2> QED
    BY <2>1, <2>2
<1>5. Onward
  <2>1. project_project' = [p \in HubProjectIds |-> project_project'[p]]
    BY <1>1
  <2>2. \A p \in HubProjectIds : project_project'[p] \in Project!Row \cup {None, Gone}
    BY <1>4
  <2>3. project_project' \in Rows
    BY <2>1, <2>2, Zenon DEF Rows
  <2> QED
    BY <1>4, <2>3 DEF Onward
<1>6. RequestsOK' /\ NoNewcomer /\ Creating' \subseteq Creating
  BY <1>0, <1>1 DEF RowsOK, RequestsOK, NoNewcomer, Creating, Project!At
<1>7. \A p \in HubProjectIds : project_project[p] = None => project_enrolled'[p] = <<>>
  BY <1>0, <1>2 DEF RowsOK, Unborn
<1>8. \A p \in Project!Existing : Elements(project_enrolled[p])' \subseteq Wanted(p)
  <2> SUFFICES ASSUME NEW p \in Project!Existing
               PROVE  Elements(project_enrolled[p])' \subseteq Wanted(p)
    OBVIOUS
  <2>1. Elements(project_enrolled'[p]) \subseteq Elements(project_enrolled[p])
    BY <1>2 DEF Project!Existing
  <2> QED
    BY <2>1 DEF Elements, Wanted
<1>9. /\ project_online' \subseteq project_machines' /\ project_clock' \in 1..MaxProjectTime
      /\ project_calls' \in 0..MaxProjectCalls
      /\ project_clock' \in Nat /\ project_clock' >= project_clock
      /\ project_outputs' \subseteq HubProjectIds
  <2>1. /\ project_online' = project_online \ {c} /\ project_machines' = project_machines \ {c}
        /\ project_calls < MaxProjectCalls
        /\ project_calls' = project_calls + 1 /\ project_clock' = project_clock
        /\ project_outputs' = project_outputs
    BY <1>1
  <2> QED
    BY <1>0, <2>1 DEF RowsOK, Project!TypeOK, FewRequests, Project!Sizes
<1>10. UsedOK' /\ SweepOK'
  BY <1>1, <1>5, <1>9, UseKeeps, SweepKeeps DEF ProjectInv
<1> QED
  BY <1>3, <1>5, <1>6, <1>7, <1>8, <1>9, <1>10, Closing

----------------------------------------------------------------------------
(* Machines that come, report and go, the clock, a purge.                   *)

(* A step that writes neither requests nor machines of projects.            *)
LEMMA Elsewhere ==
  ASSUME FewRequests, Project!Sizes, ProjectInv, UNCHANGED <<project_request, project_enrolled>>,
         Onward, UsedOK', SweepOK',
         project_online' \subseteq project_machines', project_outputs' \subseteq HubProjectIds,
         project_clock' \in 1..MaxProjectTime, project_calls' \in 0..MaxProjectCalls
  PROVE  ProjectInv'
<1>1. RequestsOK' /\ NoNewcomer /\ Creating' \subseteq Creating
  BY DEF ProjectInv, RowsOK, RequestsOK, NoNewcomer, Creating, Project!At
<1>2. EnrolledOK' /\ \A p \in HubProjectIds : project_project[p] = None =>
        project_enrolled'[p] = <<>>
  BY DEF ProjectInv, RowsOK, EnrolledOK, Unborn
<1>3. \A p \in Project!Existing : Elements(project_enrolled[p])' \subseteq Wanted(p)
  BY DEF Wanted, Elements
<1> QED
  BY <1>1, <1>2, <1>3, Closing

(* A machine connects, reports or disconnects.                              *)
LEMMA MachinesKeep ==
  ASSUME FewRequests, Project!Sizes, ProjectInv, NEW c \in ProjectMachines,
         \/ Project!TouchConnector(c) \/ Project!Disconnects(c)
         \/ \E own \in BOOLEAN : Project!Connects(c, own)
  PROVE  ProjectInv'
<1>0. /\ RowsOK /\ project_clock \in Nat /\ project_clock <= project_clock
      /\ project_clock \in 1..MaxProjectTime
  BY DEF ProjectInv, RowsOK, Project!TypeOK
<1>1. /\ UNCHANGED <<project_enrolled, project_machines, project_outputs, project_request,
                     project_sweep, project_clock, project_calls>>
      /\ Project!touchProjectsForConnector(c) \/ UNCHANGED <<project_project, project_used>>
      /\ \/ project_online' \in {project_online, project_online \ {c}}
         \/ (c \in project_machines /\ project_online' = project_online \cup {c})
  BY DEF Project!TouchConnector, Project!Disconnects, Project!Connects
<1>2. Onward /\ UsedOK'
  <2>1. CASE Project!touchProjectsForConnector(c)
    <3>1. PICK S : Project!TouchProjectActivity(S, project_clock) /\ Project!Uses(S, project_clock)
      BY <2>1 DEF Project!touchProjectsForConnector
    <3> QED
      BY <1>0, <1>1, <3>1, TouchKeeps DEF ProjectInv
  <2>2. CASE UNCHANGED <<project_project, project_used>>
    <3>1. Onward /\ project_clock' \in Nat /\ project_clock' >= project_clock
      BY <1>0, <1>1, <2>2, SameRows
    <3> QED
      BY <2>2, <3>1, UseKeeps DEF ProjectInv
  <2> QED
    BY <1>1, <2>1, <2>2
<1>3. SweepOK'
  BY <1>0, <1>1, <1>2, SweepKeeps DEF ProjectInv
<1>4. /\ project_online' \subseteq project_machines' /\ project_outputs' \subseteq HubProjectIds
      /\ project_clock' \in 1..MaxProjectTime /\ project_calls' \in 0..MaxProjectCalls
  BY <1>0, <1>1 DEF RowsOK, Project!TypeOK
<1> QED
  BY <1>1, <1>2, <1>3, <1>4, Elsewhere

(* The clock, and the purge of outputs.                                     *)
LEMMA OthersKeep ==
  ASSUME FewRequests, Project!Sizes, ProjectInv,
         Project!Tick \/ \E p \in HubProjectIds : Project!PurgeTaskOutputs(p)
  PROVE  ProjectInv'
<1>1. /\ UNCHANGED <<project_project, project_enrolled, project_machines, project_online,
                     project_request, project_sweep, project_used, project_calls>>
      /\ project_outputs' \subseteq project_outputs
      /\ \/ project_clock' = project_clock
         \/ (project_clock < MaxProjectTime /\ project_clock' = project_clock + 1)
  <2>1. CASE Project!Tick
    BY <2>1 DEF Project!Tick
  <2>2. CASE \E p \in HubProjectIds : Project!PurgeTaskOutputs(p)
    BY <2>2 DEF Project!PurgeTaskOutputs
  <2> QED
    BY <2>1, <2>2
<1>2. /\ project_clock' \in 1..MaxProjectTime /\ project_clock' \in Nat
      /\ project_clock' >= project_clock
      /\ project_online' \subseteq project_machines' /\ project_outputs' \subseteq HubProjectIds
      /\ project_calls' \in 0..MaxProjectCalls
  BY <1>1 DEF ProjectInv, RowsOK, Project!TypeOK, FewRequests, Project!Sizes
<1>3. Onward
  BY <1>1, SameRows DEF ProjectInv
<1>4. UsedOK' /\ SweepOK'
  BY <1>1, <1>2, <1>3, UseKeeps, SweepKeeps DEF ProjectInv
<1> QED
  BY <1>1, <1>2, <1>3, <1>4, Elsewhere

(* The hub restarts: requests and the sweep are forgotten.                  *)
LEMMA RestartKeeps ==
  ASSUME FewRequests, Project!Sizes, ProjectInv, Project!Restart
  PROVE  ProjectInv'
<1>1. /\ project_request' = [r \in ProjectRequests |-> Project!Idle]
      /\ project_sweep' = Project!Resting /\ project_online' = {}
      /\ UNCHANGED <<project_project, project_enrolled, project_machines, project_outputs,
                     project_clock, project_used, project_calls>>
  BY DEF Project!Restart
<1>2. RequestsOK' /\ NoNewcomer /\ Creating' \subseteq Creating
  BY <1>1, NextKinds DEF RequestsOK, NoNewcomer, Creating, Project!At
<1>3. EnrolledOK' /\ \A p \in HubProjectIds : project_project[p] = None =>
        project_enrolled'[p] = <<>>
  BY <1>1 DEF ProjectInv, RowsOK, EnrolledOK, Unborn
<1>4. \A p \in Project!Existing : Elements(project_enrolled[p])' \subseteq Wanted(p)
  BY <1>1 DEF Wanted, Elements
<1>5. Onward
  BY <1>1, SameRows DEF ProjectInv
<1>6. /\ project_clock' \in 1..MaxProjectTime /\ project_clock' \in Nat
      /\ project_clock' >= project_clock
      /\ project_online' \subseteq project_machines' /\ project_outputs' \subseteq HubProjectIds
      /\ project_calls' \in 0..MaxProjectCalls
  BY <1>1 DEF ProjectInv, RowsOK, Project!TypeOK
<1>7. UsedOK'
  BY <1>1, <1>5, <1>6, UseKeeps DEF ProjectInv
<1>8. SweepOK'
  <2>1. Project!Resting.at = "rest" /\ Project!Resting \notin Visiting \cup Deciding
    BY DEF Project!Resting, Visiting, Deciding
  <2> QED
    BY <1>1, <2>1 DEF SweepOK, Project!SweepAt
<1> QED
  BY <1>2, <1>3, <1>4, <1>5, <1>6, <1>7, <1>8, Closing

----------------------------------------------------------------------------
(* The sweep.                                                               *)

(* The sweep between two projects.                                          *)
LEMMA SweepVisits ==
  ASSUME NEW n \in Nat, n <= project_clock, NEW left \in SUBSET HubProjectIds, NEW rows \in Rows,
         NEW u \in [HubProjectIds -> Nat], \A p \in HubProjectIds : u[p] <= project_clock,
         \A p \in left : rows[p] \in Project!Row /\ u[p] <= rows[p].activity,
         project_clock' = project_clock,
         project_sweep' = [at |-> "visit", now |-> n, left |-> left, rows |-> rows, used |-> u]
  PROVE  SweepOK'
<1>1. /\ project_sweep' \in Visiting /\ project_sweep'.at = "visit" /\ project_sweep'.now = n
      /\ project_sweep'.left = left
      /\ project_sweep'.rows = rows /\ project_sweep'.used = u
  BY DEF Visiting
<1>2. project_sweep' \notin Deciding
  <2>1. \A s \in Deciding : s.at # "visit"
    BY DEF Deciding
  <2> QED
    BY <1>1, <2>1
<1> QED
  BY <1>1, <1>2 DEF SweepOK, Project!SweepAt, Known

(* The sweep at a project.                                                  *)
LEMMA SweepDecides ==
  ASSUME NEW n \in Nat, n <= project_clock, NEW left \in SUBSET HubProjectIds, NEW rows \in Rows,
         NEW u \in [HubProjectIds -> Nat], \A p \in HubProjectIds : u[p] <= project_clock,
         \A p \in left : rows[p] \in Project!Row /\ u[p] <= rows[p].activity,
         project_clock' = project_clock,
         NEW stage \in {"decide", "read again", "mark"}, NEW p \in HubProjectIds, p \notin left,
         project_sweep' = [at |-> stage, now |-> n, left |-> left, rows |-> rows, used |-> u,
                           project |-> p],
         stage = "decide" => rows[p] \in Project!Row /\ u[p] <= rows[p].activity,
         stage = "read again" /\ p \in Project!Existing' => u[p] <= project_project'[p].activity
  PROVE  SweepOK'
<1>1. /\ project_sweep' \in Deciding /\ project_sweep'.at = stage /\ project_sweep'.now = n
      /\ project_sweep'.left = left
      /\ project_sweep'.rows = rows /\ project_sweep'.used = u /\ project_sweep'.project = p
  BY DEF Deciding
<1> QED
  BY <1>1 DEF SweepOK, Project!SweepAt, Known

(* The sweep is over.                                                       *)
LEMMA SweepRests == ASSUME project_sweep' = Project!Resting PROVE SweepOK'
<1>1. Project!Resting.at = "rest" /\ Project!Resting \notin Visiting \cup Deciding
  BY DEF Project!Resting, Visiting, Deciding
<1> QED
  BY <1>1 DEF SweepOK, Project!SweepAt

(* A step of the sweep that writes no row.                                  *)
LEMMA SweepReads ==
  ASSUME FewRequests, Project!Sizes, ProjectInv, SweepOK', Project!Left,
         UNCHANGED <<project_project, project_enrolled, project_outputs, project_used>>
  PROVE  ProjectInv'
<1>1. Onward
  BY SameRows DEF ProjectInv
<1>2. /\ project_clock' \in 1..MaxProjectTime /\ project_clock' \in Nat
      /\ project_clock' >= project_clock
      /\ project_online' \subseteq project_machines' /\ project_outputs' \subseteq HubProjectIds
      /\ project_calls' \in 0..MaxProjectCalls
  BY DEF Project!Left, ProjectInv, RowsOK, Project!TypeOK
<1>3. UsedOK'
  BY <1>1, <1>2, UseKeeps DEF ProjectInv
<1> QED
  BY <1>1, <1>2, <1>3, Elsewhere DEF Project!Left

(* On to the next project.                                                  *)
LEMMA SweepGoesOn ==
  ASSUME ProjectInv, project_sweep \in Deciding,
         project_sweep' = Project!NextProject(project_sweep), project_clock' = project_clock
  PROVE  SweepOK'
<1>1. /\ project_sweep.now \in Nat /\ project_sweep.left \subseteq HubProjectIds
      /\ project_sweep.rows \in Rows
      /\ project_sweep.used \in [HubProjectIds -> Nat] /\ project_sweep.now <= project_clock
      /\ \A p \in HubProjectIds : project_sweep.used[p] <= project_clock
      /\ \A p \in project_sweep.left :
             /\ project_sweep.rows[p] \in Project!Row
             /\ project_sweep.used[p] <= project_sweep.rows[p].activity
  BY SweepFacts DEF ProjectInv, Known
<1> QED
  BY <1>1, SweepVisits DEF Project!NextProject

(* Every step of the sweep keeps the invariant.                             *)
LEMMA SweepKeepsAll ==
  ASSUME FewRequests, Project!Sizes, ProjectInv, Project!Sweep
  PROVE  ProjectInv'
<1>0. /\ RowsOK /\ SweepOK /\ project_clock \in Nat /\ project_clock \in 1..MaxProjectTime
      /\ Project!Existing \subseteq HubProjectIds
  BY DEF ProjectInv, RowsOK, Project!TypeOK, Project!Existing
<1>f. project_sweep \in Visiting \/ project_sweep \in Deciding =>
        /\ project_sweep.now \in Nat /\ project_sweep.left \subseteq HubProjectIds
        /\ project_sweep.rows \in Rows
        /\ project_sweep.used \in [HubProjectIds -> Nat] /\ project_sweep.now <= project_clock
        /\ \A p \in HubProjectIds : project_sweep.used[p] <= project_clock
        /\ \A p \in project_sweep.left :
               /\ project_sweep.rows[p] \in Project!Row
               /\ project_sweep.used[p] <= project_sweep.rows[p].activity
  BY <1>0, SweepFacts DEF Known
<1>1. CASE Project!SweepBegins
  <2>1. /\ project_sweep' = [at |-> "visit", now |-> project_clock, left |-> Project!Existing,
                             rows |-> project_project, used |-> project_used]
        /\ Project!Left
        /\ UNCHANGED <<project_project, project_enrolled, project_outputs, project_used>>
        /\ project_clock' = project_clock
    BY <1>1 DEF Project!SweepBegins, Project!Left
  <2>2. /\ Project!Existing \in SUBSET HubProjectIds /\ project_project \in Rows
        /\ project_used \in [HubProjectIds -> Nat]
        /\ \A p \in HubProjectIds : project_used[p] <= project_clock
        /\ \A p \in Project!Existing :
               project_project[p] \in Project!Row /\ project_used[p] <= project_project[p].activity
    BY <1>0, RowFacts DEF ProjectInv, UsedOK, RowsOK, Project!TypeOK, Rows
  <2>3. SweepOK'
    BY <1>0, <2>1, <2>2, SweepVisits
  <2> QED
    BY <2>1, <2>3, SweepReads
<1>2. ASSUME NEW p \in HubProjectIds, Project!NoOnlineWorker(p) PROVE ProjectInv'
  <2>1. /\ project_sweep \in Visiting /\ p \in project_sweep.left
        /\ project_sweep' = Project!Visited(p)
        /\ Project!Left
        /\ UNCHANGED <<project_project, project_enrolled, project_outputs, project_used>>
        /\ project_clock' = project_clock
    BY <1>0, <1>2, SweepFacts DEF Project!NoOnlineWorker, Project!Left
  <2>2. SweepOK'
    <3>1. project_sweep.left \ {p} \in SUBSET HubProjectIds /\ p \notin project_sweep.left \ {p}
      BY <1>f, <2>1
    <3>2. /\ project_sweep.rows[p] \in Project!Row
          /\ project_sweep.used[p] <= project_sweep.rows[p].activity
      BY <1>f, <2>1
    <3> QED
      BY <1>f, <2>1, <3>1, <3>2, SweepDecides DEF Project!Visited
  <2> QED
    BY <2>1, <2>2, SweepReads
<1>3. ASSUME NEW p \in HubProjectIds, Project!OnlineWorker(p) PROVE ProjectInv'
  <2>1. /\ project_sweep \in Visiting /\ p \in project_sweep.left
        /\ project_sweep' = [Project!Visited(p) EXCEPT !.at = "read again",
                             !.used[p] = project_sweep.now]
        /\ Project!TouchProjectActivity({p}, project_sweep.now)
        /\ Project!Uses({p}, project_sweep.now)
        /\ Project!Left /\ UNCHANGED <<project_enrolled, project_outputs>>
        /\ project_clock' = project_clock
    BY <1>0, <1>3, SweepFacts DEF Project!OnlineWorker, Project!Left
  <2>2. /\ Onward /\ UsedOK'
        /\ (p \in Project!Existing => project_project'[p].activity >= project_sweep.now)
    BY <1>0, <1>f, <2>1, TouchKeeps DEF ProjectInv
  <2>3. SweepOK'
    <3> DEFINE u == [project_sweep.used EXCEPT ![p] = project_sweep.now]
               left == project_sweep.left \ {p}
    <3>1. /\ u \in [HubProjectIds -> Nat] /\ \A q \in HubProjectIds : u[q] <= project_clock
          /\ u[p] = project_sweep.now /\ \A q \in left : u[q] = project_sweep.used[q]
          /\ left \in SUBSET HubProjectIds /\ p \notin left
      BY <1>f, <2>1
    <3>2. project_sweep' = [at |-> "read again", now |-> project_sweep.now, left |-> left,
                    rows |-> project_sweep.rows, used |-> u, project |-> p]
      BY <2>1 DEF Project!Visited
    <3>3. \A q \in left :
              project_sweep.rows[q] \in Project!Row /\ u[q] <= project_sweep.rows[q].activity
      BY <1>f, <2>1, <3>1
    <3>4. p \in Project!Existing' => u[p] <= project_project'[p].activity
      <4> SUFFICES ASSUME p \in Project!Existing'
                   PROVE  project_sweep.now <= project_project'[p].activity
        BY <3>1
      <4>1. p \in Project!Existing /\ project_project'[p] \in Project!Row
        BY <2>2 DEF Onward, Rows, Project!Existing
      <4>2. project_project'[p].activity \in Nat
        BY <4>1 DEF Project!Row
      <4> QED
        BY <1>f, <2>1, <2>2, <4>1, <4>2
    <3>5. /\ project_sweep.now \in Nat /\ project_sweep.now <= project_clock
          /\ project_sweep.rows \in Rows /\ project_clock' = project_clock
      BY <1>f, <2>1
    <3> DEFINE stage == "read again"
    <3>6. stage \in {"decide", "read again", "mark"} /\ stage # "decide"
      OBVIOUS
    <3> HIDE DEF u, left, stage
    <3> QED
      BY <3>1, <3>2, <3>3, <3>4, <3>5, <3>6, SweepDecides
  <2>4. /\ project_online' \subseteq project_machines' /\ project_outputs' \subseteq HubProjectIds
        /\ project_clock' \in 1..MaxProjectTime /\ project_calls' \in 0..MaxProjectCalls
    BY <1>0, <2>1 DEF RowsOK, Project!TypeOK, Project!Left
  <2> QED
    BY <2>1, <2>2, <2>3, <2>4, Elsewhere DEF Project!Left
<1>4. CASE Project!ReadAgain
  <2>1. /\ project_sweep \in Deciding /\ Project!SweepAt("read again")
        /\ project_sweep' = IF project_sweep.project \in Project!Existing
                            THEN [project_sweep EXCEPT !.at = "decide",
                                  !.rows[project_sweep.project] =
                                      project_project[project_sweep.project]]
                            ELSE Project!Resting
        /\ Project!Left
        /\ UNCHANGED <<project_project, project_enrolled, project_outputs, project_used>>
        /\ project_clock' = project_clock
    BY <1>0, <1>4, SweepFacts DEF Project!ReadAgain, Project!Left
  <2>2. SweepOK'
    <3>1. CASE project_sweep.project \notin Project!Existing
      BY <2>1, <3>1, SweepRests
    <3>2. CASE project_sweep.project \in Project!Existing
      <4> DEFINE p == project_sweep.project
                 rows == [project_sweep.rows EXCEPT ![p] = project_project[p]]
      <4>1. p \in HubProjectIds /\ p \notin project_sweep.left
        BY <1>0, <2>1, SweepFacts
      <4>2. /\ project_project[p] \in Project!Row
            /\ project_sweep.used[p] <= project_project[p].activity
        BY <1>0, <2>1, <3>2, <4>1, RowFacts DEF SweepOK
      <4>3. /\ rows \in Rows /\ rows[p] = project_project[p]
            /\ \A q \in project_sweep.left : rows[q] = project_sweep.rows[q]
        BY <1>f, <2>1, <4>1, <4>2 DEF Rows
      <4>4. project_sweep' = [at |-> "decide", now |-> project_sweep.now,
                      left |-> project_sweep.left, rows |-> rows,
                      used |-> project_sweep.used, project |-> p]
        BY <2>1, <3>2 DEF Deciding
      <4> HIDE DEF p, rows
      <4> QED
        BY <1>f, <2>1, <4>1, <4>2, <4>3, <4>4, SweepDecides
    <3> QED
      BY <3>1, <3>2
  <2> QED
    BY <2>1, <2>2, SweepReads
<1>5. CASE Project!DeleteIdle
  <2>1. /\ project_sweep \in Deciding /\ project_sweep' = Project!NextProject(project_sweep)
        /\ Project!DeleteProject(project_sweep.project)
        /\ Project!Left /\ UNCHANGED project_used /\ project_clock' = project_clock
        /\ project_sweep.project \in HubProjectIds
    BY <1>0, <1>5, SweepFacts DEF Project!DeleteIdle, Project!Left
  <2>2. SweepOK'
    BY <2>1, SweepGoesOn
  <2>3. /\ Onward /\ EnrolledOK' /\ project_outputs' \subseteq HubProjectIds
        /\ RequestsOK' /\ NoNewcomer /\ Creating' \subseteq Creating
        /\ \A q \in HubProjectIds : project_project[q] = None => project_enrolled'[q] = <<>>
        /\ \A q \in Project!Existing : Elements(project_enrolled[q])' \subseteq Wanted(q)
    BY <2>1, Deletes DEF Project!Left
  <2>4. /\ project_online' \subseteq project_machines' /\ project_clock' \in 1..MaxProjectTime
        /\ project_calls' \in 0..MaxProjectCalls
        /\ project_clock' \in Nat /\ project_clock' >= project_clock
    BY <1>0, <2>1 DEF RowsOK, Project!TypeOK, Project!Left
  <2>5. UsedOK'
    BY <1>0, <2>1, <2>3, <2>4, UseKeeps DEF ProjectInv
  <2> QED
    BY <2>2, <2>3, <2>4, <2>5, Closing
<1>6. CASE Project!WarnIdle
  <2>1. /\ project_sweep \in Deciding /\ Project!SweepAt("decide")
        /\ project_sweep' = [project_sweep EXCEPT !.at = "mark"] \/ project_sweep' =
               Project!NextProject(project_sweep)
        /\ Project!Left
        /\ UNCHANGED <<project_project, project_enrolled, project_outputs, project_used>>
        /\ project_clock' = project_clock
    BY <1>0, <1>6, SweepFacts DEF Project!WarnIdle, Project!Left
  <2>2. SweepOK'
    <3>1. CASE project_sweep' = Project!NextProject(project_sweep)
      BY <2>1, <3>1, SweepGoesOn
    <3>2. CASE project_sweep' = [project_sweep EXCEPT !.at = "mark"]
      <4>1. /\ project_sweep.project \in HubProjectIds
            /\ project_sweep.project \notin project_sweep.left
        BY <1>0, <2>1, SweepFacts
      <4>2. project_sweep' = [at |-> "mark", now |-> project_sweep.now,
                      left |-> project_sweep.left, rows |-> project_sweep.rows,
                      used |-> project_sweep.used, project |-> project_sweep.project]
        BY <2>1, <3>2 DEF Deciding
      <4> QED
        BY <1>f, <2>1, <4>1, <4>2, SweepDecides
    <3> QED
      BY <2>1, <3>1, <3>2
  <2> QED
    BY <2>1, <2>2, SweepReads
<1>7. CASE Project!MarkProjectIdleWarned
  <2> DEFINE p == project_sweep.project
  <2>1. /\ project_sweep \in Deciding /\ p \in HubProjectIds
        /\ project_sweep' = Project!NextProject(project_sweep)
        /\ project_project' = IF p \in Project!Existing
               THEN [project_project EXCEPT ![p].warned = TRUE] ELSE project_project
        /\ Project!Left /\ UNCHANGED <<project_enrolled, project_outputs, project_used>>
        /\ project_clock' = project_clock
    BY <1>0, <1>7, SweepFacts DEF Project!MarkProjectIdleWarned, Project!Left
  <2> HIDE DEF p
  <2>2. SweepOK'
    BY <2>1, SweepGoesOn
  <2>3. Onward
    <3>1. CASE p \notin Project!Existing
      BY <1>0, <2>1, <3>1, SameRows
    <3>2. CASE p \in Project!Existing
      <4> DEFINE row == [project_project[p] EXCEPT !.warned = TRUE]
      <4>1. project_project[p] \in Project!Row
        BY <1>0, <2>1, <3>2, RowFacts
      <4>2. /\ row \in Project!Row /\ row.activity = project_project[p].activity
            /\ project_project[p].activity \in Nat
        BY <4>1 DEF Project!Row
      <4>3. project_project' = [project_project EXCEPT ![p] = row]
        BY <2>1, <3>2
      <4>4. row.activity >= project_project[p].activity /\ row \in Project!Row \cup {None, Gone}
        BY <4>2
      <4>5. project_project[p] = None <=> row = None
        BY <4>1, <4>2 DEF FewRequests, Project!Sizes
      <4> HIDE DEF row
      <4> QED
        BY <1>0, <2>1, <3>2, <4>3, <4>4, <4>5, RowWritten
    <3> QED
      BY <3>1, <3>2
  <2>4. /\ project_online' \subseteq project_machines' /\ project_clock' \in 1..MaxProjectTime
        /\ project_calls' \in 0..MaxProjectCalls
        /\ project_clock' \in Nat /\ project_clock' >= project_clock
        /\ project_outputs' \subseteq HubProjectIds
    BY <1>0, <2>1 DEF RowsOK, Project!TypeOK, Project!Left
  <2>5. UsedOK'
    BY <1>0, <2>1, <2>3, <2>4, UseKeeps DEF ProjectInv
  <2> QED
    BY <2>1, <2>2, <2>3, <2>4, <2>5, Elsewhere DEF Project!Left
<1>8. CASE Project!KeepProject
  <2>1. /\ project_sweep \in Deciding /\ project_sweep' = Project!NextProject(project_sweep)
        /\ Project!Left
        /\ UNCHANGED <<project_project, project_enrolled, project_outputs, project_used>>
        /\ project_clock' = project_clock
    BY <1>0, <1>8, SweepFacts DEF Project!KeepProject, Project!Left
  <2> QED
    BY <2>1, SweepGoesOn, SweepReads
<1>9. CASE Project!SweepEnds
  BY <1>9, SweepRests, SweepReads DEF Project!SweepEnds
<1> QED
  BY <1>1, <1>2, <1>3, <1>4, <1>5, <1>6, <1>7, <1>8, <1>9 DEF Project!Sweep

----------------------------------------------------------------------------
(* Every behaviour begins in the invariant.                                 *)
LEMMA ProjectInitially == ASSUME FewRequests, Project!Sizes, Project!Init PROVE ProjectInv
<1>1. Project!TypeOK /\ RequestsOK /\ EnrolledOK /\ Unborn
  <2>1. <<>> \in Seq(ProjectMachines) /\ Distinct(<<>>)
    BY DEF Distinct
  <2>2. /\ project_project \in [HubProjectIds -> Project!Row \cup {None, Gone}]
        /\ project_enrolled \in [HubProjectIds -> Seq(ProjectMachines)]
    BY <2>1 DEF Project!Init
  <2>3. /\ project_clock \in 1..MaxProjectTime /\ project_calls \in 0..MaxProjectCalls
        /\ project_online \subseteq project_machines /\ project_outputs \subseteq HubProjectIds
    BY DEF Project!Init, FewRequests, Project!Sizes
  <2>4. \A p \in HubProjectIds : project_enrolled[p] = <<>>
    BY DEF Project!Init
  <2>5. /\ project_request \in [ProjectRequests -> Kinds]
        /\ \A r \in ProjectRequests : project_request[r] = Project!Idle
    BY NextKinds DEF Project!Init
  <2>6. EnrolledOK
    BY <2>1, <2>2, <2>4 DEF EnrolledOK
  <2>7. Project!TypeOK
    BY <2>2, <2>3, <2>6 DEF Project!TypeOK, EnrolledOK, Distinct
  <2>8. Unborn
    BY <2>4, <2>5, NextKinds DEF Unborn
  <2> QED
    BY <2>5, <2>6, <2>7, <2>8 DEF RequestsOK
<1>2. Project!Existing = {} /\ Creating = {}
  <2>1. Project!Existing = {}
    BY DEF Project!Init, Project!Existing
  <2>2. Creating = {}
    BY NextKinds DEF Project!Init, Creating, Project!At
  <2> QED
    BY <2>1, <2>2
<1>3. ProjectsFit /\ MachinesFit
  <2>1. IsFiniteSet({}) /\ Cardinality({}) = 0 /\ Cardinality(ProjectRequests) \in Nat
    BY FS_EmptySet, FS_CardinalityType DEF FewRequests, Project!Sizes
  <2>2. ProjectLimit # 0 => 0 + 0 <= ProjectLimit + Cardinality(ProjectRequests) - 1
    BY <2>1 DEF FewRequests, Project!Sizes
  <2> QED
    BY <1>2, <2>1, <2>2 DEF ProjectsFit, MachinesFit
<1>4. UsedOK
  BY <1>2 DEF Project!Init, UsedOK
<1>5. SweepOK
  <2>1. Project!Resting.at = "rest" /\ Project!Resting \notin Visiting \cup Deciding
    BY DEF Project!Resting, Visiting, Deciding
  <2> QED
    BY <2>1 DEF Project!Init, SweepOK, Project!SweepAt
<1> QED
  BY <1>1, <1>3, <1>4, <1>5 DEF ProjectInv, RowsOK

(* Every step keeps it.                                                     *)
LEMMA ProjectStepKeeps ==
  ASSUME FewRequests, Project!Sizes, ProjectInv, Project!Next
  PROVE  ProjectInv'
BY ServeKeeps, DeletedByRequest, ConnectorDeleted, MachinesKeep, OthersKeep, RestartKeeps,
   SweepKeepsAll
DEF Project!Next

(* So does none.                                                            *)
LEMMA ProjectStutterKeeps ==
  ASSUME FewRequests, Project!Sizes, ProjectInv, UNCHANGED Project!vars
  PROVE  ProjectInv'
<1>1. UNCHANGED <<project_project, project_enrolled, project_machines, project_online,
                  project_outputs, project_request, project_sweep, project_clock, project_used,
                  project_calls>>
  BY DEF Project!vars
<1>2. Project!Left /\ SweepOK'
  <2>1. Project!Left /\ Onward /\ project_clock' \in Nat /\ project_clock' >= project_clock
    BY <1>1, SameRows DEF Project!Left, ProjectInv, RowsOK, Project!TypeOK
  <2> QED
    BY <1>1, <2>1, SweepKeeps DEF ProjectInv
<1> QED
  BY <1>1, <1>2, SweepReads

(* So it holds throughout.                                                  *)
LEMMA ProjectInvariant == ASSUME FewRequests, Project!Sizes PROVE Project!Spec => []ProjectInv
BY ProjectInitially, ProjectStepKeeps, ProjectStutterKeeps, PTL DEF Project!Spec

(* Projects, their machines, requests and the sweep keep their types        *)
(* (api.go, idle_project.go).                                               *)
THEOREM ProjectsTyped == Project!Spec => []Project!TypeOK
<1>0. FewRequests /\ Project!Sizes
  BY ProjectAssumption DEF FewRequests
<1> USE <1>0
<1>1. ProjectInv => Project!TypeOK
  BY DEF ProjectInv, RowsOK
<1> QED
  BY <1>1, ProjectInvariant, PTL

(* The plan's limits on projects and on machines are passed by no more      *)
(* than the requests under way but one: each was let through while there    *)
(* was room (refuseAnotherProject, refuseAnotherMachine).                   *)
THEOREM Walls == Project!Spec => []WallsHold
<1>0. FewRequests /\ Project!Sizes
  BY ProjectAssumption DEF FewRequests
<1> USE <1>0
<1>1. ASSUME ProjectInv PROVE WallsHold
  <2>1. ProjectLimit # 0 =>
          Cardinality(Project!Existing) <= ProjectLimit + Cardinality(ProjectRequests) - 1
    <3>1. IsFiniteSet(Project!Existing) /\ IsFiniteSet(Creating)
      BY <1>1, FS_Subset DEF ProjectInv, ProjectsFit, Creating, FewRequests, Project!Sizes
    <3>2. /\ Cardinality(Project!Existing) \in Nat /\ Cardinality(Creating) \in Nat
          /\ Cardinality(ProjectRequests) \in Nat
      BY <3>1, FS_CardinalityType DEF FewRequests, Project!Sizes
    <3> QED
      BY <1>1, <3>2 DEF ProjectInv, ProjectsFit, FewRequests, Project!Sizes
  <2>2. ASSUME MachineLimit # 0, NEW p \in Project!Existing
        PROVE  Len(project_enrolled[p]) <= MachineLimit + Cardinality(ProjectRequests) - 1
    <3>1. /\ IsFiniteSet(Wanted(p))
          /\ Cardinality(Wanted(p)) <= MachineLimit + Cardinality(ProjectRequests) - 1
          /\ project_enrolled[p] \in Seq(ProjectMachines) /\ Distinct(project_enrolled[p])
      BY <1>1, <2>2, RowFacts DEF ProjectInv, MachinesFit, Project!Existing
    <3>2. Len(project_enrolled[p]) <= Cardinality(Wanted(p)) /\ Len(project_enrolled[p]) \in Nat
      BY <3>1, Counted DEF Wanted
    <3>3. /\ Cardinality(Wanted(p)) \in Nat /\ Cardinality(ProjectRequests) \in Nat
          /\ MachineLimit \in Nat
      BY <3>1, FS_CardinalityType DEF FewRequests, Project!Sizes
    <3> QED
      BY <3>1, <3>2, <3>3
  <2>3. Cardinality(ProjectRequests) \in Nat
    BY FS_CardinalityType DEF FewRequests, Project!Sizes
  <2> QED
    BY <2>1, <2>2, <2>3, ProjectsCount
    DEF WallsHold, Project!WallsHold, FewRequests, Project!Sizes
<1> QED
  BY <1>1, ProjectInvariant, PTL

(* No request moves the sweep.                                              *)
LEMMA RequestLeavesSweep ==
  ASSUME NEW r \in ProjectRequests, Project!Serve(r) PROVE UNCHANGED project_sweep
<1>1. CASE \E c \in ProjectMachines \cup {None} :
             \/ Project!handleCreateProject(r, c)
             \/ \E p \in HubProjectIds : Project!handleUpdateProject(r, p, c)
  BY <1>1 DEF Project!handleCreateProject, Project!handleUpdateProject, Project!Begin
<1>2. CASE \E p \in HubProjectIds :
             \/ Project!CreateProject(r, p)
             \/ Project!handleProjectActivity(r, p) \/ Project!handleCreateTask(r, p)
             \/ \E c \in ProjectMachines : Project!handleAttachProjectConnector(r, p, c)
                                      \/ Project!handleDetachProjectConnector(r, p, c)
  BY <1>2
  DEF Project!CreateProject, Project!handleProjectActivity, Project!handleCreateTask,
      Project!handleAttachProjectConnector,
      Project!handleDetachProjectConnector, Project!Begin, Project!Quiet
<1>3. CASE \/ Project!UpdateProject(r) \/ Project!stampProjectActivity(r)
           \/ Project!AttachProjectConnector(r) \/ Project!selectConnectorIfEmpty(r)
           \/ Project!DetachProjectConnector(r) \/ Project!ListProjectConnectorIds(r)
           \/ Project!repairSelectedConnector(r)
           \/ Project!WriteSelected(r)
           \/ Project!rememberTaskOutput(r) \/ Project!SaveTaskOutput(r)
  BY <1>3
  DEF Project!UpdateProject, Project!stampProjectActivity, Project!AttachProjectConnector,
      Project!selectConnectorIfEmpty,
      Project!DetachProjectConnector, Project!ListProjectConnectorIds,
      Project!repairSelectedConnector, Project!WriteSelected,
      Project!rememberTaskOutput, Project!SaveTaskOutput, Project!Quiet
<1> QED
  BY <1>1, <1>2, <1>3 DEF Project!Serve

(* What the sweep deletes was not used within the age of deletion, as far   *)
(* as the sweep could know when it listed the projects or found a worker    *)
(* connected, although it decides by rows it read before                    *)
(* (retainIdleProjects).                                                    *)
THEOREM IdleOnly == Project!Spec => OnlyIdleAreDeleted
<1>0. FewRequests /\ Project!Sizes
  BY ProjectAssumption DEF FewRequests
<1> USE <1>0
<1>1. ASSUME ProjectInv, [Project!Next]_(Project!vars), Project!SweepAt("decide"),
             project_project[project_sweep.project] \notin {None, Gone},
             project_project'[project_sweep.project] = Gone, project_sweep' # project_sweep
      PROVE  project_sweep.used[project_sweep.project] + IdleAfter <= project_sweep.now
  <2> DEFINE p == project_sweep.project
  <2>1. /\ project_sweep \in Deciding /\ p \in HubProjectIds /\ project_sweep.now \in Nat
        /\ project_sweep.used[p] \in Nat
        /\ project_sweep.rows[p] \in Project!Row
        /\ project_sweep.used[p] <= project_sweep.rows[p].activity
    BY <1>1, SweepFacts DEF ProjectInv, SweepOK, Known
  <2>2. Project!TooOld(project_sweep.rows[p])
    <3>1. project_project' # project_project
      BY <1>1
    <3>2. ~UNCHANGED Project!vars
      BY <1>1 DEF Project!vars
    <3>3. ASSUME NEW r \in ProjectRequests, Project!Serve(r) PROVE FALSE
      BY <1>1, <3>3, RequestLeavesSweep
    <3>4. CASE \E q \in HubProjectIds :
                   Project!handleDeleteProject(q) \/ Project!PurgeTaskOutputs(q)
      BY <1>1, <3>4 DEF Project!handleDeleteProject, Project!PurgeTaskOutputs
    <3>5. CASE \E c \in ProjectMachines :
                   \/ Project!handleDeleteConnector(c)
                   \/ Project!TouchConnector(c) \/ Project!Disconnects(c)
                   \/ \E own \in BOOLEAN : Project!Connects(c, own)
      BY <1>1, <3>5
      DEF Project!handleDeleteConnector, Project!TouchConnector, Project!Disconnects,
          Project!Connects
    <3>6. CASE Project!Tick \/ Project!Restart
      BY <1>1, <3>1, <3>6 DEF Project!Tick, Project!Restart
    <3>7. CASE Project!Sweep
      BY <1>1, <3>1, <3>7
      DEF Project!Sweep, Project!SweepAt, Project!SweepBegins, Project!NoOnlineWorker,
          Project!OnlineWorker, Project!ReadAgain, Project!DeleteIdle, Project!WarnIdle,
          Project!MarkProjectIdleWarned, Project!KeepProject, Project!SweepEnds
    <3>8. Project!Next
      BY <1>1, <3>2
    <3> QED
      BY <3>3, <3>4, <3>5, <3>6, <3>7, <3>8 DEF Project!Next
  <2>3. /\ project_sweep.rows[p].activity \in Nat
        /\ project_sweep.rows[p].activity + IdleAfter <= project_sweep.now
    BY <2>1, <2>2 DEF Project!Row, Project!TooOld
  <2> QED
    BY <2>1, <2>3 DEF FewRequests, Project!Sizes
<1>2. ProjectInv /\ [Project!Next]_(Project!vars) =>
        [/\ Project!SweepAt("decide") /\ project_project[project_sweep.project] \notin {None, Gone}
         /\ project_project'[project_sweep.project] = Gone /\ project_sweep' # project_sweep
         => project_sweep.used[project_sweep.project] + IdleAfter
              <= project_sweep.now]_(Project!vars)
  BY <1>1
<1> QED
  BY <1>2, ProjectInvariant, PTL DEF Project!Spec, OnlyIdleAreDeleted, Project!OnlyIdleAreDeleted

----------------------------------------------------------------------------
(* Enrolment.                                                               *)

(* The inductive invariant.                                                 *)

Consuming == [at : {"consume"}, token : EnrolTokens]
CreatingStage == [at : {"create"}, token : EnrolTokens, project : EnrolProjects]
Answered == [at : {"answer"}, connector : EnrolConnectors, project : EnrolProjects]
Binding == [at : {"bind"}, project : EnrolProjects, org : EnrolOrgs, bound : BOOLEAN]
Minting == [at : {"mint"}, project : EnrolProjects]
Updating == [at : {"update"}, project : EnrolProjects, connector : EnrolConnectors]
Stages ==
  {Enrol!Idle} \cup Consuming \cup CreatingStage \cup Answered \cup Binding \cup Minting \cup
      Updating

Enrolled == {k \in EnrolConnectors : enrol_connectors[k] # None}

CallsOK ==
  /\ enrol_call \in [Enrol!Callers -> Stages]
  /\ \A r \in Enrol!Callers : /\ Enrol!At(r, "consume") => enrol_tokens[enrol_call[r].token] # None
                              /\ Enrol!At(r, "answer") => enrol_call[r].connector \in Enrolled

(* A token that was burnt stays so until it is purged, and a purged one     *)
(* does not come back.                                                      *)
Burnt(t, p) ==
  \/ enrol_tokens[t] = Gone
  \/ (enrol_tokens[t] \in Enrol!TokenRow /\ enrol_tokens[t].used /\ enrol_tokens[t].project = p)

(* Who burnt a token is the only one to create a connector with it, once.   *)
BurntOnce ==
  \A r \in Enrol!Callers : Enrol!At(r, "create") =>
    /\ Burnt(enrol_call[r].token, enrol_call[r].project)
    /\ \A e \in enrol_enrolments : e[1] # enrol_call[r].token
    /\ \A s \in Enrol!Callers \ {r} : Enrol!At(s, "create") =>
         enrol_call[s].token # enrol_call[r].token

EnrolmentsOK ==
  /\ enrol_enrolments \subseteq EnrolTokens \X EnrolProjects \X EnrolConnectors
  /\ \A e \in enrol_enrolments :
       /\ enrol_connectors[e[3]] \in Enrol!ConnectorRow
       /\ enrol_connectors[e[3]].project = e[2] /\ Burnt(e[1], e[2])
  /\ \A e, f \in enrol_enrolments : e[1] = f[1] => e = f

EnrolInv == Enrol!TypeOK /\ CallsOK /\ BurntOnce /\ EnrolmentsOK

----------------------------------------------------------------------------
(* What is known of a call at each of its stages.                           *)
LEMMA StageOf ==
  ASSUME CallsOK, NEW r \in Enrol!Callers
  PROVE  /\ Enrol!At(r, "consume") => enrol_call[r] \in Consuming
         /\ Enrol!At(r, "create") => enrol_call[r] \in CreatingStage
         /\ Enrol!At(r, "answer") => enrol_call[r] \in Answered
         /\ Enrol!At(r, "bind") => enrol_call[r] \in Binding
         /\ Enrol!At(r, "mint") => enrol_call[r] \in Minting
         /\ Enrol!At(r, "update") => enrol_call[r] \in Updating
<1>1. enrol_call[r] \in Stages
  BY DEF CallsOK
<1> QED
  BY <1>1
  DEF Stages, Consuming, CreatingStage, Answered, Binding, Minting, Updating, Enrol!Idle, Enrol!At

(* What every step does to the rows of the gateway: a burnt token stays     *)
(* burnt, a minted one stays or is purged, a connector stays.               *)
RowsKept ==
  /\ enrol_tokens' \in [EnrolTokens -> Enrol!TokenRow \cup {None, Gone}]
  /\ enrol_connectors' \in [EnrolConnectors -> Enrol!ConnectorRow \cup {None}]
  /\ \A t \in EnrolTokens : enrol_tokens[t] # None => enrol_tokens'[t] # None
  /\ \A t \in EnrolTokens, p \in EnrolProjects : Burnt(t, p) => Burnt(t, p)'
  /\ \A k \in Enrolled : enrol_connectors'[k] = enrol_connectors[k] /\ k \in Enrolled'

LEMMA MintKeeps ==
  ASSUME Enrol!NotRows, Enrol!TypeOK, NEW t \in EnrolTokens, NEW p \in EnrolProjects,
         NEW shown \in BOOLEAN,
         Enrol!CreateEnrollToken(t, p, shown), UNCHANGED enrol_connectors
  PROVE  RowsKept
<1> DEFINE row == [project |-> p, shown |-> shown, used |-> FALSE, expired |-> FALSE]
<1>1. row \in Enrol!TokenRow
  BY DEF Enrol!TokenRow
<1>2. enrol_tokens[t] = None /\ enrol_tokens' = [enrol_tokens EXCEPT ![t] = row]
  BY DEF Enrol!CreateEnrollToken, Enrol!IsNext
<1> HIDE DEF row
<1>3. /\ enrol_tokens \in [EnrolTokens -> Enrol!TokenRow \cup {None, Gone}]
      /\ enrol_connectors' \in [EnrolConnectors -> Enrol!ConnectorRow \cup {None}]
  BY DEF Enrol!TypeOK, Enrol!TokenRow, Enrol!ConnectorRow
<1>4. ASSUME NEW u \in EnrolTokens PROVE enrol_tokens'[u] = IF u = t THEN row ELSE enrol_tokens[u]
  BY <1>2, <1>3
<1>5. enrol_tokens' \in [EnrolTokens -> Enrol!TokenRow \cup {None, Gone}]
  BY <1>1, <1>2, <1>3
<1>6. \A u \in EnrolTokens : enrol_tokens[u] # None => enrol_tokens'[u] = enrol_tokens[u]
  BY <1>2, <1>4
<1>7. \A u \in EnrolTokens, q \in EnrolProjects : Burnt(u, q) => enrol_tokens[u] # None
  BY DEF Burnt, Enrol!NotRows
<1> QED
  BY <1>3, <1>5, <1>6, <1>7 DEF RowsKept, Burnt, Enrolled

(* The token of a row that is there is changed to another row, which is     *)
(* burnt if it was, or purged.                                              *)
LEMMA TokenChanges ==
  ASSUME Enrol!NotRows, Enrol!TypeOK, NEW t \in EnrolTokens, NEW row \in Enrol!TokenRow \cup {Gone},
         enrol_tokens[t] \notin {None, Gone}, enrol_tokens' = [enrol_tokens EXCEPT ![t] = row],
         row # Gone => (enrol_tokens[t].used => row.used) /\ row.project = enrol_tokens[t].project,
         UNCHANGED enrol_connectors
  PROVE  RowsKept
<1>1. /\ enrol_tokens \in [EnrolTokens -> Enrol!TokenRow \cup {None, Gone}]
      /\ enrol_connectors' \in [EnrolConnectors -> Enrol!ConnectorRow \cup {None}]
  BY DEF Enrol!TypeOK, Enrol!TokenRow, Enrol!ConnectorRow
<1>2. ASSUME NEW u \in EnrolTokens PROVE enrol_tokens'[u] = IF u = t THEN row ELSE enrol_tokens[u]
  BY <1>1
<1>3. enrol_tokens' \in [EnrolTokens -> Enrol!TokenRow \cup {None, Gone}]
  BY <1>1
<1>4. \A u \in EnrolTokens : enrol_tokens[u] # None => enrol_tokens'[u] # None
  BY <1>2 DEF Enrol!NotRows
<1>5. ASSUME NEW u \in EnrolTokens, NEW p \in EnrolProjects, Burnt(u, p) PROVE Burnt(u, p)'
  BY <1>2, <1>5 DEF Burnt
<1> QED
  BY <1>1, <1>3, <1>4, <1>5 DEF RowsKept, Enrolled

LEMMA RowsStand ==
  ASSUME Enrol!NotRows, Enrol!TypeOK, UNCHANGED <<enrol_tokens, enrol_connectors>>
  PROVE  RowsKept
<1>1. /\ enrol_tokens \in [EnrolTokens -> Enrol!TokenRow \cup {None, Gone}]
      /\ enrol_connectors \in [EnrolConnectors -> Enrol!ConnectorRow \cup {None}]
  BY DEF Enrol!TypeOK, Enrol!TokenRow, Enrol!ConnectorRow
<1> QED
  BY <1>1 DEF RowsKept, Burnt, Enrolled

LEMMA StepKeepsRows ==
  ASSUME Enrol!NotRows, EnrolInv, Enrol!Next
  PROVE  RowsKept
<1>0. Enrol!TypeOK /\ CallsOK /\ enrol_tokens \in [EnrolTokens -> Enrol!TokenRow \cup {None, Gone}]
  BY DEF EnrolInv, Enrol!TypeOK, Enrol!TokenRow
<1>1. ASSUME NEW p \in EnrolProjects, NEW t \in EnrolTokens, Enrol!handleCreateEnrollToken(t, p)
      PROVE  RowsKept
  BY <1>0, <1>1, MintKeeps DEF Enrol!handleCreateEnrollToken
<1>2. ASSUME NEW m \in EnrolMachines, Enrol!Keep(m) \/ \E t \in EnrolTokens : Enrol!Enroll(m, t)
      PROVE  RowsKept
  BY <1>0, <1>2, RowsStand DEF Enrol!Keep, Enrol!Enroll
<1>3. ASSUME NEW r \in Enrol!Callers, Enrol!ConsumeEnrollToken(r)
      PROVE  RowsKept
  <2>1. CASE Enrol!Consumable(enrol_call[r].token)
    <3> DEFINE t == enrol_call[r].token
    <3>1. t \in EnrolTokens /\ enrol_tokens[t] # None
      BY <1>0, <1>3, StageOf DEF Enrol!ConsumeEnrollToken, Consuming, CallsOK
    <3>2. enrol_tokens' = [enrol_tokens EXCEPT ![t].used = TRUE] /\ UNCHANGED enrol_connectors
      BY <1>3, <2>1 DEF Enrol!ConsumeEnrollToken
    <3>3. enrol_tokens[t] # Gone
      BY <2>1 DEF Enrol!Consumable
    <3> HIDE DEF t
    <3> DEFINE row == [enrol_tokens[t] EXCEPT !.used = TRUE]
    <3>4. enrol_tokens[t] \in Enrol!TokenRow
      BY <1>0, <3>1, <3>3
    <3>5. row \in Enrol!TokenRow /\ row.used /\ row.project = enrol_tokens[t].project
      BY <3>4 DEF Enrol!TokenRow
    <3>6. enrol_tokens' = [enrol_tokens EXCEPT ![t] = row]
      BY <3>2
    <3> HIDE DEF row
    <3> QED
      BY <1>0, <3>1, <3>2, <3>3, <3>5, <3>6, TokenChanges
  <2>2. CASE ~Enrol!Consumable(enrol_call[r].token)
    BY <1>0, <1>3, <2>2, RowsStand DEF Enrol!ConsumeEnrollToken
  <2> QED
    BY <2>1, <2>2
<1>4. ASSUME NEW r \in Enrol!Callers, NEW k \in EnrolConnectors, Enrol!CreateConnector(r, k)
      PROVE  RowsKept
  <2> DEFINE row == [project |-> enrol_call[r].project]
  <2>1. row \in Enrol!ConnectorRow
    BY <1>0, <1>4, StageOf DEF Enrol!CreateConnector, CreatingStage, Enrol!ConnectorRow
  <2>2. /\ enrol_connectors[k] = None /\ enrol_connectors' = [enrol_connectors EXCEPT ![k] = row]
        /\ UNCHANGED enrol_tokens
    BY <1>4 DEF Enrol!CreateConnector, Enrol!IsNext
  <2> HIDE DEF row
  <2>3. enrol_connectors \in [EnrolConnectors -> Enrol!ConnectorRow \cup {None}]
    BY <1>0 DEF Enrol!TypeOK, Enrol!ConnectorRow
  <2>4. enrol_connectors' \in [EnrolConnectors -> Enrol!ConnectorRow \cup {None}]
    BY <2>1, <2>2, <2>3
  <2>5. \A j \in EnrolConnectors : enrol_connectors[j] # None =>
          enrol_connectors'[j] = enrol_connectors[j]
    BY <2>2, <2>3
  <2> QED
    BY <1>0, <2>2, <2>4, <2>5 DEF RowsKept, Burnt, Enrolled
<1>5. ASSUME NEW r \in Enrol!Callers, Enrol!Fault(r)
      PROVE  RowsKept
  BY <1>0, <1>5, RowsStand DEF Enrol!Fault
<1>6. ASSUME NEW r \in Enrol!Binders,
             Enrol!shouldBindSelfhostWorker(r) \/ Enrol!EnrollTo(r) \/ Enrol!UpdateProject(r)
      PROVE  RowsKept
  BY <1>0, <1>6, RowsStand DEF Enrol!shouldBindSelfhostWorker, Enrol!EnrollTo, Enrol!UpdateProject
<1>7. ASSUME NEW r \in Enrol!Binders, NEW t \in EnrolTokens, Enrol!mintGatewayEnrollToken(r, t)
      PROVE  RowsKept
  <2>1. enrol_call[r].project \in EnrolProjects
    BY <1>0, <1>7, StageOf DEF Enrol!mintGatewayEnrollToken, Minting, Enrol!Callers
  <2> QED
    BY <1>0, <1>7, <2>1, MintKeeps DEF Enrol!mintGatewayEnrollToken
<1>8. ASSUME NEW t \in EnrolTokens, Enrol!Expire(t)
      PROVE  RowsKept
  <2> DEFINE row == [enrol_tokens[t] EXCEPT !.expired = TRUE]
  <2>1. enrol_tokens[t] \in Enrol!TokenRow
    BY <1>0, <1>8 DEF Enrol!Expire
  <2>2. /\ row \in Enrol!TokenRow /\ row.used = enrol_tokens[t].used
        /\ row.project = enrol_tokens[t].project
    BY <2>1 DEF Enrol!TokenRow
  <2>3. enrol_tokens' = [enrol_tokens EXCEPT ![t] = row] /\ UNCHANGED enrol_connectors
    BY <1>8 DEF Enrol!Expire
  <2> HIDE DEF row
  <2> QED
    BY <1>0, <1>8, <2>2, <2>3, TokenChanges DEF Enrol!Expire
<1>9. ASSUME NEW t \in EnrolTokens, Enrol!PurgeEnrollTokens(t)
      PROVE  RowsKept
  BY <1>0, <1>9, TokenChanges DEF Enrol!PurgeEnrollTokens
<1>10. ASSUME NEW p \in EnrolProjects,
              \/ \E r \in EnrolRequests, o \in EnrolOrgs : Enrol!handleCreateProject(r, p, o)
              \/ Enrol!DeleteProject(p)
       PROVE  RowsKept
  BY <1>0, <1>10, RowsStand DEF Enrol!handleCreateProject, Enrol!DeleteProject
<1>11. CASE Enrol!recoverSelfhostWorker \/ Enrol!runSelfhostGatewayAgent \/ Enrol!Restart
  BY <1>0, <1>11, RowsStand
  DEF Enrol!recoverSelfhostWorker, Enrol!runSelfhostGatewayAgent, Enrol!Restart
<1> QED
  BY <1>1, <1>2, <1>3, <1>4, <1>5, <1>6, <1>7, <1>8, <1>9, <1>10, <1>11 DEF Enrol!Next

----------------------------------------------------------------------------
(* A call goes to its next stage, or none does.                             *)
LEMMA CallSteps ==
  ASSUME CallsOK, RowsKept, NEW r \in Enrol!Callers, NEW next \in Stages, Enrol!Step(r, next),
         next.at = "consume" => enrol_tokens'[next.token] # None,
         next.at = "answer" => next.connector \in Enrolled'
  PROVE  CallsOK'
<1>1. enrol_call' = [enrol_call EXCEPT ![r] = next] /\ enrol_call \in [Enrol!Callers -> Stages]
  BY DEF Enrol!Step, CallsOK
<1>2. enrol_call' \in [Enrol!Callers -> Stages]
  BY <1>1
<1>3. ASSUME NEW s \in Enrol!Callers
      PROVE  /\ Enrol!At(s, "consume")' => enrol_tokens'[enrol_call'[s].token] # None
             /\ Enrol!At(s, "answer")' => enrol_call'[s].connector \in Enrolled'
  <2>1. CASE s = r
    BY <1>1, <2>1 DEF Enrol!At
  <2>2. CASE s # r
    <3>1. enrol_call'[s] = enrol_call[s]
      BY <1>1, <2>2
    <3>2. Enrol!At(s, "consume") => enrol_call[s].token \in EnrolTokens
      BY StageOf DEF Consuming
    <3> QED
      BY <3>1, <3>2 DEF Enrol!At, CallsOK, RowsKept
  <2> QED
    BY <2>1, <2>2
<1> QED
  BY <1>2, <1>3 DEF CallsOK

LEMMA CallsStand ==
  ASSUME CallsOK, RowsKept, UNCHANGED enrol_call
  PROVE  CallsOK'
<1>1. \A s \in Enrol!Callers : Enrol!At(s, "consume") => enrol_call[s].token \in EnrolTokens
  BY StageOf DEF Consuming
<1> QED
  BY <1>1 DEF CallsOK, RowsKept, Enrol!At

LEMMA CallEnds ==
  ASSUME CallsOK, RowsKept, NEW r \in Enrol!Callers, Enrol!Done(r)
  PROVE  CallsOK'
<1>1. Enrol!Idle \in Stages /\ Enrol!Idle.at = "idle"
  BY DEF Stages, Enrol!Idle
<1> HIDE DEF Enrol!Idle
<1> QED
  BY <1>1, CallSteps DEF Enrol!Done

LEMMA CallsTyped ==
  ASSUME Enrol!NotRows, EnrolInv, Enrol!Next
  PROVE  CallsOK'
<1>0. Enrol!TypeOK /\ CallsOK /\ RowsKept
  BY StepKeepsRows DEF EnrolInv
<1>1. ASSUME NEW p \in EnrolProjects, NEW t \in EnrolTokens, Enrol!handleCreateEnrollToken(t, p)
      PROVE  CallsOK'
  BY <1>0, <1>1, CallsStand DEF Enrol!handleCreateEnrollToken
<1>2. ASSUME NEW m \in EnrolMachines, Enrol!Keep(m)
      PROVE  CallsOK'
  BY <1>0, <1>2, CallEnds DEF Enrol!Keep, Enrol!Callers
<1>3. ASSUME NEW m \in EnrolMachines, NEW t \in EnrolTokens, Enrol!Enroll(m, t)
      PROVE  CallsOK'
  <2> DEFINE next == [at |-> "consume", token |-> t]
  <2>1. next \in Stages /\ next.at = "consume" /\ next.token = t
    BY DEF Stages, Consuming
  <2>2. Enrol!Step(m, next) /\ enrol_tokens'[t] # None
    BY <1>3 DEF Enrol!Enroll
  <2> HIDE DEF next
  <2> QED
    BY <1>0, <2>1, <2>2, CallSteps DEF Enrol!Callers
<1>4. ASSUME NEW r \in Enrol!Callers, Enrol!ConsumeEnrollToken(r)
      PROVE  CallsOK'
  <2>1. CASE Enrol!Consumable(enrol_call[r].token)
    <3> DEFINE t == enrol_call[r].token
               next == [at |-> "create", token |-> t, project |-> enrol_tokens[t].project]
    <3>1. t \in EnrolTokens /\ enrol_tokens[t] # None
      BY <1>0, <1>4, StageOf DEF Enrol!ConsumeEnrollToken, Consuming, CallsOK
    <3>2. enrol_tokens[t] \in Enrol!TokenRow
      BY <1>0, <2>1, <3>1 DEF Enrol!Consumable, Enrol!TypeOK, Enrol!TokenRow
    <3>3. enrol_tokens[t].project \in EnrolProjects
      BY <3>2 DEF Enrol!TokenRow
    <3>4. next \in Stages /\ next.at = "create"
      BY <3>1, <3>3 DEF Stages, CreatingStage
    <3>5. Enrol!Step(r, next)
      BY <1>4, <2>1 DEF Enrol!ConsumeEnrollToken
    <3> HIDE DEF next
    <3> QED
      BY <1>0, <3>4, <3>5, CallSteps
  <2>2. CASE ~Enrol!Consumable(enrol_call[r].token)
    BY <1>0, <1>4, <2>2, CallEnds DEF Enrol!ConsumeEnrollToken
  <2> QED
    BY <2>1, <2>2
<1>5. ASSUME NEW r \in Enrol!Callers, NEW k \in EnrolConnectors, Enrol!CreateConnector(r, k)
      PROVE  CallsOK'
  <2> DEFINE next == [at |-> "answer", connector |-> k, project |-> enrol_call[r].project]
  <2>1. enrol_call[r].project \in EnrolProjects
    BY <1>0, <1>5, StageOf DEF Enrol!CreateConnector, CreatingStage
  <2>2. next \in Stages /\ next.at = "answer" /\ next.connector = k
    BY <2>1 DEF Stages, Answered
  <2>3. /\ Enrol!Step(r, next)
        /\ enrol_connectors' = [enrol_connectors EXCEPT ![k] = [project |-> enrol_call[r].project]]
    BY <1>5 DEF Enrol!CreateConnector
  <2>4. enrol_connectors'[k] = [project |-> enrol_call[r].project]
    BY <1>0, <2>3 DEF Enrol!TypeOK
  <2>5. [project |-> enrol_call[r].project] \in Enrol!ConnectorRow
    BY <2>1 DEF Enrol!ConnectorRow
  <2>6. k \in Enrolled'
    BY <2>4, <2>5 DEF Enrolled, Enrol!NotRows
  <2> HIDE DEF next
  <2> QED
    BY <1>0, <2>2, <2>3, <2>6, CallSteps
<1>6. ASSUME NEW r \in Enrol!Callers, Enrol!Fault(r)
      PROVE  CallsOK'
  BY <1>0, <1>6, CallEnds DEF Enrol!Fault
<1>7. ASSUME NEW r \in Enrol!Binders, Enrol!shouldBindSelfhostWorker(r)
      PROVE  CallsOK'
  <2>1. r \in Enrol!Callers /\ enrol_call[r].project \in EnrolProjects
    BY <1>0, <1>7, StageOf DEF Enrol!shouldBindSelfhostWorker, Binding, Enrol!Callers
  <2>2. CASE Enrol!Done(r)
    BY <1>0, <2>1, <2>2, CallEnds
  <2>3. CASE /\ enrol_config = None
             /\ Enrol!Step(r, [at |-> "mint", project |-> enrol_call[r].project])
    <3> DEFINE next == [at |-> "mint", project |-> enrol_call[r].project]
    <3>1. next \in Stages /\ next.at = "mint" /\ Enrol!Step(r, next)
      BY <2>1, <2>3 DEF Stages, Minting
    <3> HIDE DEF next
    <3> QED
      BY <1>0, <2>1, <3>1, CallSteps
  <2>4. CASE /\ enrol_config # None
             /\ Enrol!Step(r, [at |-> "update", project |-> enrol_call[r].project,
                               connector |-> enrol_config])
    <3> DEFINE next == [at |-> "update", project |-> enrol_call[r].project,
                        connector |-> enrol_config]
    <3>1. enrol_config \in EnrolConnectors
      BY <1>0, <2>4 DEF Enrol!TypeOK
    <3>2. next \in Stages /\ next.at = "update" /\ Enrol!Step(r, next)
      BY <2>1, <2>4, <3>1 DEF Stages, Updating
    <3> HIDE DEF next
    <3> QED
      BY <1>0, <2>1, <3>2, CallSteps
  <2> QED
    BY <1>7, <2>2, <2>3, <2>4 DEF Enrol!shouldBindSelfhostWorker
<1>8. ASSUME NEW r \in Enrol!Binders, NEW t \in EnrolTokens, Enrol!mintGatewayEnrollToken(r, t)
      PROVE  CallsOK'
  <2> DEFINE next == [at |-> "consume", token |-> t]
             row == [project |-> enrol_call[r].project, shown |-> FALSE, used |-> FALSE,
                     expired |-> FALSE]
  <2>1. r \in Enrol!Callers /\ enrol_call[r].project \in EnrolProjects
    BY <1>0, <1>8, StageOf DEF Enrol!mintGatewayEnrollToken, Minting, Enrol!Callers
  <2>2. next \in Stages /\ next.at = "consume" /\ next.token = t
    BY DEF Stages, Consuming
  <2>3. Enrol!Step(r, next) /\ enrol_tokens' = [enrol_tokens EXCEPT ![t] = row]
    BY <1>8 DEF Enrol!mintGatewayEnrollToken, Enrol!CreateEnrollToken
  <2>4. row \in Enrol!TokenRow
    BY <2>1 DEF Enrol!TokenRow
  <2> HIDE DEF next, row
  <2>5. enrol_tokens'[t] # None
    BY <1>0, <2>3, <2>4 DEF Enrol!TypeOK, Enrol!NotRows
  <2> QED
    BY <1>0, <2>1, <2>2, <2>3, <2>5, CallSteps
<1>9. ASSUME NEW r \in Enrol!Binders, Enrol!EnrollTo(r)
      PROVE  CallsOK'
  <2> DEFINE a == enrol_call[r]
             next == [at |-> "update", project |-> a.project, connector |-> a.connector]
  <2>1. r \in Enrol!Callers /\ a.project \in EnrolProjects /\ a.connector \in EnrolConnectors
    BY <1>0, <1>9, StageOf DEF Enrol!EnrollTo, Answered, Enrol!Callers
  <2>2. next \in Stages /\ next.at = "update"
    BY <2>1 DEF Stages, Updating
  <2>3. Enrol!Step(r, next)
    BY <1>9 DEF Enrol!EnrollTo
  <2> HIDE DEF next
  <2> QED
    BY <1>0, <2>1, <2>2, <2>3, CallSteps
<1>10. ASSUME NEW r \in Enrol!Binders, Enrol!UpdateProject(r)
       PROVE  CallsOK'
  BY <1>0, <1>10, CallEnds DEF Enrol!UpdateProject, Enrol!Callers
<1>11. ASSUME NEW t \in EnrolTokens, Enrol!Expire(t) \/ Enrol!PurgeEnrollTokens(t)
       PROVE  CallsOK'
  BY <1>0, <1>11, CallsStand DEF Enrol!Expire, Enrol!PurgeEnrollTokens
<1>12. ASSUME NEW p \in EnrolProjects, NEW r \in EnrolRequests, NEW o \in EnrolOrgs,
              Enrol!handleCreateProject(r, p, o)
       PROVE  CallsOK'
  <2> DEFINE next == [at |-> "bind", project |-> p, org |-> o, bound |-> FALSE]
  <2>1. next \in Stages /\ next.at = "bind"
    BY DEF Stages, Binding
  <2>2. Enrol!Step(r, next)
    BY <1>12 DEF Enrol!handleCreateProject
  <2> HIDE DEF next
  <2> QED
    BY <1>0, <2>1, <2>2, CallSteps DEF Enrol!Callers, Enrol!Binders
<1>13. ASSUME NEW p \in EnrolProjects, Enrol!DeleteProject(p)
       PROVE  CallsOK'
  BY <1>0, <1>13, CallsStand DEF Enrol!DeleteProject
<1>14. CASE Enrol!recoverSelfhostWorker
  <2>1. CASE UNCHANGED enrol_call
    BY <1>0, <2>1, CallsStand
  <2>2. ASSUME NEW p \in Enrol!Existing,
               Enrol!Step("recover", [at |-> "bind", project |-> p, org |-> enrol_projects[p].org,
                                      bound |-> enrol_projects[p].connector # None])
        PROVE  CallsOK'
    <3> DEFINE next == [at |-> "bind", project |-> p, org |-> enrol_projects[p].org,
                        bound |-> enrol_projects[p].connector # None]
    <3>0. p \in EnrolProjects /\ enrol_projects[p].org \in EnrolOrgs
      BY <1>0, <2>2 DEF Enrol!Existing, Enrol!TypeOK, Enrol!ProjectRow
    <3>1. next \in Stages /\ next.at = "bind" /\ Enrol!Step("recover", next)
      BY <2>2, <3>0 DEF Stages, Binding
    <3> HIDE DEF next
    <3> QED
      BY <1>0, <3>1, CallSteps DEF Enrol!Callers, Enrol!Binders
  <2> QED
    BY <1>14, <2>1, <2>2 DEF Enrol!recoverSelfhostWorker
<1>15. CASE Enrol!runSelfhostGatewayAgent
  BY <1>0, <1>15, CallsStand DEF Enrol!runSelfhostGatewayAgent
<1>16. CASE Enrol!Restart
  <2>1. UNCHANGED <<enrol_tokens, enrol_connectors>>
        /\ enrol_call' = [r \in Enrol!Callers |-> IF r \in Enrol!Binders THEN Enrol!Idle
                              ELSE enrol_call[r]]
    BY <1>16 DEF Enrol!Restart
  <2>2. Enrol!Idle \in Stages /\ Enrol!Idle.at = "idle"
    BY DEF Stages, Enrol!Idle
  <2> HIDE DEF Enrol!Idle
  <2>3. \A r \in Enrol!Callers : enrol_call'[r] = Enrol!Idle \/ enrol_call'[r] = enrol_call[r]
    BY <2>1
  <2>4. enrol_call' \in [Enrol!Callers -> Stages]
    BY <1>0, <2>1, <2>2 DEF CallsOK
  <2>5. ASSUME NEW r \in Enrol!Callers
        PROVE  /\ Enrol!At(r, "consume")' => enrol_tokens'[enrol_call'[r].token] # None
               /\ Enrol!At(r, "answer")' => enrol_call'[r].connector \in Enrolled'
    <3>1. CASE enrol_call'[r] = Enrol!Idle
      BY <2>2, <3>1 DEF Enrol!At
    <3>2. CASE enrol_call'[r] = enrol_call[r]
      BY <1>0, <2>1, <3>2 DEF Enrol!At, CallsOK, Enrolled
    <3> QED
      BY <2>3, <3>1, <3>2
  <2> QED
    BY <2>4, <2>5 DEF CallsOK
<1> QED
  BY <1>1, <1>2, <1>3, <1>4, <1>5, <1>6, <1>7, <1>8, <1>9, <1>10, <1>11, <1>12, <1>13, <1>14,
     <1>15, <1>16 DEF Enrol!Next

----------------------------------------------------------------------------
(* The tables of the hub.                                                   *)
LEMMA TablesTyped ==
  ASSUME Enrol!NotRows, Enrol!Bounds, EnrolInv, Enrol!Next
  PROVE  Enrol!TypeOK'
<1>0. /\ Enrol!TypeOK /\ CallsOK /\ RowsKept
      /\ enrol_projects \in [EnrolProjects -> Enrol!ProjectRow \cup {None, Gone}]
  BY StepKeepsRows DEF EnrolInv, Enrol!TypeOK, Enrol!ProjectRow
<1>1. enrol_projects' \in [EnrolProjects -> Enrol!ProjectRow \cup {None, Gone}]
  <2>1. CASE UNCHANGED enrol_projects
    BY <1>0, <2>1
  <2>2. ASSUME NEW p \in EnrolProjects, NEW r \in EnrolRequests, NEW o \in EnrolOrgs,
               Enrol!handleCreateProject(r, p, o)
        PROVE  enrol_projects' \in [EnrolProjects -> Enrol!ProjectRow \cup {None, Gone}]
    BY <1>0, <2>2 DEF Enrol!handleCreateProject, Enrol!ProjectRow
  <2>3. ASSUME NEW r \in Enrol!Binders, Enrol!UpdateProject(r)
        PROVE  enrol_projects' \in [EnrolProjects -> Enrol!ProjectRow \cup {None, Gone}]
    <3> DEFINE p == enrol_call[r].project
               row == [enrol_projects[p] EXCEPT !.connector = enrol_call[r].connector]
    <3>1. CASE p \in Enrol!Existing
      <4>1. enrol_call[r].connector \in EnrolConnectors /\ p \in EnrolProjects
        BY <1>0, <2>3, StageOf DEF Enrol!UpdateProject, Updating, Enrol!Callers
      <4>2. enrol_projects[p] \in Enrol!ProjectRow
        BY <1>0, <3>1, <4>1 DEF Enrol!Existing
      <4>3. row \in Enrol!ProjectRow
        BY <4>1, <4>2 DEF Enrol!ProjectRow
      <4>4. enrol_projects' = [enrol_projects EXCEPT ![p] = row]
        BY <2>3, <3>1 DEF Enrol!UpdateProject
      <4> HIDE DEF row, p
      <4> QED
        BY <1>0, <4>1, <4>3, <4>4
    <3>2. CASE p \notin Enrol!Existing
      BY <1>0, <2>3, <3>2 DEF Enrol!UpdateProject
    <3> QED
      BY <3>1, <3>2
  <2>4. ASSUME NEW p \in EnrolProjects, Enrol!DeleteProject(p)
        PROVE  enrol_projects' \in [EnrolProjects -> Enrol!ProjectRow \cup {None, Gone}]
    BY <1>0, <2>4 DEF Enrol!DeleteProject
  <2> QED
    BY <2>1, <2>2, <2>3, <2>4
       DEF Enrol!Next, Enrol!handleCreateEnrollToken, Enrol!Keep, Enrol!Enroll,
           Enrol!ConsumeEnrollToken, Enrol!CreateConnector, Enrol!Fault,
           Enrol!shouldBindSelfhostWorker, Enrol!EnrollTo, Enrol!mintGatewayEnrollToken,
           Enrol!Expire, Enrol!PurgeEnrollTokens,
           Enrol!recoverSelfhostWorker, Enrol!runSelfhostGatewayAgent, Enrol!Restart
<1>2. enrol_config' \in Enrolled' \cup {None} /\ enrol_worker' \in Enrolled' \cup {None}
  <2>0. enrol_config \in Enrolled' \cup {None} /\ enrol_worker \in Enrolled' \cup {None}
    BY <1>0 DEF Enrol!TypeOK, RowsKept, Enrolled
  <2>1. CASE UNCHANGED <<enrol_config, enrol_worker>>
    BY <2>0, <2>1
  <2>2. ASSUME NEW r \in Enrol!Binders, Enrol!EnrollTo(r)
        PROVE  enrol_config' \in Enrolled' \cup {None} /\ enrol_worker' = enrol_worker
    <3>1. /\ enrol_config' = enrol_call[r].connector /\ enrol_worker' = enrol_worker
          /\ Enrol!At(r, "answer") /\ r \in Enrol!Callers
      BY <2>2 DEF Enrol!EnrollTo, Enrol!Callers
    <3> QED
      BY <1>0, <3>1 DEF CallsOK, RowsKept
  <2>3. CASE Enrol!runSelfhostGatewayAgent
    BY <2>0, <2>3 DEF Enrol!runSelfhostGatewayAgent
  <2>4. CASE Enrol!Restart
    BY <2>0, <2>4 DEF Enrol!Restart
  <2> QED
    BY <2>0, <2>1, <2>2, <2>3, <2>4
       DEF Enrol!Next, Enrol!handleCreateEnrollToken, Enrol!Keep, Enrol!Enroll,
           Enrol!ConsumeEnrollToken, Enrol!CreateConnector, Enrol!Fault,
           Enrol!shouldBindSelfhostWorker, Enrol!mintGatewayEnrollToken, Enrol!UpdateProject,
           Enrol!Expire, Enrol!PurgeEnrollTokens,
           Enrol!handleCreateProject, Enrol!DeleteProject, Enrol!recoverSelfhostWorker
<1>3. enrol_faults' \in 0..MaxEnrolFaults
  <2>1. enrol_faults \in 0..MaxEnrolFaults
    BY <1>0 DEF Enrol!TypeOK
  <2>2. \/ enrol_faults' = enrol_faults
        \/ (enrol_faults < MaxEnrolFaults /\ enrol_faults' = enrol_faults + 1)
    BY DEF Enrol!Next, Enrol!handleCreateEnrollToken, Enrol!Keep, Enrol!Enroll,
       Enrol!ConsumeEnrollToken, Enrol!CreateConnector, Enrol!Fault,
           Enrol!shouldBindSelfhostWorker, Enrol!EnrollTo, Enrol!UpdateProject,
           Enrol!mintGatewayEnrollToken, Enrol!Expire,
           Enrol!PurgeEnrollTokens, Enrol!handleCreateProject, Enrol!DeleteProject,
           Enrol!recoverSelfhostWorker,
           Enrol!runSelfhostGatewayAgent, Enrol!Restart
  <2> QED
    BY <2>1, <2>2 DEF Enrol!Bounds
<1> QED
  BY <1>0, <1>1, <1>2, <1>3
  DEF Enrol!TypeOK, RowsKept, Enrol!ProjectRow, Enrol!TokenRow, Enrol!ConnectorRow, Enrolled

----------------------------------------------------------------------------
(* Who creates a connector and what was created.                            *)

(* A call that is about to create was so before, or has burnt its token in  *)
(* this step.                                                               *)
LEMMA CreatorsStay ==
  ASSUME EnrolInv, Enrol!Next, ~(\E r \in Enrol!Callers : Enrol!ConsumeEnrollToken(r)),
         NEW s \in Enrol!Callers, Enrol!At(s, "create")'
  PROVE  Enrol!At(s, "create") /\ enrol_call'[s] = enrol_call[s]
<1>0. /\ enrol_call \in [Enrol!Callers -> Stages] /\ EnrolRequests \subseteq Enrol!Callers
      /\ "recover" \in Enrol!Callers
  BY DEF EnrolInv, CallsOK, Enrol!Callers, Enrol!Binders
<1>1. ASSUME NEW r \in Enrol!Callers, NEW next, Enrol!Step(r, next), next.at # "create"
      PROVE  Enrol!At(s, "create") /\ enrol_call'[s] = enrol_call[s]
  BY <1>0, <1>1 DEF Enrol!Step, Enrol!At
<1>2. CASE UNCHANGED enrol_call
  BY <1>2 DEF Enrol!At
<1>3. ASSUME NEW r \in Enrol!Callers, Enrol!Done(r)
      PROVE  Enrol!At(s, "create") /\ enrol_call'[s] = enrol_call[s]
  BY <1>1, <1>3 DEF Enrol!Done, Enrol!Idle
<1>4. ASSUME NEW m \in EnrolMachines, NEW t \in EnrolTokens, Enrol!Enroll(m, t)
      PROVE  Enrol!At(s, "create") /\ enrol_call'[s] = enrol_call[s]
  BY <1>1, <1>4 DEF Enrol!Enroll, Enrol!Callers
<1>5. ASSUME NEW r \in Enrol!Callers, NEW k \in EnrolConnectors, Enrol!CreateConnector(r, k)
      PROVE  Enrol!At(s, "create") /\ enrol_call'[s] = enrol_call[s]
  BY <1>1, <1>5 DEF Enrol!CreateConnector
<1>6. ASSUME NEW r \in Enrol!Binders, Enrol!shouldBindSelfhostWorker(r)
      PROVE  Enrol!At(s, "create") /\ enrol_call'[s] = enrol_call[s]
  <2>1. \/ Enrol!Done(r) \/ Enrol!Step(r, [at |-> "mint", project |-> enrol_call[r].project])
        \/ Enrol!Step(r, [at |-> "update", project |-> enrol_call[r].project,
                          connector |-> enrol_config])
    BY <1>6 DEF Enrol!shouldBindSelfhostWorker
  <2> QED
    BY <1>1, <1>3, <2>1 DEF Enrol!Callers
<1>7. ASSUME NEW r \in Enrol!Binders,
             \/ Enrol!EnrollTo(r) \/ Enrol!UpdateProject(r)
             \/ \E t \in EnrolTokens : Enrol!mintGatewayEnrollToken(r, t)
      PROVE  Enrol!At(s, "create") /\ enrol_call'[s] = enrol_call[s]
  BY <1>1, <1>3, <1>7
  DEF Enrol!EnrollTo, Enrol!UpdateProject, Enrol!mintGatewayEnrollToken, Enrol!Callers
<1>8. ASSUME NEW p \in EnrolProjects, NEW r \in EnrolRequests, NEW o \in EnrolOrgs,
             Enrol!handleCreateProject(r, p, o)
      PROVE  Enrol!At(s, "create") /\ enrol_call'[s] = enrol_call[s]
  BY <1>0, <1>1, <1>8 DEF Enrol!handleCreateProject
<1>9. CASE Enrol!recoverSelfhostWorker
  BY <1>0, <1>1, <1>2, <1>9 DEF Enrol!recoverSelfhostWorker
<1>10. CASE Enrol!Restart
  <2>1. enrol_call'[s] = Enrol!Idle \/ enrol_call'[s] = enrol_call[s]
    BY <1>10 DEF Enrol!Restart
  <2> QED
    BY <2>1 DEF Enrol!At, Enrol!Idle
<1> QED
  BY <1>2, <1>3, <1>4, <1>5, <1>6, <1>7, <1>8, <1>9, <1>10
     DEF Enrol!Next, Enrol!handleCreateEnrollToken, Enrol!Keep, Enrol!Fault, Enrol!Expire,
         Enrol!PurgeEnrollTokens, Enrol!DeleteProject,
         Enrol!runSelfhostGatewayAgent, Enrol!Callers

LEMMA OneBurns ==
  ASSUME Enrol!NotRows, EnrolInv, Enrol!Next
  PROVE  BurntOnce'
<1>0. /\ CallsOK /\ Enrol!TypeOK /\ BurntOnce /\ EnrolmentsOK /\ RowsKept
      /\ enrol_call \in [Enrol!Callers -> Stages]
  BY StepKeepsRows DEF EnrolInv, CallsOK
<1> SUFFICES ASSUME NEW s \in Enrol!Callers, Enrol!At(s, "create")'
             PROVE  /\ Burnt(enrol_call[s].token, enrol_call[s].project)'
                    /\ \A e \in enrol_enrolments' : e[1] # enrol_call'[s].token
                    /\ \A u \in Enrol!Callers \ {s} : Enrol!At(u, "create")' =>
                         enrol_call'[u].token # enrol_call'[s].token
  BY DEF BurntOnce
<1>1. ASSUME NEW r \in Enrol!Callers, Enrol!ConsumeEnrollToken(r)
      PROVE  /\ Burnt(enrol_call[s].token, enrol_call[s].project)'
             /\ \A e \in enrol_enrolments' : e[1] # enrol_call'[s].token
             /\ \A u \in Enrol!Callers \ {s} : Enrol!At(u, "create")' =>
                  enrol_call'[u].token # enrol_call'[s].token
  <2> DEFINE t == enrol_call[r].token
             next == [at |-> "create", token |-> t, project |-> enrol_tokens[t].project]
  <2>1. CASE Enrol!Consumable(t)
    <3>1. t \in EnrolTokens /\ enrol_tokens[t] # None /\ Enrol!At(r, "consume")
      BY <1>0, <1>1, StageOf DEF Enrol!ConsumeEnrollToken, Consuming, CallsOK
    <3>2. enrol_tokens[t] \in Enrol!TokenRow /\ ~enrol_tokens[t].used
      BY <1>0, <2>1, <3>1 DEF Enrol!Consumable, Enrol!TypeOK, Enrol!TokenRow
    <3>3. \A p \in EnrolProjects : ~Burnt(t, p)
      BY <3>2 DEF Burnt, Enrol!NotRows
    <3>4. \A u \in Enrol!Callers : Enrol!At(u, "create") => enrol_call[u].token # t
      BY <1>0, <3>3, StageOf DEF BurntOnce, CreatingStage
    <3>5. \A e \in enrol_enrolments : e[1] # t
      BY <1>0, <3>3 DEF EnrolmentsOK
    <3>6. /\ enrol_call' = [enrol_call EXCEPT ![r] = next] /\ enrol_enrolments' = enrol_enrolments
          /\ enrol_tokens' = [enrol_tokens EXCEPT ![t].used = TRUE]
      BY <1>1, <2>1 DEF Enrol!ConsumeEnrollToken, Enrol!Step
    <3>7. /\ enrol_tokens'[t] \in Enrol!TokenRow /\ enrol_tokens'[t].used
          /\ enrol_tokens'[t].project = enrol_tokens[t].project
      BY <1>0, <3>1, <3>2, <3>6 DEF Enrol!TypeOK, Enrol!TokenRow
    <3>8. next.at = "create" /\ next.token = t /\ next.project = enrol_tokens[t].project
      OBVIOUS
    <3> HIDE DEF next, t
    <3>9. \A u \in Enrol!Callers \ {r} : enrol_call'[u] = enrol_call[u]
      BY <1>0, <3>6
    <3>10. enrol_call'[r] = next
      BY <1>0, <3>6
    <3>11. CASE s = r
      BY <3>4, <3>5, <3>6, <3>7, <3>8, <3>9, <3>10, <3>11 DEF Burnt, Enrol!At
    <3>12. CASE s # r
      <4>1. Enrol!At(s, "create") /\ enrol_call'[s] = enrol_call[s]
        BY <3>9, <3>12 DEF Enrol!At
      <4>2. enrol_call[s].token \in EnrolTokens /\ enrol_call[s].project \in EnrolProjects
        BY <1>0, <4>1, StageOf DEF CreatingStage
      <4>3. Burnt(enrol_call[s].token, enrol_call[s].project)'
        BY <1>0, <4>1, <4>2 DEF BurntOnce, RowsKept, Burnt
      <4> QED
        BY <1>0, <3>4, <3>6, <3>8, <3>9, <3>10, <4>1, <4>3 DEF BurntOnce, Enrol!At
    <3> QED
      BY <3>11, <3>12
  <2>2. CASE ~Enrol!Consumable(t)
    <3>1. Enrol!Done(r) /\ UNCHANGED <<enrol_tokens, enrol_enrolments>>
      BY <1>1, <2>2 DEF Enrol!ConsumeEnrollToken
    <3>2. \A u \in Enrol!Callers : Enrol!At(u, "create")' =>
            Enrol!At(u, "create") /\ enrol_call'[u] = enrol_call[u]
      BY <1>0, <3>1 DEF Enrol!Done, Enrol!Step, Enrol!At, Enrol!Idle
    <3> QED
      BY <1>0, <3>1, <3>2 DEF BurntOnce, Burnt
  <2> QED
    BY <2>1, <2>2
<1>2. CASE ~(\E r \in Enrol!Callers : Enrol!ConsumeEnrollToken(r))
  <2>1. \A u \in Enrol!Callers : Enrol!At(u, "create")' =>
          Enrol!At(u, "create") /\ enrol_call'[u] = enrol_call[u]
    BY <1>2, CreatorsStay
  <2>2. enrol_call[s].token \in EnrolTokens /\ enrol_call[s].project \in EnrolProjects
    BY <1>0, <2>1, StageOf DEF CreatingStage
  <2>3. Burnt(enrol_call[s].token, enrol_call[s].project)'
    BY <1>0, <2>1, <2>2 DEF BurntOnce, RowsKept, Burnt
  <2>4. ASSUME NEW e \in enrol_enrolments' PROVE e[1] # enrol_call'[s].token
    <3>1. CASE e \in enrol_enrolments
      BY <1>0, <2>1, <3>1 DEF BurntOnce
    <3>2. ASSUME NEW r \in Enrol!Callers, NEW k \in EnrolConnectors, Enrol!CreateConnector(r, k),
                 e \notin enrol_enrolments
          PROVE  e[1] # enrol_call'[s].token
      <4>1. e = <<enrol_call[r].token, enrol_call[r].project, k>> /\ Enrol!At(r, "create")
        BY <3>2 DEF Enrol!CreateConnector
      <4>2. ~Enrol!At(r, "create")'
        BY <1>0, <3>2 DEF Enrol!CreateConnector, Enrol!Step, Enrol!At
      <4>3. s # r
        BY <4>2
      <4> QED
        BY <1>0, <2>1, <4>1, <4>3 DEF BurntOnce
    <3> QED
      BY <1>2, <3>1, <3>2
         DEF Enrol!Next, Enrol!handleCreateEnrollToken, Enrol!Keep, Enrol!Enroll, Enrol!Fault,
             Enrol!shouldBindSelfhostWorker, Enrol!EnrollTo, Enrol!UpdateProject,
             Enrol!mintGatewayEnrollToken, Enrol!Expire,
             Enrol!PurgeEnrollTokens, Enrol!handleCreateProject, Enrol!DeleteProject,
             Enrol!recoverSelfhostWorker,
             Enrol!runSelfhostGatewayAgent, Enrol!Restart
  <2> QED
    BY <1>0, <2>1, <2>3, <2>4 DEF BurntOnce
<1> QED
  BY <1>1, <1>2

(* A connector that is created is the first of its token.                   *)
LEMMA OneConnectorEach ==
  ASSUME Enrol!NotRows, EnrolInv, Enrol!Next
  PROVE  EnrolmentsOK'
<1>0. CallsOK /\ Enrol!TypeOK /\ BurntOnce /\ EnrolmentsOK /\ RowsKept
  BY StepKeepsRows DEF EnrolInv
<1>1. \A e \in enrol_enrolments :
          e[1] \in EnrolTokens /\ e[2] \in EnrolProjects /\ e[3] \in EnrolConnectors
  BY <1>0 DEF EnrolmentsOK
<1>2. \A e \in enrol_enrolments : e[3] \in Enrolled
  BY <1>0, <1>1 DEF EnrolmentsOK, Enrolled, Enrol!NotRows
<1>3. ASSUME NEW e \in enrol_enrolments
      PROVE  /\ enrol_connectors'[e[3]] \in Enrol!ConnectorRow
             /\ enrol_connectors'[e[3]].project = e[2]
             /\ Burnt(e[1], e[2])'
  BY <1>0, <1>1, <1>2 DEF EnrolmentsOK, RowsKept, Burnt
<1>4. CASE UNCHANGED enrol_enrolments
  BY <1>0, <1>3, <1>4 DEF EnrolmentsOK, Burnt
<1>5. ASSUME NEW r \in Enrol!Callers, NEW k \in EnrolConnectors, Enrol!CreateConnector(r, k)
      PROVE  EnrolmentsOK'
  <2>0. enrol_call[r].token \in EnrolTokens /\ enrol_call[r].project \in EnrolProjects
    BY <1>0, <1>5, StageOf DEF Enrol!CreateConnector, CreatingStage
  <2> PICK t \in EnrolTokens,
  p \in EnrolProjects : t = enrol_call[r].token /\ p = enrol_call[r].project
    BY <2>0
  <2> DEFINE new == <<t, p, k>>
  <2>1. Enrol!At(r, "create")
    BY <1>5 DEF Enrol!CreateConnector
  <2>2. Burnt(t, p) /\ \A e \in enrol_enrolments : e[1] # t
    BY <1>0, <2>1 DEF BurntOnce
  <2>3. /\ enrol_connectors' = [enrol_connectors EXCEPT ![k] = [project |-> p]]
        /\ enrol_enrolments' = enrol_enrolments \cup {new}
    BY <1>5 DEF Enrol!CreateConnector
  <2>4. enrol_connectors'[k] = [project |-> p] /\ [project |-> p] \in Enrol!ConnectorRow
    BY <1>0, <2>1, <2>3 DEF Enrol!TypeOK, Enrol!ConnectorRow
  <2>5. Burnt(t, p)'
    BY <1>0, <2>1, <2>2 DEF RowsKept, Burnt
  <2>6. /\ new \in EnrolTokens \X EnrolProjects \X EnrolConnectors /\ new[1] = t /\ new[2] = p
        /\ new[3] = k
    BY <2>1
  <2> HIDE DEF new
  <2>7. /\ enrol_connectors'[new[3]] \in Enrol!ConnectorRow
        /\ enrol_connectors'[new[3]].project = new[2]
        /\ Burnt(new[1], new[2])'
    BY <2>4, <2>5, <2>6 DEF Burnt
  <2>8. enrol_enrolments' \subseteq EnrolTokens \X EnrolProjects \X EnrolConnectors
    BY <1>0, <2>3, <2>6 DEF EnrolmentsOK
  <2>9. \A e, f \in enrol_enrolments' : e[1] = f[1] => e = f
    BY <1>0, <2>2, <2>3, <2>6 DEF EnrolmentsOK
  <2>10. \A e \in enrol_enrolments' :
           /\ enrol_connectors'[e[3]] \in Enrol!ConnectorRow
           /\ enrol_connectors'[e[3]].project = e[2] /\ Burnt(e[1], e[2])'
    BY <1>3, <2>3, <2>7
  <2> QED
    BY <2>8, <2>9, <2>10 DEF EnrolmentsOK, Burnt
<1> QED
  BY <1>4, <1>5
     DEF Enrol!Next, Enrol!handleCreateEnrollToken, Enrol!Keep, Enrol!Enroll,
         Enrol!ConsumeEnrollToken, Enrol!Fault,
         Enrol!shouldBindSelfhostWorker, Enrol!EnrollTo, Enrol!UpdateProject,
         Enrol!mintGatewayEnrollToken, Enrol!Expire,
         Enrol!PurgeEnrollTokens, Enrol!handleCreateProject, Enrol!DeleteProject,
         Enrol!recoverSelfhostWorker,
         Enrol!runSelfhostGatewayAgent, Enrol!Restart

----------------------------------------------------------------------------
LEMMA EnrolInvariant ==
  ASSUME Enrol!NotRows, Enrol!Bounds
  PROVE  Enrol!Spec => []EnrolInv
<1>1. Enrol!Init => EnrolInv
  BY DEF Enrol!Init, EnrolInv, Enrol!TypeOK, CallsOK, BurntOnce, EnrolmentsOK, Stages, Enrol!Idle,
     Enrol!At, Enrol!Bounds
<1>2. EnrolInv /\ [Enrol!Next]_(Enrol!vars) => EnrolInv'
  <2> SUFFICES ASSUME EnrolInv, [Enrol!Next]_(Enrol!vars) PROVE EnrolInv'
    OBVIOUS
  <2>1. CASE Enrol!Next
    BY <2>1, TablesTyped, CallsTyped, OneBurns, OneConnectorEach DEF EnrolInv
  <2>2. CASE UNCHANGED Enrol!vars
    BY <2>2
    DEF Enrol!vars, EnrolInv, Enrol!TypeOK, CallsOK, BurntOnce, EnrolmentsOK, Enrol!At, Burnt,
        Enrolled
  <2> QED
    BY <2>1, <2>2
<1> QED
  BY <1>1, <1>2, PTL DEF Enrol!Spec

(* Projects, tokens and connectors keep their types, and the connector of a *)
(* config file, or the one the hub's agent runs as, was created by the      *)
(* gateway.                                                                 *)
THEOREM EnrolmentTyped == Enrol!Spec => []Enrol!TypeOK
<1> USE EnrolAssumption
<1>1. EnrolInv => Enrol!TypeOK
  BY DEF EnrolInv
<1> QED
  BY <1>1, EnrolInvariant, PTL

(* A token makes at most one connector, of the project it was minted for,   *)
(* whoever presents it and whatever fails between the burning of the token  *)
(* and the creation (handleEnroll, ConsumeEnrollToken).                     *)
THEOREM OneEnrolment == Enrol!Spec => []EnrolledOnce
<1> USE EnrolAssumption
<1>1. EnrolInv => EnrolledOnce
  BY DEF EnrolInv, EnrolmentsOK, EnrolledOnce, Enrol!EnrolledOnce, Burnt
<1> QED
  BY <1>1, EnrolInvariant, PTL

==============================================================================
