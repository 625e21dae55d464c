------------------------------ MODULE DocsProofs ------------------------------
(* The documentation script, for any list of projects and any number of runs   *)
(* over one tree: each may be interrupted anywhere.                            *)
EXTENDS DocsBuild, DocsPipeline, FiniteSetTheorems, TLAPS

(* Inside build_project, in the directory of the project.                      *)
InProject == pc \in {"clean", "sphinx", "hung", "error", "check", "leave"}

(* The projects with a verdict are those before the one the loop is at, and    *)
(* that one too once build_project is about to return.                         *)
Given(k) == k < i \/ (pc = "leave" /\ k = i)
Visited ==
    /\ InProject => i \in DOMAIN ALL_PROJECTS
    /\ pc # NoRun => i > 0
    /\ pc # NoRun => \A k \in DOMAIN ALL_PROJECTS :
                        report[ALL_PROJECTS[k]] # "none" <=> Given(k)

(* The counters and the list agree with the verdicts at every moment, also in  *)
(* a run that was cut short.                                                   *)
Counted ==
    /\ SUCCESS_COUNT = Cardinality(Reported("success"))
    /\ FAILURE_COUNT = Cardinality(Reported("failed"))
    /\ FAILURE_COUNT = Len(FAILED_PROJECTS)
    /\ exitCode # Running => pc = "exited"
    /\ exitCode = 0 => cwd = Root
    /\ pc = "exited" => i > Len(ALL_PROJECTS) \/ i = 1

(* Once _build has been removed, what it holds is of this run.                 *)
Fresh ==
    pc \in {"sphinx", "hung", "error", "check"} =>
        \/ project \in uncleaned
        \/ built[project].kind = "none"
        \/ built[project].run = run

(* A documented project has been skipped only by a shell that is outside of    *)
(* the root directory and enters no project any more.                          *)
Home ==
    InProject \/ cwd = Root =>
        \A p \in HasDocs \ DOXYGEN_PROJECTS : report[p] # "skipped"

BuildInv ==
    /\ TypeOK
    /\ Visited
    /\ Counted
    /\ Fresh
    /\ SuccessIsCurrent
    /\ Home

-----------------------------------------------------------------------------
(* The projects are finitely many, so verdicts can be counted.                 *)
LEMMA ProjectsFinite ==
  /\ IsFiniteSet(Projects)
  /\ Len(ALL_PROJECTS) \in Nat
  /\ DOMAIN ALL_PROJECTS = 1..Len(ALL_PROJECTS)
  /\ \A k \in DOMAIN ALL_PROJECTS : ALL_PROJECTS[k] \in Projects
<1>1. /\ Len(ALL_PROJECTS) \in Nat
      /\ DOMAIN ALL_PROJECTS = 1..Len(ALL_PROJECTS)
  BY OrderAssumption
<1>2. IsFiniteSet(1..Len(ALL_PROJECTS))
  BY <1>1, FS_Interval
<1>3. ALL_PROJECTS \in [1..Len(ALL_PROJECTS) -> Projects]
  BY <1>1, OrderAssumption
<1>4. ALL_PROJECTS \in Surjection(1..Len(ALL_PROJECTS), Projects)
  BY <1>1, <1>3 DEF Projects, Surjection
<1>5. IsFiniteSet(Projects)
  BY <1>2, <1>4, FS_Surjection
<1> QED
  BY <1>1, <1>5 DEF Projects

(* A verdict on a project that had none raises one count and leaves the other. *)
LEMMA OneMoreVerdict ==
  ASSUME TypeOK, NEW p \in Projects, NEW v \in Verdicts,
         report[p] = "none", Report(p, v)
  PROVE  /\ report' \in [Projects -> Verdicts \cup {"none"}]
         /\ report'[p] = v
         /\ \A q \in Projects : q # p => report'[q] = report[q]
         /\ Cardinality(Reported(v)') = Cardinality(Reported(v)) + 1
         /\ Cardinality(Reported(v)) \in Nat
         /\ \A u \in Verdicts : u # v => Reported(u)' = Reported(u)
<1>1. report \in [Projects -> Verdicts \cup {"none"}]
  BY DEF TypeOK
<1>2. /\ report' \in [Projects -> Verdicts \cup {"none"}]
      /\ report'[p] = v
      /\ \A q \in Projects : q # p => report'[q] = report[q]
  BY <1>1 DEF Report
<1>3. Reported(v)' = Reported(v) \cup {p} /\ p \notin Reported(v)
  BY <1>2 DEF Reported, Verdicts
<1>4. \A u \in Verdicts : u # v => Reported(u)' = Reported(u)
  BY <1>2 DEF Reported, Verdicts
<1>5. IsFiniteSet(Reported(v))
  BY ProjectsFinite, FS_Subset DEF Reported
<1>6. Cardinality(Reported(v) \cup {p}) = Cardinality(Reported(v)) + 1
  BY <1>3, <1>5, FS_AddElement
<1> QED
  BY <1>2, <1>3, <1>4, <1>5, <1>6, FS_CardinalityType

-----------------------------------------------------------------------------
(* BuildInv holds when nothing has run, and each action keeps it: one lemma    *)
(* for each, with a step for each conjunct.                                    *)
LEMMA InitInv ==
  ASSUME Init
  PROVE  BuildInv
<1> USE DEF Init
<1>1. Cardinality({}) = 0
  BY FS_EmptySet
<1>2. Reported("success") = {} /\ Reported("failed") = {}
  BY DEF Reported
<1>3. TypeOK
  BY BoundsAssumption, ProjectsFinite DEF TypeOK, NoRun, Root, Nothing, Kinds, Verdicts, Running
<1>4. Visited
  BY DEF Visited, InProject, NoRun
<1>5. Counted
  <2>1. Cardinality(Reported("success")) = 0 /\ Cardinality(Reported("failed")) = 0
    BY <1>1, <1>2
  <2>2. SUCCESS_COUNT = 0 /\ FAILURE_COUNT = 0 /\ Len(FAILED_PROJECTS) = 0
    OBVIOUS
  <2> QED
    BY <2>1, <2>2 DEF Counted, Running, NoRun
<1>6. Fresh /\ SuccessIsCurrent /\ Home
  BY SetsAssumption DEF Fresh, SuccessIsCurrent, Home, InProject, NoRun
<1> QED
  BY <1>3, <1>4, <1>5, <1>6 DEF BuildInv

LEMMA BeginInv ==
  ASSUME BuildInv, NEW place, NEW status, Begin(place, status),
         <<place, status>> \in {<<"project", Running>>, <<"exited", 1>>}
  PROVE  BuildInv'
<1> USE DEF Begin, BuildInv, tree
<1>1. Cardinality({}) = 0
  BY FS_EmptySet
<1>2. Reported("success")' = {} /\ Reported("failed")' = {}
  BY DEF Reported
<1>3. TypeOK'
  BY BoundsAssumption, ProjectsFinite DEF TypeOK, NoRun, Root, Verdicts, Running
<1>4. Visited'
  BY ProjectsFinite DEF Visited, InProject, NoRun, Given, Projects
<1>5. Counted'
  <2>1. Cardinality(Reported("success")') = 0 /\ Cardinality(Reported("failed")') = 0
    BY <1>1, <1>2
  <2>2. SUCCESS_COUNT' = 0 /\ FAILURE_COUNT' = 0 /\ Len(FAILED_PROJECTS') = 0
    OBVIOUS
  <2> QED
    BY <2>1, <2>2 DEF Counted, Running
<1>6. Fresh' /\ SuccessIsCurrent' /\ Home'
  BY SetsAssumption DEF Fresh, SuccessIsCurrent, Home, InProject, NoRun
<1> QED
  BY <1>3, <1>4, <1>5, <1>6

LEMMA InterruptInv ==
  ASSUME BuildInv, Interrupt
  PROVE  BuildInv'
<1> USE DEF Interrupt, BuildInv, tree, builds, counters
<1>1. TypeOK'
  BY DEF TypeOK
<1>2. Visited'
  BY DEF Visited, InProject, NoRun
<1>3. Counted'
  BY DEF Counted, Running, NoRun, Reported
<1>4. Fresh' /\ SuccessIsCurrent' /\ Home'
  BY DEF Fresh, SuccessIsCurrent, Home, InProject, NoRun
<1> QED
  BY <1>1, <1>2, <1>3, <1>4

-----------------------------------------------------------------------------
(* The project the loop is at has no verdict yet, and gets one.                *)
LEMMA VerdictHere ==
  ASSUME BuildInv, i \in DOMAIN ALL_PROJECTS, pc \notin {NoRun, "leave"},
         NEW v \in Verdicts, Report(project, v)
  PROVE  /\ project \in Projects
         /\ report' \in [Projects -> Verdicts \cup {"none"}]
         /\ report'[project] = v
         /\ \A q \in Projects : q # project => report'[q] = report[q]
         /\ Cardinality(Reported(v)') = Cardinality(Reported(v)) + 1
         /\ Cardinality(Reported(v)) \in Nat
         /\ \A u \in Verdicts : u # v => Reported(u)' = Reported(u)
         /\ \A k \in DOMAIN ALL_PROJECTS : report'[ALL_PROJECTS[k]] # "none" <=> k <= i
<1>1. project \in Projects
  BY ProjectsFinite DEF project
<1>2. report[project] = "none"
  BY ProjectsFinite, <1>1 DEF BuildInv, Visited, Given, project
<1>3. /\ report' \in [Projects -> Verdicts \cup {"none"}]
      /\ report'[project] = v
      /\ \A q \in Projects : q # project => report'[q] = report[q]
      /\ Cardinality(Reported(v)') = Cardinality(Reported(v)) + 1
      /\ Cardinality(Reported(v)) \in Nat
      /\ \A u \in Verdicts : u # v => Reported(u)' = Reported(u)
  <2>1. PICK p \in Projects : p = project
    BY <1>1
  <2> QED
    BY <1>2, <2>1, OneMoreVerdict DEF BuildInv
<1>4. ASSUME NEW k \in DOMAIN ALL_PROJECTS
      PROVE  report'[ALL_PROJECTS[k]] # "none" <=> k <= i
  <2>1. CASE k = i
    BY <1>3, <2>1, ProjectsFinite DEF project, Verdicts
  <2>2. CASE k # i
    <3>1. ALL_PROJECTS[k] # project /\ ALL_PROJECTS[k] \in Projects
      BY <2>2, OrderAssumption, ProjectsFinite DEF project
    <3>2. report[ALL_PROJECTS[k]] # "none" <=> k < i
      BY DEF BuildInv, Visited, Given
    <3> QED
      BY <1>3, <2>2, <3>1, <3>2, ProjectsFinite
  <2> QED
    BY <2>1, <2>2
<1> QED
  BY <1>1, <1>3, <1>4

(* A failure is counted and listed, and leaves the rest of the verdicts alone. *)
LEMMA FailCounts ==
  ASSUME BuildInv, i \in DOMAIN ALL_PROJECTS, pc \notin {NoRun, "leave", "exited"},
         NEW next, next # "exited", Fail(next)
  PROVE  /\ pc' = next /\ exitCode' = Running /\ exitCode = Running
         /\ SUCCESS_COUNT' \in Nat /\ FAILURE_COUNT' \in Nat
         /\ FAILED_PROJECTS' \in Seq(Projects)
         /\ SUCCESS_COUNT' = Cardinality(Reported("success"))'
         /\ FAILURE_COUNT' = Cardinality(Reported("failed"))'
         /\ FAILURE_COUNT' = Len(FAILED_PROJECTS')
         /\ report' \in [Projects -> Verdicts \cup {"none"}]
         /\ \A p \in Projects : report'[p] \in {report[p], "failed"}
         /\ \A k \in DOMAIN ALL_PROJECTS : report'[ALL_PROJECTS[k]] # "none" <=> k <= i
<1>1. "failed" \in Verdicts /\ "success" \in Verdicts /\ Report(project, "failed")
  BY DEF Verdicts, Fail
<1>2. /\ project \in Projects
      /\ report' \in [Projects -> Verdicts \cup {"none"}]
      /\ report'[project] = "failed"
      /\ \A q \in Projects : q # project => report'[q] = report[q]
      /\ Cardinality(Reported("failed")') = Cardinality(Reported("failed")) + 1
      /\ Reported("success")' = Reported("success")
      /\ \A k \in DOMAIN ALL_PROJECTS : report'[ALL_PROJECTS[k]] # "none" <=> k <= i
  BY <1>1, VerdictHere
<1>3. exitCode = Running
  BY DEF BuildInv, Counted
<1>4. pc' = next /\ exitCode' = Running
  BY <1>3 DEF Fail, AfterCounting, ErrexitInBuildProject
<1>5. /\ FAILED_PROJECTS' \in Seq(Projects)
      /\ Len(FAILED_PROJECTS') = Len(FAILED_PROJECTS) + 1
  BY <1>2 DEF Fail, BuildInv, TypeOK
<1>6. /\ SUCCESS_COUNT' = SUCCESS_COUNT /\ FAILURE_COUNT' = FAILURE_COUNT + 1
      /\ SUCCESS_COUNT \in Nat /\ FAILURE_COUNT \in Nat
  BY DEF Fail, BuildInv, TypeOK
<1> QED
  BY <1>2, <1>3, <1>4, <1>5, <1>6 DEF BuildInv, Counted

-----------------------------------------------------------------------------
(* The actions of the loop and of build_project, in the order they are taken.  *)
LEMMA SkipInv ==
  ASSUME BuildInv, Skip
  PROVE  BuildInv'
<1> USE DEF Skip, BuildInv, tree, builds
<1>1. /\ i \in DOMAIN ALL_PROJECTS /\ pc \notin {NoRun, "leave"}
      /\ "skipped" \in Verdicts /\ "success" \in Verdicts /\ "failed" \in Verdicts
      /\ Report(project, "skipped")
  BY ProjectsFinite DEF Visited, TypeOK, NoRun, Verdicts
<1>2. /\ project \in Projects
      /\ report' \in [Projects -> Verdicts \cup {"none"}]
      /\ report'[project] = "skipped"
      /\ \A q \in Projects : q # project => report'[q] = report[q]
      /\ Reported("failed")' = Reported("failed")
      /\ Reported("success")' = Reported("success")
      /\ \A k \in DOMAIN ALL_PROJECTS : report'[ALL_PROJECTS[k]] # "none" <=> k <= i
  BY <1>1, VerdictHere
<1>3. TypeOK'
  BY <1>1, <1>2, ProjectsFinite DEF TypeOK
<1>4. Visited'
  BY <1>1, <1>2, ProjectsFinite DEF Visited, InProject, Given
<1>5. Counted'
  BY <1>2 DEF Counted, Running
<1>6. Fresh' /\ SuccessIsCurrent'
  BY <1>2 DEF Fresh, SuccessIsCurrent
<1>7. Home'
  BY <1>2, SetsAssumption DEF Home, InProject, DocsVisible
<1> QED
  BY <1>3, <1>4, <1>5, <1>6, <1>7

LEMMA EnterFailsInv ==
  ASSUME BuildInv, EnterFails
  PROVE  BuildInv'
<1> USE DEF EnterFails, Building, BuildInv, tree, builds
<1>1. i \in DOMAIN ALL_PROJECTS /\ pc \notin {NoRun, "leave", "exited"} /\ Fail("project")
  BY ProjectsFinite DEF Visited, TypeOK, NoRun
<1>2. /\ pc' = "project" /\ exitCode' = Running /\ exitCode = Running
      /\ SUCCESS_COUNT' \in Nat /\ FAILURE_COUNT' \in Nat
      /\ FAILED_PROJECTS' \in Seq(Projects)
      /\ SUCCESS_COUNT' = Cardinality(Reported("success"))'
      /\ FAILURE_COUNT' = Cardinality(Reported("failed"))'
      /\ FAILURE_COUNT' = Len(FAILED_PROJECTS')
      /\ report' \in [Projects -> Verdicts \cup {"none"}]
      /\ \A p \in Projects : report'[p] \in {report[p], "failed"}
      /\ \A k \in DOMAIN ALL_PROJECTS : report'[ALL_PROJECTS[k]] # "none" <=> k <= i
  BY <1>1, FailCounts
<1>3. TypeOK'
  BY <1>1, <1>2, ProjectsFinite DEF TypeOK
<1>4. Visited'
  BY <1>1, <1>2, ProjectsFinite DEF Visited, InProject, Given
<1>5. Counted'
  BY <1>2 DEF Counted, Running
<1>6. Fresh' /\ SuccessIsCurrent' /\ Home'
  BY <1>2, SetsAssumption DEF Fresh, SuccessIsCurrent, Home, InProject
<1> QED
  BY <1>3, <1>4, <1>5, <1>6

LEMMA EnterInv ==
  ASSUME BuildInv, Enter
  PROVE  BuildInv'
<1> USE DEF Enter, Building, BuildInv, tree, builds, counters
<1>1. i \in DOMAIN ALL_PROJECTS
  BY ProjectsFinite DEF Visited, TypeOK, NoRun
<1>2. TypeOK'
  <2>1. project \in Projects
    BY <1>1, ProjectsFinite DEF project
  <2> QED
    BY <2>1 DEF TypeOK
<1>3. Visited'
  BY <1>1 DEF Visited, InProject, Given, NoRun
<1>4. Counted'
  BY DEF Counted, Running, Reported
<1>5. Fresh' /\ SuccessIsCurrent' /\ Home'
  BY DEF Fresh, SuccessIsCurrent, Home, InProject, DocsVisible
<1> QED
  BY <1>2, <1>3, <1>4, <1>5

LEMMA CleanInv ==
  ASSUME BuildInv, Clean
  PROVE  BuildInv'
<1> USE DEF Clean, BuildInv, counters
<1>1. i \in DOMAIN ALL_PROJECTS /\ project \in Projects /\ project' = project
  BY ProjectsFinite DEF Visited, InProject, project
<1>2. TypeOK'
  <2>1. Nothing \in [run : 0..MaxRuns, kind : Kinds]
    BY BoundsAssumption DEF Nothing, Kinds
  <2>2. built' \in [Projects -> [run : 0..MaxRuns, kind : Kinds]]
    BY <2>1 DEF TypeOK
  <2>3. uncleaned' \in SUBSET Projects
    BY <1>1 DEF TypeOK
  <2> QED
    BY <2>2, <2>3 DEF TypeOK
<1>3. Visited'
  BY <1>1 DEF Visited, InProject, Given, NoRun
<1>4. Counted'
  BY DEF Counted, Running, Reported
<1>5. Fresh'
  BY <1>1 DEF Fresh, Nothing, TypeOK
<1>6. SuccessIsCurrent' /\ Home'
  BY DEF SuccessIsCurrent, Home, InProject
<1> QED
  BY <1>2, <1>3, <1>4, <1>5, <1>6

LEMMA RunSphinxInv ==
  ASSUME BuildInv, RunSphinx
  PROVE  BuildInv'
<1> USE DEF RunSphinx, BuildInv, counters
<1>1. i \in DOMAIN ALL_PROJECTS /\ project \in Projects /\ project' = project
  BY ProjectsFinite DEF Visited, InProject, project
<1>2. PICK result \in Results, kind \in Kinds :
         /\ built' = [built EXCEPT ![project] = Overlay(@, kind)]
         /\ sphinx' = [sphinx EXCEPT ![project] = result]
  BY DEF Leaves, Kinds
<1>3. pc' \in {"hung", "check", "error"}
  OBVIOUS
<1>4. /\ Overlay(built[project], kind) \in [run : 0..MaxRuns, kind : Kinds]
      /\ Overlay(built[project], kind).kind = "none"
         \/ Overlay(built[project], kind).run = run
         \/ Overlay(built[project], kind) = built[project]
  BY <1>1 DEF Overlay, TypeOK
<1>5. TypeOK'
  BY <1>1, <1>2, <1>3, <1>4 DEF TypeOK
<1>6. Visited'
  BY <1>1, <1>3 DEF Visited, InProject, Given, NoRun
<1>7. Counted'
  BY <1>3 DEF Counted, Running, Reported
<1>8. Fresh'
  BY <1>1, <1>2, <1>4 DEF Fresh, TypeOK
<1>9. SuccessIsCurrent' /\ Home'
  BY DEF SuccessIsCurrent, Home, InProject
<1> QED
  BY <1>5, <1>6, <1>7, <1>8, <1>9

LEMMA TimeoutInv ==
  ASSUME BuildInv, Timeout
  PROVE  BuildInv'
<1> USE DEF Timeout, BuildInv, tree, builds, counters
<1>1. TypeOK'
  BY DEF TypeOK
<1>2. Visited'
  BY DEF Visited, InProject, Given, NoRun
<1>3. Counted'
  BY DEF Counted, Running, Reported
<1>4. Fresh' /\ SuccessIsCurrent' /\ Home'
  BY DEF Fresh, SuccessIsCurrent, Home, InProject, project
<1> QED
  BY <1>1, <1>2, <1>3, <1>4

(* The three ways a build that was entered fails.                              *)
LEMMA FailedInv ==
  ASSUME BuildInv, BuildFailed \/ NoOutput \/ CopyFails
  PROVE  BuildInv'
<1> USE DEF BuildFailed, NoOutput, CopyFails, BuildInv, tree, builds
<1>1. /\ i \in DOMAIN ALL_PROJECTS /\ pc \notin {NoRun, "leave", "exited"} /\ Fail("leave")
      /\ project \in Projects
      /\ UNCHANGED <<i, run, cwd, built, index, uncleaned, sphinx>>
  BY ProjectsFinite DEF Visited, InProject, NoRun, project
<1>2. /\ pc' = "leave" /\ exitCode' = Running /\ exitCode = Running
      /\ SUCCESS_COUNT' \in Nat /\ FAILURE_COUNT' \in Nat
      /\ FAILED_PROJECTS' \in Seq(Projects)
      /\ SUCCESS_COUNT' = Cardinality(Reported("success"))'
      /\ FAILURE_COUNT' = Cardinality(Reported("failed"))'
      /\ FAILURE_COUNT' = Len(FAILED_PROJECTS')
      /\ report' \in [Projects -> Verdicts \cup {"none"}]
      /\ \A p \in Projects : report'[p] \in {report[p], "failed"}
      /\ \A k \in DOMAIN ALL_PROJECTS : report'[ALL_PROJECTS[k]] # "none" <=> k <= i
  BY <1>1, FailCounts
<1>3. /\ site' \in [Projects -> SUBSET (0..MaxRuns)]
      /\ \A p \in Projects : site[p] \subseteq site'[p]
  <2>1. built[project].run \in 0..MaxRuns
    BY <1>1 DEF TypeOK
  <2>2. \/ site' = site
        \/ site' = [site EXCEPT ![project] = @ \cup {built[project].run}]
    OBVIOUS
  <2>3. site \in [Projects -> SUBSET (0..MaxRuns)]
    BY DEF TypeOK
  <2>4. CASE site' = site
    BY <2>3, <2>4
  <2>5. CASE site' = [site EXCEPT ![project] = @ \cup {built[project].run}]
    BY <1>1, <2>1, <2>3, <2>5
  <2> QED
    BY <2>2, <2>4, <2>5
<1>4. TypeOK'
  BY <1>1, <1>2, <1>3 DEF TypeOK
<1>5. Visited'
  BY <1>1, <1>2, ProjectsFinite DEF Visited, InProject, Given
<1>6. Counted'
  BY <1>2 DEF Counted, Running
<1>7. Fresh' /\ SuccessIsCurrent' /\ Home'
  BY <1>1, <1>2, <1>3, SetsAssumption DEF Fresh, SuccessIsCurrent, Home, InProject
<1> QED
  BY <1>4, <1>5, <1>6, <1>7

LEMMA CopyOutInv ==
  ASSUME BuildInv, CopyOut
  PROVE  BuildInv'
<1> USE DEF CopyOut, BuildInv, builds
<1>1. /\ i \in DOMAIN ALL_PROJECTS /\ pc \notin {NoRun, "leave", "exited"}
      /\ "success" \in Verdicts /\ "failed" \in Verdicts /\ Report(project, "success")
  BY ProjectsFinite DEF Visited, InProject, NoRun, Verdicts
<1>2. /\ project \in Projects
      /\ report' \in [Projects -> Verdicts \cup {"none"}]
      /\ report'[project] = "success"
      /\ \A q \in Projects : q # project => report'[q] = report[q]
      /\ Cardinality(Reported("success")') = Cardinality(Reported("success")) + 1
      /\ Reported("failed")' = Reported("failed")
      /\ \A k \in DOMAIN ALL_PROJECTS : report'[ALL_PROJECTS[k]] # "none" <=> k <= i
  BY <1>1, VerdictHere
<1>3. exitCode = Running
  BY <1>1 DEF Counted
<1>4. pc' = "leave" /\ exitCode' = Running
  BY <1>3 DEF AfterCounting, ErrexitInBuildProject
<1>5. /\ site' \in [Projects -> SUBSET (0..MaxRuns)]
      /\ \A p \in Projects : site[p] \subseteq site'[p]
      /\ built[project].run \in site'[project]
  BY <1>2 DEF TypeOK
<1>6. TypeOK'
  BY <1>2, <1>4, <1>5 DEF TypeOK
<1>7. Visited'
  BY <1>1, <1>2, <1>4, ProjectsFinite DEF Visited, InProject, Given
<1>8. Counted'
  BY <1>2, <1>4 DEF Counted, Running
<1>9. SuccessIsCurrent'
  <2>1. project \in uncleaned \/ built[project].run = run
    BY DEF Fresh
  <2> QED
    BY <1>2, <1>5, <2>1 DEF SuccessIsCurrent
<1>10. Fresh' /\ Home'
  BY <1>2, <1>4, SetsAssumption DEF Fresh, Home, InProject
<1> QED
  BY <1>6, <1>7, <1>8, <1>9, <1>10

LEMMA LeaveInv ==
  ASSUME BuildInv, Leave
  PROVE  BuildInv'
<1> USE DEF Leave, BuildInv, tree, builds, counters
<1>1. i \in DOMAIN ALL_PROJECTS
  BY DEF Visited, InProject
<1>2. TypeOK'
  BY <1>1, ProjectsFinite DEF TypeOK
<1>3. Visited'
  BY <1>1, ProjectsFinite DEF Visited, InProject, Given, NoRun
<1>4. Counted'
  BY DEF Counted, Running, Reported
<1>5. Fresh' /\ SuccessIsCurrent' /\ Home'
  BY DEF Fresh, SuccessIsCurrent, Home, InProject
<1> QED
  BY <1>2, <1>3, <1>4, <1>5

LEMMA PublishInv ==
  ASSUME BuildInv, Publish
  PROVE  BuildInv'
<1> USE DEF Publish, BuildInv, builds, counters
<1>1. TypeOK'
  BY DEF TypeOK
<1>2. Visited'
  BY DEF Visited, InProject, Given, NoRun
<1>3. Counted'
  BY DEF Counted, Running, Reported
<1>4. Fresh' /\ SuccessIsCurrent' /\ Home'
  BY DEF Fresh, SuccessIsCurrent, Home, InProject
<1> QED
  BY <1>1, <1>2, <1>3, <1>4

LEMMA StutterInv ==
  ASSUME BuildInv, UNCHANGED vars
  PROVE  BuildInv'
<1> USE DEF vars, tree, builds, counters, BuildInv
<1>1. TypeOK'
  BY DEF TypeOK
<1>2. Visited'
  BY DEF Visited, InProject, Given
<1>3. Counted'
  BY DEF Counted, Reported
<1>4. Fresh' /\ SuccessIsCurrent' /\ Home'
  BY DEF Fresh, SuccessIsCurrent, Home, InProject, project
<1> QED
  BY <1>1, <1>2, <1>3, <1>4

-----------------------------------------------------------------------------
(* Verdicts are given in the order of the loops, the counters agree with them  *)
(* and _build is of this run once it has been removed: in every state of every *)
(* run of the script, whatever earlier runs left behind.                       *)
THEOREM BuildInvariant == Spec => []BuildInv
<1>1. Init => BuildInv
  BY InitInv
<1>2. BuildInv /\ [Next]_vars => BuildInv'
  <2> SUFFICES ASSUME BuildInv, [Next]_vars
               PROVE  BuildInv'
    OBVIOUS
  <2>1. CASE StartRun \/ MkdirFails \/ Interrupt
    BY <2>1, BeginInv, InterruptInv DEF StartRun, MkdirFails
  <2>2. CASE Step
    BY <2>2, SkipInv, EnterFailsInv, EnterInv, CleanInv, RunSphinxInv, TimeoutInv, FailedInv,
       CopyOutInv, LeaveInv, PublishInv DEF Step
  <2>3. CASE UNCHANGED vars
    BY <2>3, StutterInv
  <2> QED
    BY <2>1, <2>2, <2>3 DEF Next
<1> QED
  BY <1>1, <1>2, PTL DEF Spec

(* The summary agrees with the verdicts at every moment, and accounts for every *)
(* project when a run that could begin ends by itself.                          *)
THEOREM SummaryAlwaysAddsUp == Spec => []SummaryAddsUp
<1>1. BuildInv => SummaryAddsUp
  <2> SUFFICES ASSUME BuildInv, pc = "exited"
               PROVE  Reported("none") \in {{}, Projects}
    BY DEF BuildInv, Counted, SummaryAddsUp
  <2>1. \A k \in DOMAIN ALL_PROJECTS : report[ALL_PROJECTS[k]] # "none" <=> k < i
    BY DEF BuildInv, Visited, Given, NoRun
  <2>2. CASE i > Len(ALL_PROJECTS)
    <3>1. \A k \in DOMAIN ALL_PROJECTS : k < i
      BY <2>2, ProjectsFinite DEF BuildInv, TypeOK
    <3> QED
      BY <2>1, <3>1 DEF Reported, Projects
  <2>3. CASE i = 1
    <3>1. \A k \in DOMAIN ALL_PROJECTS : ~(k < i)
      BY <2>3, ProjectsFinite
    <3> QED
      BY <2>1, <3>1 DEF Reported, Projects
  <2> QED
    BY <2>2, <2>3 DEF BuildInv, Counted
<1> QED
  BY <1>1, BuildInvariant, PTL

(* Wherever a shell is stranded, a run that exits with status 0 has skipped no *)
(* documented project.                                                         *)
THEOREM DocumentedAlwaysTried == Spec => []DocumentedProjectsAreTried
<1>1. BuildInv => DocumentedProjectsAreTried
  BY DEF BuildInv, Counted, Home, DocumentedProjectsAreTried
<1> QED
  BY <1>1, BuildInvariant, PTL

(* A success means that the site holds pages written by this run, unless the   *)
(* removal of _build failed.                                                   *)
THEOREM SuccessAlwaysCurrent == Spec => []SuccessIsCurrent
  BY BuildInvariant, PTL DEF BuildInv

-----------------------------------------------------------------------------
(* What the concurrency group buys the site that the script's pages are        *)
(* deployed to, for any number of commits, runs and failures: the workflow of  *)
(* DocsPipeline.                                                               *)

(* The commits of a set of runs are numbers.                               *)
LEMMA CommitsAreNumbers ==
  ASSUME NEW runs \in SUBSET Run
  PROVE  CommitsOnMain(runs) \in SUBSET Nat
<1>1. \A r \in runs : r.commit \in Nat
  BY DEF Run
<1>2. QED
  BY <1>1 DEF CommitsOnMain

(* Creating a run keeps the invariant when the commit it is for is at      *)
(* least every commit known so far.                                        *)
LEMMA TriggerKeepsIInv ==
  ASSUME IInv, NEW ref \in Refs, NEW commit \in Nat, Trigger(ref, commit),
         commit = head', head' \in Nat, head <= head', live' = live, pulls' = pulls
  PROVE  IInv'
<1> DEFINE r == [id |-> started, ref |-> ref, commit |-> commit,
                 job |-> "build"]
<1>1. r \in Run /\ r.commit = commit /\ r.job = "build"
  BY DEF IInv, PipelineTypeOK, Run
<1>2. PipelineTypeOK'
  <2>1. failed' \in SUBSET Nat
    BY DEF Trigger, Start, IInv, PipelineTypeOK
  <2>2. running' \in SUBSET Run /\ pending' \in SUBSET Run
    BY <1>1 DEF IInv, PipelineTypeOK, Trigger, Start
  <2>3. QED
    BY <2>1, <2>2 DEF IInv, PipelineTypeOK, Trigger
<1>3. CASE GroupFree /\ pending = {}
  <2>1. running' = {r} /\ pending' = {}
    BY <1>3 DEF Trigger, Start, GroupFree
  <2>2. QED
    BY <1>1, <1>2, <2>1
       DEF IInv, PipelineTypeOK, OneAtATime, InOrder, DeploysMain
<1>4. CASE ~(GroupFree /\ pending = {})
  <2>1. running' = running /\ pending' = {r}
    BY <1>4 DEF Trigger
  <2>2. OneAtATime' /\ DeploysMain'
    BY <1>1, <2>1 DEF IInv, OneAtATime, DeploysMain
  <2>3. InOrder'
    <3>1. \A s \in running : s.commit \in Nat /\ live.commit <= s.commit
                             /\ s.commit <= head
      BY DEF IInv, PipelineTypeOK, InOrder, Run
    <3>2. live.commit \in Nat /\ live.commit <= head /\ head \in Nat
      BY DEF IInv, PipelineTypeOK, InOrder
    <3>3. QED
      BY <1>1, <2>1, <3>1, <3>2 DEF InOrder
  <2>4. QED
    BY <1>2, <2>2, <2>3 DEF IInv
<1>5. QED
  BY <1>3, <1>4

(* The invariant that serialisation maintains: one run at a time, taken in *)
(* the order of their commits, deploying main only.                        *)
THEOREM PipelineInvariant == PipelineSpec => []IInv
<1>1. PipelineInit => IInv
  BY DEF PipelineInit, IInv, PipelineTypeOK, OneAtATime, InOrder,
         DeploysMain, Refs
<1>2. IInv /\ [PipelineNext]_pipelineVars => IInv'
  <2> SUFFICES ASSUME IInv, [PipelineNext]_pipelineVars PROVE IInv'
    OBVIOUS
  <2> USE DEF IInv, PipelineTypeOK, OneAtATime, InOrder, DeploysMain
  <2>1. CASE Push
    BY <2>1, TriggerKeepsIInv DEF Push, Refs
  <2>2. CASE PullRequest
    BY <2>2, TriggerKeepsIInv DEF PullRequest, Refs
  <2>3. CASE Dispatch
    BY <2>3, TriggerKeepsIInv DEF Dispatch, Refs
  <2>4. ASSUME NEW r \in pending, StartPending(r) PROVE IInv'
    BY <2>4 DEF StartPending, Start, GroupFree
  <2>5. ASSUME NEW r \in running, BuildSucceeds(r) PROVE IInv'
    <3>1. running = {r} /\ r \in Run
      BY <2>5
    <3>2. CASE DeployAllowed(r)
      <4> DEFINE d == [r EXCEPT !.job = "deploy"]
      <4>1. d \in Run /\ d.commit = r.commit /\ d.ref = "main"
        BY <3>1, <3>2 DEF Run, DeployAllowed
      <4>2. running' = {d} /\ UNCHANGED <<head, started, pending, live, failed, pulls>>
        BY <2>5, <3>1, <3>2 DEF BuildSucceeds
      <4>3. QED
        BY <4>1, <4>2
    <3>3. CASE ~DeployAllowed(r)
      BY <2>5, <3>3 DEF BuildSucceeds, Finish
    <3>4. QED
      BY <3>2, <3>3
  <2>6. ASSUME NEW r \in running, JobFails(r) PROVE IInv'
    <3>1. failed' \in SUBSET Nat
      BY <2>6, CommitsAreNumbers DEF JobFails
    <3>2. QED
      BY <2>6, <3>1 DEF JobFails, Finish
  <2>7. ASSUME NEW r \in running, Deploy(r) PROVE IInv'
    <3>1. running = {r} /\ r \in Run /\ r.ref = "main"
      BY <2>7 DEF Deploy
    <3>2. live' = [ref |-> "main", commit |-> r.commit] /\ running' = {}
          /\ UNCHANGED <<head, started, pending, failed, pulls>>
      BY <2>7, <3>1 DEF Deploy, Finish
    <3>3. QED
      BY <3>1, <3>2 DEF Run, Refs
  <2>8. CASE UNCHANGED pipelineVars
    BY <2>8 DEF pipelineVars
  <2>9. QED
    BY <2>1, <2>2, <2>3, <2>4, <2>5, <2>6, <2>7, <2>8 DEF PipelineNext, Advance
<1>3. QED
  BY <1>1, <1>2, PTL DEF PipelineSpec

(* A pull request's pages are never what the site shows.                   *)
THEOREM OnlyMainIsLiveAlways == PipelineSpec => []OnlyMainIsLive
<1>1. IInv => OnlyMainIsLive
  BY DEF IInv, InOrder, DeploysMain, OnlyMainIsLive
<1>2. QED
  BY <1>1, PipelineInvariant, PTL

(* Deployments follow the order of main: the site never goes back.         *)
THEOREM LiveIsMonotonic == PipelineSpec => LiveNeverGoesBack
<1>1. IInv /\ [PipelineNext]_pipelineVars => [live'.commit >= live.commit]_pipelineVars
  <2> SUFFICES ASSUME IInv, PipelineNext PROVE live'.commit >= live.commit
    OBVIOUS
  <2>1. live.commit \in Nat /\ \A r \in running : r.commit \in Nat
    BY DEF IInv, PipelineTypeOK, Run
  <2>2. ASSUME NEW r \in running, Deploy(r)
        PROVE live'.commit >= live.commit
    <3>1. live'.commit = r.commit
      BY <2>2 DEF Deploy
    <3>2. live.commit <= r.commit
      BY DEF IInv, InOrder
    <3>3. QED
      BY <2>1, <3>1, <3>2
  <2>3. CASE UNCHANGED live
    BY <2>1, <2>3
  <2>4. QED
    BY <2>2, <2>3 DEF PipelineNext, Advance, Push, PullRequest, Dispatch,
                      StartPending, BuildSucceeds, JobFails
<1>2. QED
  BY <1>1, PipelineInvariant, PTL DEF PipelineSpec, LiveNeverGoesBack
=============================================================================
