----------------------------- MODULE DocsBuild -----------------------------
(***************************************************************************)
(* build-all-docs.sh: one shell process that builds the documentation of   *)
(* every project in turn and gathers the pages under SITE_DIR.  The tree   *)
(* it works in outlives the process: a run may be interrupted anywhere and *)
(* started again over what the previous runs left behind.                  *)
(*                                                                         *)
(* Pages are abstracted to the number of the run whose sphinx-build wrote  *)
(* them; run 0 is what the repository has committed under docs/_build.     *)
(***************************************************************************)
EXTENDS Naturals, Sequences, FiniteSets

CONSTANTS
  ALL_PROJECTS,       (* the projects in the order of the two for loops      *)
  STRICT_PROJECTS,    (* those built with -W --keep-going                    *)
  DOXYGEN_PROJECTS,   (* those skipped as Doxygen-only                       *)
  HasDocs,            (* those whose docs directory exists                   *)
  Committed,          (* those with pages committed under docs/_build/html   *)
  MaxRuns             (* bound on the runs of the script over one tree       *)

Projects == {ALL_PROJECTS[k] : k \in DOMAIN ALL_PROJECTS}
Root     == "root"

ASSUME OrderAssumption ==
  /\ ALL_PROJECTS \in Seq(Projects)
  /\ \A j, k \in DOMAIN ALL_PROJECTS :
        ALL_PROJECTS[j] = ALL_PROJECTS[k] => j = k
ASSUME SetsAssumption ==
  /\ STRICT_PROJECTS \subseteq Projects
  /\ HasDocs \subseteq Projects
  /\ Committed \subseteq HasDocs
  /\ Root \notin Projects
ASSUME BoundsAssumption == MaxRuns \in Nat \ {0}

VARIABLES
  pc,               (* where the script is                                   *)
  i,                (* index of the project the loops are at                 *)
  run,              (* number of the current run                             *)
  cwd,              (* the shell's directory: Root or a project's docs       *)
  built,            (* per project: what docs/_build/html holds              *)
  site,             (* per project: the runs whose pages SITE_DIR holds      *)
  index,            (* the run whose index.html and images SITE_DIR holds    *)
  uncleaned,        (* the projects whose rm -rf _build failed in this run   *)
  sphinx,           (* per project: how sphinx-build ended in this run       *)
  SUCCESS_COUNT, FAILURE_COUNT, FAILED_PROJECTS,
  report,           (* per project: the verdict line printed in this run     *)
  exitCode          (* the script's exit status, Running before it has one   *)

counters == <<SUCCESS_COUNT, FAILURE_COUNT, FAILED_PROJECTS, report>>
tree     == <<built, site, index>>
builds   == <<uncleaned, sphinx>>
vars     == <<pc, i, run, cwd, tree, builds, counters, exitCode>>

Running == 99
NoRun   == "idle"

Kinds    == {"none", "dotfiles", "html"}
Results  == {"clean", "warnings", "error", "hang"}
Verdicts == {"success", "failed", "skipped"}

Nothing == [run |-> 0, kind |-> "none"]
project == ALL_PROJECTS[i]

-----------------------------------------------------------------------------
(* How a project's sphinx-build can end: a clean build and one with        *)
(* warnings leave pages, a failed or hung one anything.                    *)
Leaves(result) ==
  IF result \in {"clean", "warnings"} THEN {"html"} ELSE Kinds

(* Exit status of sphinx-build: -W turns warnings into an error.           *)
SphinxSucceeds(p, result) ==
  \/ result = "clean"
  \/ result = "warnings" /\ p \notin STRICT_PROJECTS

(* Status of "sphinx-build 2>&1 | tee log": without pipefail it is tee's.  *)
PipelineSucceeds(p, result, teeOk) == teeOk

(* The if condition "[[ -d html ]] && [[ -n $(ls -A html) ]]".             *)
HasOutput(p) == built[p].kind # "none"

(* Mistaken ErrexitInBuildProject: set -e holds inside of it too.          *)
Errexit == TRUE

(* build_project is called as "build_project ... || echo": inside it the   *)
(* shell ignores set -e, so a counter that steps from 0, whose (( )) has   *)
(* status 1, does not end the script.                                      *)
ErrexitInBuildProject == FALSE

AfterCounting(n, next) ==
  IF ErrexitInBuildProject /\ n = 0 THEN "exited" ELSE next

-----------------------------------------------------------------------------
Init ==
  /\ pc = NoRun /\ i = 0 /\ run = 0 /\ cwd = Root
  /\ built = [p \in Projects |-> IF p \in Committed
                                 THEN [run |-> 0, kind |-> "html"]
                                 ELSE Nothing]
  /\ site = [p \in Projects |-> {}]
  /\ index = 0
  /\ uncleaned = {}
  /\ sphinx = [p \in Projects |-> "none"]
  /\ SUCCESS_COUNT = 0 /\ FAILURE_COUNT = 0 /\ FAILED_PROJECTS = <<>>
  /\ report = [p \in Projects |-> "none"]
  /\ exitCode = Running

(* The script starts over the tree as it is, with fresh counters.          *)
Begin(place, status) ==
  /\ pc \in {NoRun, "exited"} /\ run < MaxRuns
  /\ run' = run + 1 /\ i' = 1 /\ cwd' = Root /\ exitCode' = status
  /\ uncleaned' = {} /\ sphinx' = [p \in Projects |-> "none"]
  /\ SUCCESS_COUNT' = 0 /\ FAILURE_COUNT' = 0 /\ FAILED_PROJECTS' = <<>>
  /\ report' = [p \in Projects |-> "none"]
  /\ pc' = place
  /\ UNCHANGED tree

StartRun == Begin("project", Running)

(* mkdir -p "$SITE_DIR" fails, under set -e, before any project.           *)
MkdirFails == Begin("exited", 1)

(* A signal, a cancelled job or a lost machine ends the process.           *)
Interrupt ==
  /\ pc \notin {NoRun, "exited"}
  /\ pc' = NoRun
  /\ UNCHANGED <<i, run, cwd, tree, builds, counters, exitCode>>

-----------------------------------------------------------------------------
Report(p, verdict) == report' = [report EXCEPT ![p] = verdict]

Fail(next) ==
  /\ Report(project, "failed")
  /\ FAILED_PROJECTS' = Append(FAILED_PROJECTS, project)
  /\ FAILURE_COUNT' = FAILURE_COUNT + 1
  /\ pc' = AfterCounting(FAILURE_COUNT, next)
  /\ exitCode' = IF pc' = "exited" THEN 1 ELSE exitCode
  /\ UNCHANGED SUCCESS_COUNT

(* "$project/docs" resolves against the current directory.                 *)
DocsVisible(p) == cwd = Root /\ p \in HasDocs

Skip ==
  /\ pc = "project" /\ i <= Len(ALL_PROJECTS)
  /\ ~DocsVisible(project) \/ project \in DOXYGEN_PROJECTS
  /\ Report(project, "skipped")
  /\ i' = i + 1
  /\ UNCHANGED <<pc, run, cwd, tree, builds, exitCode,
                 SUCCESS_COUNT, FAILURE_COUNT, FAILED_PROJECTS>>

Building ==
  /\ pc = "project" /\ i <= Len(ALL_PROJECTS)
  /\ DocsVisible(project) /\ project \notin DOXYGEN_PROJECTS

EnterFails ==
  /\ Building
  /\ Fail("project")
  /\ i' = i + 1
  /\ UNCHANGED <<run, cwd, tree, builds>>

Enter ==
  /\ Building
  /\ cwd' = project
  /\ pc' = "clean"
  /\ UNCHANGED <<i, run, tree, builds, counters, exitCode>>

(* Mistaken Clean: the build starts over what is there.                    *)
CleanSkipped ==
  /\ pc = "clean"
  /\ pc' = "sphinx"
  /\ UNCHANGED <<i, run, cwd, tree, builds, counters, exitCode>>

(* rm -rf _build, its failure ignored.                                     *)
Clean ==
  /\ pc = "clean"
  /\ \/ built' = [built EXCEPT ![project] = Nothing] /\ UNCHANGED uncleaned
     \/ uncleaned' = uncleaned \cup {project} /\ UNCHANGED built
  /\ pc' = "sphinx"
  /\ UNCHANGED <<i, run, cwd, site, index, sphinx, counters, exitCode>>

(* What _build/html holds after sphinx-build wrote output of this kind     *)
(* over what was there.                                                    *)
Overlay(old, kind) ==
  IF kind = "none" \/ (kind = "dotfiles" /\ old.kind = "html")
  THEN old
  ELSE [run |-> run, kind |-> kind]

RunSphinx ==
  /\ pc = "sphinx"
  /\ \E result \in Results, teeOk \in BOOLEAN :
       /\ \E kind \in Leaves(result) :
            built' = [built EXCEPT ![project] = Overlay(@, kind)]
       /\ sphinx' = [sphinx EXCEPT ![project] = result]
       /\ pc' = IF result = "hang" THEN "hung"
                ELSE IF PipelineSucceeds(project, result, teeOk)
                     THEN "check" ELSE "error"
  /\ UNCHANGED <<i, run, cwd, site, index, uncleaned, counters, exitCode>>

(* Mistaken Timeout: none.                                                 *)
NoTimeout == FALSE

(* timeout 600 kills a build that hangs; its status is then 124.           *)
Timeout ==
  /\ pc = "hung"
  /\ pc' = "error"
  /\ UNCHANGED <<i, run, cwd, tree, builds, counters, exitCode>>

BuildFailed ==
  /\ pc = "error"
  /\ Fail("leave")
  /\ UNCHANGED <<i, run, cwd, tree, builds>>

NoOutput ==
  /\ pc = "check" /\ ~HasOutput(project)
  /\ Fail("leave")
  /\ UNCHANGED <<i, run, cwd, tree, builds>>

(* cp -r _build/html/* merges into what the directory holds; the glob does *)
(* not match dot files, and cp then fails on the literal pattern.          *)
CopyOut ==
  /\ pc = "check" /\ HasOutput(project) /\ built[project].kind = "html"
  /\ site' = [site EXCEPT ![project] = @ \cup {built[project].run}]
  /\ Report(project, "success")
  /\ SUCCESS_COUNT' = SUCCESS_COUNT + 1
  /\ pc' = AfterCounting(SUCCESS_COUNT, "leave")
  /\ exitCode' = IF pc' = "exited" THEN 1 ELSE exitCode
  /\ UNCHANGED <<i, run, cwd, built, index, builds,
                 FAILURE_COUNT, FAILED_PROJECTS>>

CopyFails ==
  /\ pc = "check" /\ HasOutput(project)
  /\ \/ UNCHANGED site
     \/ /\ built[project].kind = "html"       \* some files were copied
        /\ site' = [site EXCEPT ![project] = @ \cup {built[project].run}]
  /\ Fail("leave")
  /\ UNCHANGED <<i, run, cwd, built, index, builds>>

(* cd - or the cd two levels up at the end of build_project, each ignored  *)
(* when it fails, then the next iteration.                                 *)
Leave ==
  /\ pc = "leave"
  /\ cwd' \in {Root, cwd}
  /\ i' = i + 1
  /\ pc' = "project"
  /\ UNCHANGED <<run, tree, builds, counters, exitCode>>

(* Mistaken Publish: its commands end in || true.                          *)
PublishRegardless ==
  /\ pc = "project" /\ i > Len(ALL_PROJECTS)
  /\ index' \in IF cwd = Root THEN {index, run} ELSE {index}
  /\ exitCode' = 0
  /\ pc' = "exited"
  /\ UNCHANGED <<i, run, cwd, built, site, builds, counters>>

(* cp index.html and the images under set -e, then the summary.  Outside   *)
(* of the root there is no index.html.                                     *)
Publish ==
  /\ pc = "project" /\ i > Len(ALL_PROJECTS)
  /\ \/ cwd = Root /\ index' = run /\ exitCode' = 0
     \/ exitCode' = 1 /\ index' \in IF cwd = Root THEN {index, run} ELSE {index}
  /\ pc' = "exited"
  /\ UNCHANGED <<i, run, cwd, built, site, builds, counters>>

Step ==
  \/ Skip \/ EnterFails \/ Enter \/ Clean \/ RunSphinx \/ Timeout
  \/ BuildFailed \/ NoOutput \/ CopyOut \/ CopyFails \/ Leave \/ Publish

Next == StartRun \/ MkdirFails \/ Interrupt \/ Step

(* The shell keeps executing the script until it is interrupted.           *)
Spec == Init /\ [][Next]_vars /\ WF_vars(Step)

-----------------------------------------------------------------------------
(* The types of the script's state.                                        *)
TypeOK ==
  /\ pc \in {NoRun, "project", "clean", "sphinx", "hung", "error", "check",
             "leave", "exited"}
  /\ i \in 0..(Len(ALL_PROJECTS) + 1)
  /\ run \in 0..MaxRuns
  /\ cwd \in {Root} \cup Projects
  /\ built \in [Projects -> [run : 0..MaxRuns, kind : Kinds]]
  /\ site \in [Projects -> SUBSET (0..MaxRuns)]
  /\ index \in 0..MaxRuns
  /\ uncleaned \in SUBSET Projects
  /\ sphinx \in [Projects -> Results \cup {"none"}]
  /\ SUCCESS_COUNT \in Nat /\ FAILURE_COUNT \in Nat
  /\ FAILED_PROJECTS \in Seq(Projects)
  /\ report \in [Projects -> Verdicts \cup {"none"}]
  /\ exitCode \in {Running, 0, 1}

Reported(verdict) == {p \in Projects : report[p] = verdict}

(* The summary (Successful builds, Failed builds, the list of failed       *)
(* projects) accounts for each verdict exactly once, at every moment, and  *)
(* a run that ends by itself, whatever its status, has given one on every  *)
(* project, unless it could not even begin: no failure of one project cuts *)
(* the loop short or is forgotten.                                         *)
SummaryAddsUp ==
  /\ TypeOK
  /\ SUCCESS_COUNT = Cardinality(Reported("success"))
  /\ FAILURE_COUNT = Cardinality(Reported("failed"))
  /\ FAILURE_COUNT = Len(FAILED_PROJECTS)
  /\ pc = "exited" => Reported("none") \in {{}, Projects}

(* A run whose shell cannot find its way back to the root directory after  *)
(* a project skips every later one as if it had no documentation.  Such a  *)
(* run does not exit with status 0, the status that lets the workflow      *)
(* deploy what it built.                                                   *)
DocumentedProjectsAreTried ==
  exitCode = 0 => \A p \in HasDocs \ DOXYGEN_PROJECTS : report[p] # "skipped"

(* "built successfully" is only printed when the site holds pages of the   *)
(* project written by this run's sphinx-build, not only ones committed or  *)
(* left by an earlier run: whatever is found in _build, unless its removal *)
(* failed.                                                                 *)
SuccessIsCurrent ==
  \A p \in Projects :
    report[p] = "success" => run \in site[p] \/ p \in uncleaned

(* Every run that is not interrupted ends: a sphinx-build that hangs costs *)
(* its project, not the run.                                               *)
RunsEnd == pc \notin {NoRun, "exited"} ~> pc \in {NoRun, "exited"}

(* What the script's messages promise.  "Failed to build ... (timeout or   *)
(* error)" is the verdict on a sphinx-build that fails, so a project       *)
(* reported as built successfully had one that did not.                    *)
SuccessMeansSphinxSucceeded ==
  \A p \in Projects :
    report[p] = "success" => SphinxSucceeds(p, sphinx[p])
=============================================================================
