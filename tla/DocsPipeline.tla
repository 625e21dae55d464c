---------------------------- MODULE DocsPipeline ----------------------------
(***************************************************************************)
(* .github/workflows/build-docs.yml: the workflow runs that pushes to      *)
(* main, pull requests and manual dispatches start, serialised by the      *)
(* concurrency group "pages", and the deployments they make.  A commit is  *)
(* its number on main; a run outside main carries the head it was opened   *)
(* against.                                                                *)
(*                                                                         *)
(* The group is a service of GitHub: a run starts when the group is free,  *)
(* otherwise it waits, and a run that comes to wait cancels the one that   *)
(* was waiting.  cancel-in-progress: false leaves the running one alone.   *)
(***************************************************************************)
EXTENDS Naturals

CONSTANTS
  MaxHead,          (* bound on the commits pushed to main                   *)
  MaxWorkflowRuns   (* bound on the workflow runs                            *)

ASSUME PipelineAssumption == MaxHead \in Nat /\ MaxWorkflowRuns \in Nat

VARIABLES
  head,          (* the last commit pushed to main, 0 before the first       *)
  started,       (* number of runs created so far                            *)
  running,       (* the runs in progress                                     *)
  pending,       (* the runs waiting for the concurrency group               *)
  live,          (* the ref and commit the Pages site was deployed from      *)
  failed,        (* commits of main whose last run to start failed           *)
  pulls          (* whether anybody opens pull requests                      *)

pipelineVars == <<head, started, running, pending, live, failed, pulls>>

Refs == {"main", "other"}
Run  == [id : Nat, ref : Refs, commit : Nat, job : {"build", "deploy"}]

CommitsOnMain(runs) == {r.commit : r \in {s \in runs : s.ref = "main"}}

-----------------------------------------------------------------------------
PipelineInit ==
  /\ head = 0 /\ started = 0
  /\ running = {} /\ pending = {}
  /\ live = [ref |-> "main", commit |-> 0]
  /\ failed = {}
  /\ pulls \in BOOLEAN

(* Mistaken GroupFree: no concurrency group.                               *)
NoGroup == TRUE

(* concurrency: group "pages", cancel-in-progress: false.                  *)
GroupFree == running = {}

(* A run of a commit that starts has not failed yet.                        *)
Start(r) ==
  /\ running' = running \cup {r}
  /\ failed' = failed \ CommitsOnMain({r})

Trigger(ref, commit) ==
  LET r == [id |-> started, ref |-> ref, commit |-> commit, job |-> "build"]
  IN  /\ started < MaxWorkflowRuns
      /\ started' = started + 1
      /\ IF GroupFree /\ pending = {}
         THEN Start(r) /\ UNCHANGED pending
         ELSE pending' = {r} /\ UNCHANGED <<running, failed>>

Push ==
  /\ head < MaxHead
  /\ head' = head + 1
  /\ Trigger("main", head')
  /\ UNCHANGED <<live, pulls>>

PullRequest ==
  /\ pulls
  /\ Trigger("other", head)
  /\ UNCHANGED <<head, live, pulls>>

(* workflow_dispatch on main builds its current head.                      *)
Dispatch ==
  /\ head > 0
  /\ Trigger("main", head)
  /\ UNCHANGED <<head, live, pulls>>

StartPending(r) ==
  /\ GroupFree /\ r \in pending
  /\ Start(r)
  /\ pending' = pending \ {r}
  /\ UNCHANGED <<head, started, live, pulls>>

-----------------------------------------------------------------------------
(* The if of the deploy job.                                               *)
DeployAllowed(r) == r.ref = "main"

Finish(r) ==
  /\ running' = running \ {r}
  /\ UNCHANGED <<head, started, pending, pulls>>

(* The build job ends well: the deploy job it gates starts, or the run is  *)
(* over.  The build script exits with 0 whether or not every project built.*)
BuildSucceeds(r) ==
  /\ r \in running /\ r.job = "build"
  /\ IF DeployAllowed(r)
     THEN /\ running' = (running \ {r}) \cup {[r EXCEPT !.job = "deploy"]}
          /\ UNCHANGED <<head, started, pending, pulls>>
     ELSE Finish(r)
  /\ UNCHANGED <<live, failed>>

(* A step of either job fails: nothing after it runs.                      *)
JobFails(r) ==
  /\ r \in running
  /\ failed' = failed \cup CommitsOnMain({r})
  /\ Finish(r)
  /\ UNCHANGED live

Deploy(r) ==
  /\ r \in running /\ r.job = "deploy"
  /\ live' = [ref |-> r.ref, commit |-> r.commit]
  /\ Finish(r)
  /\ UNCHANGED failed

Advance ==
  \/ \E r \in pending : StartPending(r)
  \/ \E r \in running : BuildSucceeds(r) \/ JobFails(r) \/ Deploy(r)

PipelineNext == Push \/ PullRequest \/ Dispatch \/ Advance

(* Runners and the group's queue are served: a run that can take its next  *)
(* step takes it.  Nothing obliges anybody to push.                        *)
PipelineSpec == PipelineInit /\ [][PipelineNext]_pipelineVars /\ WF_pipelineVars(Advance)

-----------------------------------------------------------------------------
(* Type invariant of the pipeline.                                         *)
PipelineTypeOK ==
  /\ head \in Nat /\ started \in Nat
  /\ running \in SUBSET Run /\ pending \in SUBSET Run
  /\ live \in [ref : Refs, commit : Nat]
  /\ failed \in SUBSET Nat
  /\ pulls \in BOOLEAN

(* The group lets one run in at a time, and runs wait, run and deploy in   *)
(* the order of the commits they were started for.                         *)
OneAtATime == \A r, s \in running : r = s
InOrder ==
  /\ \A r \in running \cup pending : live.commit <= r.commit /\ r.commit <= head
  /\ \A r \in running, p \in pending : r.commit <= p.commit
  /\ live.commit <= head
  /\ \A p, q \in pending : p = q

DeploysMain ==
  /\ live.ref = "main"
  /\ \A r \in running : r.job = "deploy" => r.ref = "main"
  /\ \A p \in pending : p.job = "build"

IInv == PipelineTypeOK /\ OneAtATime /\ InOrder /\ DeploysMain

(* Nothing but a commit of main is ever live: a pull request's run builds  *)
(* in the same group, and its pages never reach the site.                  *)
OnlyMainIsLive == live.ref = "main" /\ live.commit <= head

(* The site never goes back to an older commit of main, however pushes,    *)
(* dispatches and slow builds interleave.                                  *)
LiveNeverGoesBack == [][live'.commit >= live.commit]_pipelineVars

=============================================================================
