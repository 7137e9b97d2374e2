------------------------- MODULE CatalogFunctionJob -------------------------
(***************************************************************************)
(* lib/ModelMixins/CatalogFunctionJobMixin.ts: a job that a server runs    *)
(* for a catalog function.  It is invoked once, polled by AutoRefreshing   *)
(* until the server is done, and its results are downloaded and added to   *)
(* the workbench.  Three async functions do this side by side: invoke(),   *)
(* refreshData() and forceLoadMetadata(), each of which may come to        *)
(* onJobFinish() and wait there for the download.                          *)
(* A page that is reloaded, or opened from a share link, has the job's     *)
(* traits but none of the rest.                                            *)
(***************************************************************************)
EXTENDS Naturals

VARIABLES
  refreshEnabled, observed, enabling, timer,  \* AutoRefreshing
  show,                \* the trait show
  jobStatus,           \* the trait jobStatus
  downloadedResults,   \* the trait downloadedResults
  pollingForResults,
  downloadingResults,
  phase,               \* how far each of the three functions is
  inWorkbench,
  addResults,          \* for each of them, the argument addResultsToWorkbench
  mapped               \* history: how often results were added to the workbench

refresh == <<refreshEnabled, observed, enabling, timer>>
onMap   == <<show, inWorkbench>>
jobVars == <<refresh, onMap, jobStatus, downloadedResults, pollingForResults,
             downloadingResults, phase, addResults, mapped>>

Refresh == INSTANCE AutoRefreshing

\* The three functions; each waits for its request, then for the download.
Function == {"invoke", "refreshData", "loadMetadata"}
Phase    == {"idle", "waiting", "downloading"}

JobTypeOK ==
  /\ Refresh!TypeOK
  /\ show \in BOOLEAN
  /\ jobStatus \in {"inactive", "running", "finished", "error"}
  /\ downloadedResults \in BOOLEAN
  /\ pollingForResults \in BOOLEAN
  /\ downloadingResults \in BOOLEAN
  /\ phase \in [Function -> Phase]
  /\ phase["loadMetadata"] # "waiting"
  /\ inWorkbench \in BOOLEAN
  /\ addResults \in [Function -> BOOLEAN]
  /\ mapped \in Nat

JobInit ==
  /\ Refresh!Init /\ refreshEnabled = FALSE
  /\ show = TRUE
  /\ jobStatus = "inactive" /\ downloadedResults = FALSE
  /\ pollingForResults = FALSE /\ downloadingResults = FALSE
  /\ phase = [f \in Function |-> "idle"]
  /\ inWorkbench = FALSE
  /\ addResults = [f \in Function |-> FALSE]
  /\ mapped = 0

-----------------------------------------------------------------------------

\* onJobFinish, called by f, up to its await.
OnJobFinish(f, addResultsToWorkbench) ==
  IF jobStatus' = "finished" /\ ~downloadedResults /\ ~downloadingResults
    THEN /\ downloadingResults' = TRUE
         /\ phase' = [phase EXCEPT ![f] = "downloading"]
         /\ addResults' = [addResults EXCEPT ![f] = addResultsToWorkbench]
    ELSE /\ phase' = [phase EXCEPT ![f] = "idle"]
         /\ UNCHANGED <<downloadingResults, addResults>>

\* submitJob() invokes its new job.
Invoke ==
  /\ jobStatus = "inactive" /\ jobStatus' = "running"
  /\ phase' = [phase EXCEPT !["invoke"] = "waiting"]
  /\ UNCHANGED <<refresh, onMap, downloadedResults, pollingForResults, downloadingResults,
                 addResults, mapped>>

\* The server has run the job at once.
InvokeFinishes ==
  /\ phase["invoke"] = "waiting"
  /\ jobStatus' = "finished"
  /\ OnJobFinish("invoke", TRUE)
  /\ UNCHANGED <<refresh, onMap, downloadedResults, pollingForResults, mapped>>

\* The server has accepted the job: polling is enabled.
InvokeAccepted ==
  /\ phase["invoke"] = "waiting" /\ phase' = [phase EXCEPT !["invoke"] = "idle"]
  /\ Refresh!SetRefreshEnabled(TRUE)
  /\ UNCHANGED <<onMap, jobStatus, downloadedResults, pollingForResults, downloadingResults,
                 addResults, mapped>>

InvokeFails ==
  /\ phase["invoke"] = "waiting" /\ phase' = [phase EXCEPT !["invoke"] = "idle"]
  /\ jobStatus' = "error"
  /\ UNCHANGED <<refresh, onMap, downloadedResults, pollingForResults, downloadingResults,
                 addResults, mapped>>

-----------------------------------------------------------------------------

\* The timer's reaction calls refreshData.
RefreshData ==
  /\ timer /\ show
  /\ ~pollingForResults /\ pollingForResults' = TRUE
  /\ phase' = [phase EXCEPT !["refreshData"] = "waiting"]
  /\ UNCHANGED <<refresh, onMap, jobStatus, downloadedResults, downloadingResults,
                 addResults, mapped>>

\* Mutant: the flag is only reset when the job is over.
PollRunningStillPolling ==
  /\ phase["refreshData"] = "waiting" /\ phase' = [phase EXCEPT !["refreshData"] = "idle"]
  /\ UNCHANGED <<refresh, onMap, jobStatus, downloadedResults, pollingForResults,
                 downloadingResults, addResults, mapped>>

\* pollForResults() returns that the job is still running.
PollRunning ==
  /\ phase["refreshData"] = "waiting" /\ phase' = [phase EXCEPT !["refreshData"] = "idle"]
  /\ pollingForResults' = FALSE
  /\ UNCHANGED <<refresh, onMap, jobStatus, downloadedResults, downloadingResults,
                 addResults, mapped>>

\* It returns that the job has finished: polling ends, the results are downloaded.
PollFinished ==
  /\ phase["refreshData"] = "waiting"
  /\ jobStatus' = "finished"
  /\ Refresh!SetRefreshEnabled(FALSE)
  /\ OnJobFinish("refreshData", TRUE)
  /\ pollingForResults' = (phase'["refreshData"] # "idle")
  /\ UNCHANGED <<onMap, downloadedResults, mapped>>

\* Mutant: a job whose poll has failed is polled again.
PollFailsEnabled ==
  /\ phase["refreshData"] = "waiting" /\ phase' = [phase EXCEPT !["refreshData"] = "idle"]
  /\ jobStatus' = "error" /\ pollingForResults' = FALSE
  /\ UNCHANGED <<refresh, onMap, downloadedResults, downloadingResults, addResults, mapped>>

\* It throws.
PollFails ==
  /\ phase["refreshData"] = "waiting" /\ phase' = [phase EXCEPT !["refreshData"] = "idle"]
  /\ jobStatus' = "error" /\ pollingForResults' = FALSE
  /\ Refresh!SetRefreshEnabled(FALSE)
  /\ UNCHANGED <<onMap, downloadedResults, downloadingResults, addResults, mapped>>

\* A run of forceLoadMetadata (see AsyncLoader for when there is one).
LoadMetadata ==
  /\ jobStatus = "finished" /\ ~downloadedResults
  /\ phase["loadMetadata"] = "idle"
  /\ UNCHANGED <<refresh, onMap, jobStatus, downloadedResults, pollingForResults, mapped>>
  /\ OnJobFinish("loadMetadata", inWorkbench)

-----------------------------------------------------------------------------

\* downloadResults() returns to f: the results go to the workbench.
Downloaded(f) ==
  /\ phase[f] = "downloading" /\ phase' = [phase EXCEPT ![f] = "idle"]
  /\ downloadedResults' = TRUE /\ downloadingResults' = FALSE
  /\ mapped' = IF addResults[f] THEN mapped + 1 ELSE mapped
  /\ pollingForResults' = (pollingForResults /\ f # "refreshData")
  /\ UNCHANGED <<refresh, onMap, jobStatus, addResults>>

\* It throws; f catches the error, or, in loadMetadata, returns it.
DownloadFails(f) ==
  /\ phase[f] = "downloading" /\ phase' = [phase EXCEPT ![f] = "idle"]
  /\ jobStatus' = IF f = "loadMetadata" THEN jobStatus ELSE "error"
  /\ IF f = "refreshData" THEN Refresh!SetRefreshEnabled(FALSE) ELSE UNCHANGED refresh
  /\ pollingForResults' = (pollingForResults /\ f # "refreshData")
  /\ UNCHANGED <<onMap, downloadedResults, downloadingResults, addResults, mapped>>

\* The viewer shows what is in the workbench, and observes its map items.
rest == <<jobStatus, downloadedResults, pollingForResults, downloadingResults, phase,
          addResults, mapped>>

AddToWorkbench ==
  /\ ~inWorkbench /\ inWorkbench' = TRUE
  /\ UNCHANGED <<refresh, show, rest>>

BecomeObserved ==
  /\ inWorkbench /\ Refresh!BecomeObserved
  /\ UNCHANGED <<onMap, rest>>

RemoveFromWorkbench ==
  /\ inWorkbench /\ inWorkbench' = FALSE
  /\ IF observed THEN Refresh!BecomeUnobserved ELSE UNCHANGED refresh
  /\ UNCHANGED <<show, rest>>

ToggleShow ==
  /\ show' = ~show
  /\ UNCHANGED <<refresh, inWorkbench, rest>>

\* Mutant: the trait that tells what was downloaded is not kept.
ReloadForgetting ==
  /\ observed' = FALSE /\ enabling' = FALSE /\ timer' = FALSE /\ inWorkbench' = FALSE
  /\ pollingForResults' = FALSE /\ downloadingResults' = FALSE
  /\ phase' = [f \in Function |-> "idle"]
  /\ downloadedResults' = FALSE
  /\ UNCHANGED <<refreshEnabled, show, jobStatus, addResults, mapped>>

\* The page is loaded again from the job's traits.
Reload ==
  /\ observed' = FALSE /\ enabling' = FALSE /\ timer' = FALSE /\ inWorkbench' = FALSE
  /\ pollingForResults' = FALSE /\ downloadingResults' = FALSE
  /\ phase' = [f \in Function |-> "idle"]
  /\ UNCHANGED <<refreshEnabled, show, jobStatus, downloadedResults, addResults, mapped>>

JobNext ==
  \/ Invoke \/ InvokeFinishes \/ InvokeAccepted \/ InvokeFails
  \/ RefreshData \/ PollRunning \/ PollFinished \/ PollFails
  \/ LoadMetadata
  \/ \E f \in Function : Downloaded(f) \/ DownloadFails(f)
  \/ AddToWorkbench \/ BecomeObserved \/ RemoveFromWorkbench \/ ToggleShow \/ Reload

JobSpec == JobInit /\ [][JobNext]_jobVars

\* The timer goes off again and again, every request is answered, and a server asked
\* often enough says at last how the job ended.
JobFairness ==
  /\ WF_jobVars(RefreshData)
  /\ WF_jobVars(PollRunning \/ PollFinished \/ PollFails)
  /\ SF_jobVars(PollFinished \/ PollFails)
  /\ \A f \in Function : WF_jobVars(Downloaded(f) \/ DownloadFails(f))

JobFairSpec == JobSpec /\ JobFairness

-----------------------------------------------------------------------------
(* Properties *)

\* Polling is enabled only while the job runs: no end of a job, whichever function
\* comes to it, leaves a timer behind that polls a job that is over; and the server is
\* polled only while the map items have consumers (AutoRefreshing), also as the job
\* switches polling on and off.
PolledWhileRunning ==
  /\ refreshEnabled => jobStatus = "running"
  /\ Refresh!PollsOnlyWhenObserved

\* Results reach the workbench at most once, however polls, metadata loads and reloads
\* of the page meet at the end of the job, and never those of a job that is then reported
\* to have failed.
DeliveredOnce ==
  /\ mapped <= 1
  /\ mapped = 1 => downloadedResults
  /\ downloadedResults => jobStatus = "finished"

\* A job that the server has accepted comes to an end while it is on the map and shown,
\* also across reloads of the page.
RunningEnds ==
  (jobStatus = "running" /\ refreshEnabled) ~> (jobStatus # "running" \/ ~observed \/ ~show)

\* The download "can be triggered [...] on `loadMetadata` if `jobStatus` is
\* "finished", and `!downloadedResults`" (CatalogFunctionJobMixin.ts:209-212): a job
\* that waits for its results is being downloaded, or a load of the metadata does it.
LoadWouldDownload ==
  jobStatus = "finished" /\ ~downloadedResults
    => ~downloadingResults \/ \E f \in Function : phase[f] = "downloading"

=============================================================================
