------------------------------ MODULE JobPages ------------------------------
(***************************************************************************)
(* The pages of the console that start a background job and poll it to its *)
(* end: recalculating rates, as the administrator or as a reseller, and    *)
(* resetting the billing module.                                           *)
(*                                                                         *)
(* The POST answers with the identifier of a job that has not begun.  The  *)
(* job says how it goes in a file, which it rewrites, and which answers    *)
(* the polls; a restart of the backend leaves the file as it is.  A poll   *)
(* that fails is repeated, and the handler gives up after GiveUp in a row. *)
(* While it waits the user goes on changing the selection.                 *)
(***************************************************************************)
EXTENDS Naturals

CONSTANTS
    Selection,   \* scope, target and period, taken together
    GiveUp,      \* failed polls in a row that end the wait: 10 in the code
    MaxActs,     \* bound: what the user does
    MaxFailures, \* bound: requests lost, refused or unreadable
    MaxRestarts  \* bound: restarts of the backend

ASSUME JobPagesAssumption ==
    /\ Selection \subseteq Nat \ {0}
    /\ GiveUp \in Nat \ {0}
    /\ MaxActs \in Nat /\ MaxFailures \in Nat /\ MaxRestarts \in Nat

VARIABLES
    page,     \* the page that is open
    sel,      \* what is selected, or 1 once the word has been typed; 0 is nothing
    preview,  \* the job whose result is under review; 0 is none
    applied,  \* the job whose result is announced; 0 is none
    busy,     \* the kinds of job whose button is disabled: previewing, applying, running
    handlers, \* the handlers that wait, for the answer of a POST or for their job
    status,   \* how each job goes
    job,      \* what each job was asked for
    found,    \* jobs that found something to change, and may change it
    differs,  \* selections whose CDRs are not at the current rates
    credits,  \* how many jobs have corrected the balances of each selection
    lost,     \* history: jobs that no handler of the page waits for any more
    late,     \* history: previews that landed on another selection
    acts, failures, restarts

screen == <<page, sel, preview, applied>>
backend == <<status, job, found, differs, credits>>
bounds == <<acts, failures, restarts>>
vars == <<screen, busy, handlers, backend, lost, late, bounds>>

RecalcPages == {"billing-recalc", "my/reseller/billing-recalc"}
Kinds == IF page \in RecalcPages THEN {"preview", "apply"} ELSE {"reset"}
Job == 1 .. MaxActs
Choices == IF page \in RecalcPages THEN Selection \cup {0} ELSE {0, 1}

\* What a POST asks for, and the preview that the user had reviewed.
Asked(kind, s, seen) == [kind |-> kind, sel |-> s, seen |-> seen]

\* A handler: job 0 while its POST has not been answered.
Waiting(asked, j, streak) == [asked |-> asked, job |-> j, streak |-> streak]

Init ==
    /\ page \in RecalcPages \cup {"billing-reset"}
    /\ sel = 0
    /\ preview = 0
    /\ applied = 0
    /\ busy = {}
    /\ handlers = {}
    /\ status = [j \in Job |-> "none"]
    /\ job = [j \in Job |-> Asked("none", 0, 0)]
    /\ found = {}
    /\ differs = Selection
    /\ credits = [s \in Selection |-> 0]
    /\ lost = {}
    /\ late = {}
    /\ acts = 0
    /\ failures = 0
    /\ restarts = 0

----------------------------------------------------------------------------
(* The user.                                                               *)

Acts == acts < MaxActs /\ acts' = acts + 1 /\ UNCHANGED <<failures, restarts>>

\* Mutant: another period leaves the preview of the last one.
SelectKeepsPreview(s) ==
    /\ Acts
    /\ page \in RecalcPages \/ applied = 0
    /\ sel' = s
    /\ UNCHANGED <<page, preview, applied, busy, handlers, backend, lost, late>>

\* Another scope, target or period: what was under review goes.  Or the word
\* that enables the reset, while its form is there.
Select(s) ==
    /\ Acts
    /\ page \in RecalcPages \/ applied = 0
    /\ sel' = s
    /\ IF page \in RecalcPages THEN preview' = 0 /\ applied' = 0
                               ELSE UNCHANGED <<preview, applied>>
    /\ UNCHANGED <<page, busy, handlers, backend, lost, late>>

\* Mutant: the button is not disabled while its job runs.
OfferedWhileBusy(kind) ==
    /\ kind = "preview" => sel # 0
    /\ kind = "apply" => preview # 0 /\ preview \in found
    /\ kind = "reset" => sel # 0 /\ applied = 0

\* The button is there and is not disabled.
Offered(kind) ==
    /\ kind \notin busy
    /\ kind = "preview" => sel # 0
    /\ kind = "apply" => preview # 0 /\ preview \in found
    /\ kind = "reset" => sel # 0 /\ applied = 0

\* runPreview, runApply, run: the handler up to its POST, whose body is what is
\* selected by now.
Start(kind) ==
    /\ Offered(kind)
    /\ Acts
    /\ busy' = busy \cup {kind}
    /\ handlers' = handlers \cup {Waiting(Asked(kind, sel, preview), 0, 0)}
    /\ preview' = IF kind = "preview" THEN 0 ELSE preview
    /\ applied' = IF kind = "apply" THEN applied ELSE 0
    /\ UNCHANGED <<page, sel, backend, lost, late>>

----------------------------------------------------------------------------
(* The backend.                                                            *)

Fails == failures < MaxFailures /\ failures' = failures + 1 /\ UNCHANGED <<acts, restarts>>

\* finally { setPreviewing(false) }
Ends(h) == handlers' = handlers \ {h} /\ busy' = busy \ {h.asked.kind}

\* _start_job: the job is queued, to begin after the answer has been sent.
Queue(h, j) ==
    /\ h.job = 0
    /\ status[j] = "none"
    /\ \A i \in Job : i < j => status[i] # "none"
    /\ status' = [i \in Job |-> IF i = j THEN "queued" ELSE status[i]]
    /\ job' = [i \in Job |-> IF i = j THEN h.asked ELSE job[i]]
    /\ UNCHANGED <<found, differs, credits>>

\* Mutant: the finally does not wait for pollJob.
AcceptUnawaited(h, j) ==
    /\ Queue(h, j)
    /\ handlers' = (handlers \ {h}) \cup {Waiting(h.asked, j, 0)}
    /\ busy' = busy \ {h.asked.kind}
    /\ UNCHANGED <<screen, lost, late, bounds>>

\* The POST is answered.
Accept(h, j) ==
    /\ Queue(h, j)
    /\ handlers' = (handlers \ {h}) \cup {Waiting(h.asked, j, 0)}
    /\ UNCHANGED <<screen, busy, lost, late, bounds>>

\* The answer of the POST is lost: its job runs, and nobody waits for it.
AcceptUnheard(h, j) ==
    /\ Queue(h, j)
    /\ Fails
    /\ Ends(h)
    /\ lost' = lost \cup {j}
    /\ UNCHANGED <<screen, late>>

\* The POST fails: catch { setError }.
RefusePost(h) ==
    /\ h.job = 0
    /\ Fails
    /\ Ends(h)
    /\ UNCHANGED <<screen, backend, lost, late>>

Moves(j, from, to) ==
    status[j] = from /\ status' = [i \in Job |-> IF i = j THEN to ELSE status[i]]

\* The job writes its file and looks for differences, which invoices already
\* issued may forbid to change.
Begin(j) ==
    /\ Moves(j, "queued", "running")
    /\ \/ job[j].sel \in differs /\ found' = found \cup {j}
       \/ UNCHANGED found
    /\ UNCHANGED <<screen, busy, handlers, job, differs, credits, lost, late, bounds>>

Corrects(j) == job[j].kind = "apply" /\ j \in found

\* The last commit of an apply: the CDRs and the balances are right.  The file
\* still says that the job runs, while the reports are computed again.
Correct(j) ==
    /\ Corrects(j)
    /\ Moves(j, "running", "corrected")
    /\ differs' = differs \ {job[j].sel}
    /\ credits' = [s \in Selection |-> IF s = job[j].sel THEN credits[s] + 1 ELSE credits[s]]
    /\ UNCHANGED <<screen, busy, handlers, job, found, lost, late, bounds>>

\* The job ends and says so.
Finish(j) ==
    /\ Moves(j, IF Corrects(j) THEN "corrected" ELSE "running", "done")
    /\ UNCHANGED <<screen, busy, handlers, job, found, differs, credits, lost, late, bounds>>

\* except Exception: the job says what went wrong, before it corrects a balance.
Break(j) ==
    /\ Moves(j, "running", "error")
    /\ UNCHANGED <<screen, busy, handlers, job, found, differs, credits, lost, late, bounds>>

\* The job has a file, which says that it runs.
Begun(j) == status[j] \in {"running", "corrected"}

\* The backend restarts: the jobs die, and their files say what they said.
Restart ==
    /\ restarts < MaxRestarts
    /\ restarts' = restarts + 1
    /\ status' = [j \in Job |-> IF status[j] = "queued" THEN "never"
                                ELSE IF Begun(j) THEN "stuck" ELSE status[j]]
    /\ UNCHANGED <<screen, busy, handlers, job, found, differs, credits, lost, late,
                   acts, failures>>

----------------------------------------------------------------------------
(* pollJob.                                                                *)

\* The job runs, to all that its file says.
PollRunning(h) ==
    /\ h.job # 0
    /\ Begun(h.job) \/ status[h.job] = "stuck"
    /\ handlers' = (handlers \ {h}) \cup {Waiting(h.asked, h.job, 0)}
    /\ UNCHANGED <<screen, busy, backend, lost, late, bounds>>

\* Mutant: one more failure than the handler may count.
PollFailsOnceMore(h) ==
    /\ h.job # 0
    /\ \/ status[h.job] \in {"queued", "never"} /\ UNCHANGED bounds
       \/ Fails
    /\ IF h.streak < GiveUp
         THEN /\ handlers' = (handlers \ {h}) \cup {Waiting(h.asked, h.job, h.streak + 1)}
              /\ UNCHANGED <<busy, lost>>
         ELSE Ends(h) /\ lost' = lost \cup {h.job}
    /\ UNCHANGED <<screen, backend, late>>

\* The file is not there yet, is being rewritten, or the request was lost.
PollFails(h) ==
    /\ h.job # 0
    /\ \/ status[h.job] \in {"queued", "never"} /\ UNCHANGED bounds
       \/ Fails
    /\ IF h.streak + 1 < GiveUp
         THEN /\ handlers' = (handlers \ {h}) \cup {Waiting(h.asked, h.job, h.streak + 1)}
              /\ UNCHANGED <<busy, lost>>
         ELSE Ends(h) /\ lost' = lost \cup {h.job}
    /\ UNCHANGED <<screen, backend, late>>

\* The job is done: its result is what the page shows, whatever is selected.
PollDone(h) ==
    /\ h.job # 0
    /\ status[h.job] = "done"
    /\ Ends(h)
    /\ preview' = IF h.asked.kind = "preview" THEN h.job ELSE 0
    /\ applied' = IF h.asked.kind = "preview" THEN applied ELSE h.job
    /\ sel' = IF h.asked.kind = "reset" THEN 0 ELSE sel
    /\ late' = IF h.asked.kind = "preview" /\ h.asked.sel # sel THEN late \cup {h.job} ELSE late
    /\ UNCHANGED <<page, backend, lost, bounds>>

\* Mutant: only "done" ends the wait.
PollErrorIgnored(h) ==
    /\ h.job # 0
    /\ status[h.job] = "error"
    /\ UNCHANGED vars

\* The job failed: what was under review stays.
PollError(h) ==
    /\ h.job # 0
    /\ status[h.job] = "error"
    /\ Ends(h)
    /\ UNCHANGED <<screen, backend, lost, late, bounds>>

Poll(h) == PollRunning(h) \/ PollFails(h) \/ PollDone(h) \/ PollError(h)

Next ==
    \/ \E s \in Choices : Select(s)
    \/ \E kind \in Kinds : Start(kind)
    \/ \E h \in handlers : \/ \E j \in Job : Accept(h, j) \/ AcceptUnheard(h, j)
                           \/ RefusePost(h)
                           \/ Poll(h)
    \/ \E j \in Job : Begin(j) \/ Correct(j) \/ Finish(j) \/ Break(j)
    \/ Restart

Spec == Init /\ [][Next]_vars

\* A request is answered or fails; timers fire; a job of a live backend begins
\* and ends.
FairSpec ==
    /\ Spec
    /\ WF_vars(\E h \in handlers : \E j \in Job : Accept(h, j))
    /\ \A kind \in {"preview", "apply", "reset"} :
          WF_vars(\E h \in handlers : h.asked.kind = kind /\ Poll(h))
    /\ \A j \in Job : WF_vars(Begin(j) \/ Correct(j) \/ Finish(j))

----------------------------------------------------------------------------
Live(j) == status[j] = "queued" \/ Begun(j)

Asks == [kind : {"preview", "apply", "reset"}, sel : Nat, seen : Job \cup {0}]

\* The page, its handlers and the jobs keep their types; a handler that polls
\* does so for the job that its own POST started.
TypeOK ==
    /\ page \in RecalcPages \cup {"billing-reset"}
    /\ sel \in Choices
    /\ preview \in Job \cup {0} /\ applied \in Job \cup {0}
    /\ busy \subseteq Kinds
    /\ handlers \subseteq [asked : Asks, job : Job \cup {0}, streak : 0 .. GiveUp - 1]
    /\ status \in [Job -> {"none", "queued", "running", "corrected", "done", "error",
                         "never", "stuck"}]
    /\ job \in [Job -> Asks \cup {Asked("none", 0, 0)}]
    /\ found \subseteq Job /\ lost \subseteq Job /\ late \subseteq Job
    /\ differs \subseteq Selection
    /\ credits \in [Selection -> Nat]
    /\ acts \in 0 .. MaxActs
    /\ failures \in 0 .. MaxFailures
    /\ restarts \in 0 .. MaxRestarts
    /\ \A h \in handlers : h.job # 0 => job[h.job] = h.asked

\* Two jobs that write never run together from one page, unless the page has
\* lost sight of one of them: the POST's answer was lost, or ten polls failed
\* (the flag set before the POST and cleared in the finally, runApply and run).
NoRivals ==
    \A i, j \in Job :
        Live(i) /\ Live(j) /\ job[i].kind # "preview" /\ job[j].kind # "preview"
            => i = j \/ i \in lost \/ j \in lost

\* The differences of a selection are credited once, however often the button
\* was pressed, unless the page has lost sight of a job: a second job begins
\* when the first has ended, and finds nothing (billing_recalc.py:278-373).
CreditedOnce == lost = {} => \A s \in Selection : credits[s] <= 1

\* A job changes what was reviewed, unless its preview landed after the user
\* had selected something else: every change of the selection clears it.
AppliesWhatItSaw ==
    \A j \in Job : job[j].kind = "apply" /\ job[j].seen \notin late
        => job[job[j].seen].kind = "preview" /\ job[job[j].seen].sel = job[j].sel

\* "Siempre pide vista previa antes de aplicar": a job is never applied to a
\* selection other than the one whose preview is on the page.
PreviewedBeforeApplied ==
    \A j \in Job : job[j].kind = "apply" => job[job[j].seen].sel = job[j].sel

\* The buttons come back: a page only waits for ever for a job that a restart
\* of the backend killed, and whose file will always say that it runs.
WaitsOnlyForTheDead ==
    <>[](\A h \in handlers : h.job # 0 /\ status[h.job] = "stuck")
=============================================================================
