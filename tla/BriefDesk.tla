----------------------------- MODULE BriefDesk -----------------------------
(***************************************************************************)
(* The project description of a conversation (project_brief): what people  *)
(* save, what the model proposes and people review, the background jobs    *)
(* that ask the model (brief_generation), and the handoff of a saved       *)
(* revision as a task (brief_handoff).                                     *)
(*                                                                         *)
(* One conversation.  The lock of the store makes every operation on the   *)
(* brief's file one step, and replacing the file makes it atomic: a crash  *)
(* leaves the file as before, and at most files nobody refers to.          *)
(***************************************************************************)
EXTENDS Naturals, Sequences

CONSTANTS Sections, Texts, \* a document gives every section a text
          Blank,           \* the text of every section at first
          Requests,        \* numbers of generation requests
          MaxRevision,     \* bound: revisions of the document
          MaxFaults        \* bound: crashes and failed writes

VARIABLES brief,    \* brief.json: revision, document, proposal and jobs
          snapshots, \* its _history: the documents of the revisions that have a file
          handoffs, \* handoffs[r]: the record of revision r: "none", "prepared", "submitted", "uncertain"
          listed,   \* the conversation has not been deleted
          sending,  \* sending[r]: the thread that hands over revision r
          live,     \* _LIVE
          thread,   \* thread[j]: the generation thread of request j
          tasks,    \* tasks[r]: the documents of the tasks created for revision r, in order
          calls,    \* history: calls[j]: calls of the model for request j
          faults

vars == <<brief, snapshots, handoffs, listed, sending, live, thread, tasks, calls, faults>>
jobbing == <<live, thread, calls>>
dispatching == <<handoffs, sending, tasks>>

Documents == [Sections -> Texts]
Revisions == 0..MaxRevision
None == [base |-> 0]
NoJob == [status |-> "none"]
Active == {"queued", "running"}

Init ==
    /\ \E legacy \in {0, 1} :
          brief = [revision |-> legacy, document |-> [s \in Sections |-> Blank],
                   proposal |-> None, jobs |-> [j \in Requests |-> NoJob]]
    /\ snapshots = <<>>
    /\ handoffs = [r \in Revisions |-> "none"]
    /\ listed = TRUE
    /\ sending = [r \in Revisions |-> "no"]
    /\ live = {}
    /\ thread = [j \in Requests |-> "none"]
    /\ tasks = [r \in Revisions |-> <<>>]
    /\ calls = [j \in Requests |-> 0]
    /\ faults = 0

Fault == faults < MaxFaults /\ faults' = faults + 1

-----------------------------------------------------------------------------
(* The store.                                                              *)

\* _history_entries: a file without history counts as the snapshot of its own revision.
Entries ==
    IF snapshots = <<>> /\ brief.revision > 0 THEN [r \in {brief.revision} |-> brief.document]
    ELSE snapshots

\* Faulty: the revision from before there was a history gets no snapshot of its own.
KeptFiles == snapshots

\* The snapshots _write goes on with, that of an older file included.
Kept == Entries

Publish(document, proposal) ==
    /\ brief.revision < MaxRevision
    /\ LET next == brief.revision + 1
       IN  snapshots' = [r \in DOMAIN Kept \cup {next} |-> IF r = next THEN document ELSE Kept[r]]
    /\ brief' = [brief EXCEPT !.revision = @ + 1, !.document = document, !.proposal = proposal]

\* A request names the revision (and the proposal) its page has loaded.  When these are not
\* the present ones it is refused and changes nothing, so that pages need not be modelled.
Save(document) ==
    /\ listed
    /\ Publish(document, brief.proposal)
    /\ UNCHANGED <<dispatching, listed, jobbing, faults>>

\* brief_changes and apply_brief_changes
Changes(candidate) == {s \in Sections : candidate[s] # brief.document[s]}
Merged(candidate, selected) ==
    [s \in Sections |-> IF s \in selected THEN candidate[s] ELSE brief.document[s]]

\* Nothing selected discards the proposal, even one of an older revision.
Review(selected) ==
    LET proposal == brief.proposal
    IN  /\ listed /\ proposal # None
        /\ IF selected = {} THEN brief' = [brief EXCEPT !.proposal = None] /\ UNCHANGED snapshots
           ELSE /\ proposal.base = brief.revision
                /\ selected \subseteq Changes(proposal.document)
                /\ Publish(Merged(proposal.document, selected), None)
        /\ UNCHANGED <<dispatching, listed, jobbing, faults>>

Restore(r) ==
    /\ listed /\ r \in DOMAIN Entries
    /\ Publish(Entries[r], brief.proposal)
    /\ UNCHANGED <<dispatching, listed, jobbing, faults>>

DeleteConversation ==
    /\ listed /\ listed' = FALSE
    /\ UNCHANGED <<brief, snapshots, dispatching, jobbing, faults>>

\* A chat message asks the model, then proposes its candidate on top of the revision from
\* before the call; when that is no longer the present one nothing happens, so that the step
\* is written for a chat still up to date.  Nobody looks whether the conversation exists.
Acceptable(base, candidate) ==
    brief.revision = base /\ brief.proposal = None /\ candidate # brief.document

Propose(candidate) ==
    /\ Acceptable(brief.revision, candidate)
    /\ brief' = [brief EXCEPT !.proposal = [base |-> brief.revision, document |-> candidate]]
    /\ UNCHANGED <<snapshots, dispatching, listed, jobbing, faults>>

-----------------------------------------------------------------------------
(* The handoff.                                                            *)

\* Faulty: an existing record is no obstacle while it is not yet submitted.
DispatchableAgain(r) == r > 0 /\ handoffs[r] # "submitted"

Dispatchable(r) == r > 0 /\ handoffs[r] = "none"

\* From the page or from a chat message, for the revision it has seen, which must be the
\* present one: the record is written before anything is submitted, once per revision.
Dispatch ==
    LET r == brief.revision
    IN  /\ Dispatchable(r)
        /\ handoffs' = [handoffs EXCEPT ![r] = "prepared"]
        /\ sending' = [sending EXCEPT ![r] = "prepared"]
        /\ UNCHANGED <<brief, snapshots, tasks, listed, jobbing, faults>>

\* Faulty: the text is read again when the task is created.
HandedTextLatest(r) == brief.document

\* What the record keeps of the revision it was prepared from.
HandedText(r) == Entries[r]

Create(r) == tasks' = [tasks EXCEPT ![r] = Append(@, HandedText(r))]

\* submit_task_from_chat, outside the lock; it may fail before or after the task exists.
Submit(r) ==
    /\ sending[r] = "prepared"
    /\ \/ /\ Create(r)
          /\ sending' = [sending EXCEPT ![r] = "answered"] /\ UNCHANGED faults
       \/ /\ Fault
          /\ sending' = [sending EXCEPT ![r] = "error"]
          /\ Create(r) \/ UNCHANGED tasks
    /\ UNCHANGED <<brief, snapshots, handoffs, listed, jobbing>>

\* The outcome is recorded, unless that fails.
Conclude(r) ==
    /\ sending[r] \in {"answered", "error"}
    /\ sending' = [sending EXCEPT ![r] = "no"]
    /\ \/ /\ handoffs' = [handoffs EXCEPT ![r] = IF sending[r] = "answered" THEN "submitted" ELSE "uncertain"]
          /\ UNCHANGED faults
       \/ Fault /\ UNCHANGED handoffs
    /\ UNCHANGED <<brief, snapshots, tasks, listed, jobbing>>

-----------------------------------------------------------------------------
(* Generation in the background.                                           *)

\* _read: an active job without a thread of this process has been interrupted.
Interrupted(jobs) ==
    [j \in Requests |-> IF jobs[j].status \in Active /\ j \notin live
                        THEN [jobs[j] EXCEPT !.status = "interrupted"] ELSE jobs[j]]

Query ==
    /\ listed
    /\ brief' = [brief EXCEPT !.jobs = Interrupted(@)]
    /\ UNCHANGED <<snapshots, dispatching, listed, jobbing, faults>>

\* Faulty: a request whose first attempt did not end well is run again.
UnknownOrEnded(job) == job = NoJob \/ job.status \in {"failed", "interrupted"}

Unknown(job) == job = NoJob

\* prepare_project_brief
Prepared == listed /\ brief.proposal = None

\* A repeated request is answered from the record, and changes nothing; so is one that meets
\* all threads busy, with other conversations.
StartJob(j) ==
    LET jobs == Interrupted(brief.jobs)
        job(status) == [base |-> brief.revision, status |-> status]
        Record(status) == brief' = [brief EXCEPT !.jobs = [jobs EXCEPT ![j] = job(status)]]
    IN  /\ Unknown(jobs[j]) /\ Prepared
        /\ \A k \in Requests : jobs[k].status \notin Active
        /\ \/ /\ Record("queued")
              /\ live' = live \cup {j}
              /\ thread' = [thread EXCEPT ![j] = "queued"] /\ UNCHANGED faults
           \/ \* It cannot be recorded, or its thread does not start.
              /\ Fault
              /\ \/ Record("failed")
                 \/ Record("queued")
                 \/ brief' = [brief EXCEPT !.jobs = jobs]
              /\ UNCHANGED <<live, thread>>
        /\ UNCHANGED <<snapshots, dispatching, listed, calls>>

\* _update, which needs the job to be this process's own still.
Update(j, status) ==
    LET jobs == Interrupted(brief.jobs)
    IN  brief' = [brief EXCEPT !.jobs = IF jobs[j].status \in Active THEN [jobs EXCEPT ![j].status = status] ELSE jobs]

Run(j) ==
    /\ thread[j] = "queued"
    /\ \/ /\ brief.jobs[j].status \in Active
          /\ Update(j, "running")
          /\ thread' = [thread EXCEPT ![j] = "asking"]
          /\ calls' = [calls EXCEPT ![j] = @ + 1] /\ UNCHANGED faults
       \/ /\ Fault
          /\ Update(j, "failed") \/ UNCHANGED brief
          /\ thread' = [thread EXCEPT ![j] = "ending"] /\ UNCHANGED calls
    /\ UNCHANGED <<snapshots, dispatching, listed, live>>

\* _finish: proposal and outcome are published together.
Finish(j, candidate) ==
    LET jobs == Interrupted(brief.jobs)
        base == jobs[j].base
        Outcome(status) == [jobs EXCEPT ![j].status = status]
    IN  /\ thread[j] = "asking"
        /\ thread' = [thread EXCEPT ![j] = "ending"]
        /\ brief' =
              IF ~jobs[j].status \in Active THEN [brief EXCEPT !.jobs = jobs]
              ELSE IF ~listed THEN [brief EXCEPT !.jobs = Outcome("failed")]
              ELSE IF brief.revision # base \/ brief.proposal # None
                   THEN [brief EXCEPT !.jobs = Outcome("conflict")]
              ELSE IF candidate = brief.document THEN [brief EXCEPT !.jobs = Outcome("no_changes")]
              ELSE [brief EXCEPT !.jobs = Outcome("review"), !.proposal = [base |-> base, document |-> candidate]]
        /\ UNCHANGED <<snapshots, dispatching, listed, live, calls, faults>>

\* The model fails, or the outcome cannot be saved; nor perhaps that it failed.
FinishFails(j) ==
    /\ thread[j] = "asking"
    /\ thread' = [thread EXCEPT ![j] = "ending"]
    /\ \/ Update(j, "failed") /\ UNCHANGED faults
       \/ Fault /\ UNCHANGED brief
    /\ UNCHANGED <<snapshots, dispatching, listed, live, calls>>

EndThread(j) ==
    /\ thread[j] = "ending"
    /\ thread' = [thread EXCEPT ![j] = "none"]
    /\ live' = live \ {j}
    /\ UNCHANGED <<brief, snapshots, dispatching, listed, calls, faults>>

-----------------------------------------------------------------------------
Crash ==
    /\ Fault
    /\ live' = {}
    /\ thread' = [j \in Requests |-> "none"]
    /\ sending' = [r \in Revisions |-> "no"]
    /\ UNCHANGED <<brief, snapshots, handoffs, tasks, listed, calls>>

Next ==
    \/ \E d \in Documents : Save(d) \/ Propose(d)
    \/ \E selected \in SUBSET Sections : Review(selected)
    \/ Dispatch \/ DeleteConversation \/ Query \/ Crash
    \/ \E r \in Revisions : Restore(r) \/ Submit(r) \/ Conclude(r)
    \/ \E j \in Requests :
          \/ StartJob(j) \/ Run(j) \/ FinishFails(j) \/ EndThread(j)
          \/ \E d \in Documents : Finish(j, d)

Spec == Init /\ [][Next]_vars

-----------------------------------------------------------------------------
(* Properties.                                                             *)

TypeOK ==
    /\ brief.revision \in Revisions /\ brief.document \in Documents
    /\ brief.proposal = None \/ brief.proposal.document \in Documents
    /\ \A j \in Requests : brief.jobs[j].status \in
          {"none", "queued", "running", "review", "no_changes", "conflict", "failed", "interrupted"}
    /\ DOMAIN snapshots \subseteq Revisions
    /\ handoffs \in [Revisions -> {"none", "prepared", "submitted", "uncertain"}]
    /\ sending \in [Revisions -> {"no", "prepared", "answered", "error"}]
    /\ thread \in [Requests -> {"none", "queued", "asking", "ending"}]
    /\ live \subseteq Requests
    /\ faults \in 0..MaxFaults

\* A revision becomes a task at most once, and the task has the text of that revision,
\* whatever is saved, repeated or interrupted between confirming it and submitting it.
OneFaithfulTask ==
    \A r \in Revisions :
        tasks[r] # <<>> => r \in DOMAIN Entries /\ tasks[r] = <<Entries[r]>>

\* A request asks the model, which is paid for, at most once; and a job that keeps others
\* from starting has a thread that will end it.
AskedOnce ==
    \A j \in Requests :
        /\ calls[j] <= 1
        /\ brief.jobs[j].status \in Active /\ j \in live => thread[j] # "none"

\* Whatever was once saved can be read again: no revision is changed or dropped.
HistoryKept ==
    [][\A r \in DOMAIN Entries : r \in DOMAIN Entries' /\ Entries'[r] = Entries[r]]_vars
=============================================================================
