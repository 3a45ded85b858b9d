----------------------------- MODULE Transcription -----------------------------
(***************************************************************************)
(* The recordings that are sent to the speech service (textai/              *)
(* transcription.py): a request submits a job, waits for it and deletes it, *)
(* and a sweep deletes the jobs that were left behind.  The user's audio is *)
(* at the provider as long as the job is.                                   *)
(***************************************************************************)
EXTENDS Naturals

CONSTANTS
    Requests,
    MaxRetries,  \* _SM_MAX_RETRIES
    JobTimeout,  \* _SM_JOB_TIMEOUT_SECONDS, in ticks
    StaleAge,    \* _SM_STALE_JOB_MINUTES, in ticks
    Interval,    \* _SM_SWEEP_INTERVAL_SECONDS, in ticks
    MaxFaults    \* bound: deletes that fail, and restarts

VARIABLES
    req,     \* the requests, [pc, tries]
    age,     \* the jobs at the provider; 0 is none
    sleep,   \* how long the sweeper sleeps yet
    swept,   \* the jobs the sweep has listed and not yet deleted
    faults

vars == <<req, age, sleep, swept, faults>>

Oldest == StaleAge + Interval * (MaxFaults + 1) + 1   \* ages beyond it are alike

Init ==
    /\ req = [r \in Requests |-> [pc |-> "new", tries |-> 0]]
    /\ age = [r \in Requests |-> 0]
    /\ sleep = Interval /\ swept = {} /\ faults = 0

Fault == faults < MaxFaults /\ faults' = faults + 1
To(r, pc) == req' = [req EXCEPT ![r].pc = pc]

\* A 429 is tried again; another error ends the request, and so does a reply
\* that is lost although the job was made.
Submit(r) ==
    /\ req[r].pc = "new"
    /\ \/ To(r, "waiting") /\ age' = [age EXCEPT ![r] = 1]
       \/ UNCHANGED age /\ \/ To(r, "over")
                           \/ req' = [req EXCEPT ![r].tries = @ + 1,
                                                 ![r].pc = IF req[r].tries + 1 = MaxRetries THEN "over" ELSE "new"]
       \/ To(r, "over") /\ age' = [age EXCEPT ![r] = 1]
    /\ UNCHANGED <<sleep, swept, faults>>

\* The transcript, the provider's error or the timeout.
Finish(r) ==
    /\ req[r].pc = "waiting"
    /\ To(r, "deleting")
    /\ UNCHANGED <<age, sleep, swept, faults>>

\* The finally; a delete that fails is logged.
DeleteJob(r) ==
    /\ req[r].pc = "deleting" /\ To(r, "over")
    /\ \/ age' = [age EXCEPT ![r] = 0] /\ UNCHANGED faults
       \/ Fault /\ UNCHANGED age
    /\ UNCHANGED <<sleep, swept>>

\* wait_for_completion gives up in time; a delete and a sweep are quick.
Tick ==
    /\ \A r \in Requests : /\ req[r].pc # "deleting"
                           /\ req[r].pc = "waiting" => age[r] <= JobTimeout
    /\ sleep > 0 /\ sleep' = sleep - 1
    /\ age' = [r \in Requests |-> IF age[r] \in {0, Oldest} THEN age[r] ELSE age[r] + 1]
    /\ UNCHANGED <<req, swept, faults>>

staleJob(a) == a > StaleAge

\* Mistake: only the jobs of requests the server still knows are listed.
knownJobs == {r \in Requests : req[r].pc # "over"}

listedJobs == Requests

\* run_speechmatics_sweeper: it sleeps, then it sweeps.
run_speechmatics_sweeper ==
    /\ sleep = 0 /\ swept = {}
    /\ LET stale == {r \in listedJobs : age[r] # 0 /\ staleJob(age[r])}
       IN  \/ swept' = stale /\ sleep' = (IF stale = {} THEN Interval ELSE 0) /\ UNCHANGED faults
           \/ sleep' = Interval /\ Fault /\ UNCHANGED swept
    /\ UNCHANGED <<req, age>>

sweep_stale_speechmatics_jobs(r) ==
    /\ r \in swept /\ swept' = swept \ {r}
    /\ sleep' = IF swept' = {} THEN Interval ELSE 0
    /\ \/ age' = [age EXCEPT ![r] = 0] /\ UNCHANGED faults
       \/ Fault /\ UNCHANGED age
    /\ UNCHANGED req

\* A restart of the server: nothing is awaited any more, and the sweeper sleeps anew.
Restart ==
    /\ Fault /\ req' = [r \in Requests |-> [req[r] EXCEPT !.pc = "over"]]
    /\ sleep' = Interval /\ swept' = {} /\ UNCHANGED age

Next ==
    \/ \E r \in Requests :
           Submit(r) \/ Finish(r) \/ DeleteJob(r) \/ sweep_stale_speechmatics_jobs(r)
    \/ Tick \/ run_speechmatics_sweeper \/ Restart

-------------------------------------------------------------------------------

\* A recording is at the provider as long as a request waits for it, and no
\* longer than until the sweep after it is stale, one interval more for each
\* failed call and each restart: whether its delete failed, its request was cut
\* off or the reply to its submission was lost.
AudioGoes ==
    \A r \in Requests :
        /\ req[r].pc = "waiting" => age[r] # 0
        /\ age[r] <= StaleAge + Interval * (1 + faults)
===============================================================================
