------------------------------ MODULE MapReduce ------------------------------
(***************************************************************************)
(* The analysis of log files by chunks (internal/analyzer): a goroutine    *)
(* per chunk, a bounded number at a time, asks the model about its chunk,  *)
(* with retries; the answers are then merged by one more question.         *)
(*                                                                         *)
(* What a chunk says and what the model answers is left out; that it is    *)
(* chunk i which was answered is kept.  Job 0 is the merging question,     *)
(* which runs in the caller and under the caller's context.                *)
(***************************************************************************)
EXTENDS Integers, FiniteSets

CONSTANTS N,            \* chunks
          Concurrency,  \* Spec.Concurrency
          MaxRetries    \* Spec.MaxRetries

MapReduceAssumption ==
    /\ N \in Nat \ {0}
    /\ Concurrency \in Nat \ {0}
    /\ MaxRetries \in Nat

Chunks == 1..N
Jobs   == 0..N

VARIABLES
    next,      \* the chunk mapChunks is at; N + 1 behind the loop
    wg,        \* the WaitGroup's counter
    slots,     \* slots of sem that are taken
    stopped,   \* contexts that are done: of {"user", "map"}
    job,       \* where each job is
    attempt,   \* its attempt in callWithBackoff
    results,   \* chunks whose results[i] was set
    errs,      \* errs[i]: "none", "cancelled", or the "cause" of a failure
    answer     \* what Analyze returned: {"report"}, the errors, or not yet {}

vars == <<next, wg, slots, stopped, job, attempt, results, errs, answer>>

Init ==
    /\ next = 1 /\ wg = 0 /\ slots = 0
    /\ stopped = {}
    /\ job = [i \in Jobs |-> "new"]
    /\ attempt = [i \in Jobs |-> 0]
    /\ results = {}
    /\ errs = [i \in Jobs |-> "none"]
    /\ answer = {}

\* The context a job runs under is done.  mapChunks derives its own from the
\* caller's.
Cancelled(i) == IF i = 0 THEN "user" \in stopped ELSE stopped # {}

---------------------------------------------------------------------------
(* mapChunks: one round of the loop per chunk, then wg.Wait().             *)

\* Mutant of TakeSlot: there is always room.
TakeAnySlot(i) ==
    /\ i = next
    /\ next' = i + 1
    /\ wg' = wg + 1 /\ slots' = slots + 1
    /\ job' = [job EXCEPT ![i] = "parse"]
    /\ UNCHANGED <<stopped, attempt, results, errs, answer>>

\* Mutant of TakeSlot: the goroutines are to be started behind the loop, which more chunks
\* than slots never reach the end of.
TakeSlotOnly(i) ==
    /\ i = next /\ slots < Concurrency
    /\ next' = i + 1
    /\ wg' = wg + 1 /\ slots' = slots + 1
    /\ UNCHANGED <<stopped, job, attempt, results, errs, answer>>

TakeSlot(i) ==
    /\ i = next /\ slots < Concurrency
    /\ next' = i + 1
    /\ wg' = wg + 1 /\ slots' = slots + 1
    /\ job' = [job EXCEPT ![i] = "parse"]
    /\ UNCHANGED <<stopped, attempt, results, errs, answer>>

\* Mutant of GiveUp: the chunk is skipped without a word.
GiveUpSilently(i) ==
    /\ i = next /\ Cancelled(i)
    /\ next' = i + 1
    /\ UNCHANGED <<wg, slots, stopped, job, attempt, results, errs, answer>>

\* The other branch of the select.  When both are ready it takes either.
GiveUp(i) ==
    /\ i = next /\ Cancelled(i)
    /\ next' = i + 1
    /\ errs' = [errs EXCEPT ![i] = "cancelled"]
    /\ UNCHANGED <<wg, slots, stopped, job, attempt, results, answer>>

---------------------------------------------------------------------------
(* analyzeChunk and callWithBackoff.                                       *)

\* A job is over: the chunk's goroutine frees its slot and leaves the group, and
\* cancels its siblings if it failed.
Ends(i, from, err) ==
    /\ job[i] = from /\ job' = [job EXCEPT ![i] = "over"]
    /\ errs' = [errs EXCEPT ![i] = err]
    /\ results' = IF err = "none" THEN results \cup {i} ELSE results
    /\ stopped' = IF err # "none" /\ i # 0 THEN stopped \cup {"map"} ELSE stopped
    /\ IF i = 0 THEN UNCHANGED <<wg, slots>> ELSE wg' = wg - 1 /\ slots' = slots - 1
    /\ UNCHANGED <<next, attempt, answer>>

Goes(i, from, to) ==
    /\ job[i] = from /\ job' = [job EXCEPT ![i] = to]
    /\ UNCHANGED <<next, wg, slots, stopped, results, errs, answer>>

\* The merging question has nothing to parse.
Parse(i) == Goes(i, "parse", "try") /\ UNCHANGED attempt

ParseFails(i) == i # 0 /\ Ends(i, "parse", "cause")

Call(i) == ~Cancelled(i) /\ Goes(i, "try", "call") /\ UNCHANGED attempt

NoCall(i) == Cancelled(i) /\ Ends(i, "try", "cancelled")

Answered(i) == Ends(i, "call", "none")

\* An error that is not retryable, or the last attempt.
CallFails(i) == Ends(i, "call", "cause")

\* The client gives up because its context is done: "context canceled" is not
\* among the retryable markers.
CallCancelled(i) == Cancelled(i) /\ Ends(i, "call", "cancelled")

Retry(i) ==
    /\ attempt[i] < MaxRetries
    /\ Goes(i, "call", "sleep") /\ UNCHANGED attempt

Wake(i) ==
    /\ Goes(i, "sleep", "try")
    /\ attempt' = [attempt EXCEPT ![i] = @ + 1]

SleepCancelled(i) == Cancelled(i) /\ Ends(i, "sleep", "cancelled")

---------------------------------------------------------------------------
(* Analyze, behind the map step.                                           *)

Waited == next = N + 1 /\ wg = 0 /\ answer = {}

Failed == {i \in Chunks : errs[i] # "none"}

\* Mutant of Joined: the first error alone is returned.
FirstError == {errs[i] : i \in {j \in Failed : \A k \in Failed : j <= k}}

\* errors.Join
Joined == {errs[i] : i \in Failed}

ReturnError ==
    /\ Waited /\ Failed # {}
    /\ answer' = Joined
    /\ UNCHANGED <<next, wg, slots, stopped, job, attempt, results, errs>>

\* One chunk's answer is the report; several are merged.  The map context is
\* cancelled when mapChunks returns.
StartReduce ==
    /\ Waited /\ Failed = {} /\ N > 1 /\ job[0] = "new"
    /\ job' = [job EXCEPT ![0] = "parse"]
    /\ stopped' = stopped \cup {"map"}
    /\ UNCHANGED <<next, wg, slots, attempt, results, errs, answer>>

\* The merged answer, or, if merging failed, the answers one after the other.
ReturnReport ==
    /\ Waited /\ Failed = {}
    /\ N = 1 \/ job[0] = "over"
    /\ answer' = {"report"}
    /\ UNCHANGED <<next, wg, slots, stopped, job, attempt, results, errs>>

\* Ctrl+C.
Interrupt ==
    /\ answer = {} /\ "user" \notin stopped
    /\ stopped' = stopped \cup {"user"}
    /\ UNCHANGED <<next, wg, slots, job, attempt, results, errs, answer>>

Work(i) ==
    \/ Parse(i) \/ ParseFails(i) \/ Call(i) \/ NoCall(i) \/ Answered(i) \/ CallFails(i)
    \/ CallCancelled(i) \/ Retry(i) \/ Wake(i) \/ SleepCancelled(i)

Main ==
    \/ \E i \in Chunks : TakeSlot(i) \/ GiveUp(i)
    \/ ReturnError \/ StartReduce \/ ReturnReport

Next == Main \/ (\E i \in Jobs : Work(i)) \/ Interrupt

Spec == Init /\ [][Next]_vars

\* The Go scheduler runs every goroutine, and a call of the model returns: the
\* HTTP clients have timeouts.
Fairness == WF_vars(Main) /\ \A i \in Jobs : WF_vars(Work(i))

FairSpec == Spec /\ Fairness

---------------------------------------------------------------------------

TypeOK ==
    /\ next \in 1..(N + 1)
    /\ wg \in 0..N /\ slots \in 0..Concurrency
    /\ stopped \subseteq {"user", "map"}
    /\ job \in [Jobs -> {"new", "parse", "try", "call", "sleep", "over"}]
    /\ attempt \in [Jobs -> 0..MaxRetries]
    /\ results \subseteq Jobs
    /\ errs \in [Jobs -> {"none", "cancelled", "cause"}]
    /\ answer \subseteq {"report", "cancelled", "cause"}

\* A report speaks for every chunk: one that was given up when the context ended,
\* by a failure or by Ctrl+C at any moment, is an error and never just missing
\* (analyzer.go:173-181).
ReportIsWhole == answer = {"report"} => Chunks \subseteq results

\* A failed analysis says why: the failure of one chunk cancels its siblings,
\* whose "context canceled" must not be all the user gets to see, unless the user
\* was who stopped it.
FailureHasItsCause ==
    answer \notin {{}, {"report"}} /\ "user" \notin stopped => "cause" \in answer

\* Analyze returns: no goroutine that is waited for has not been started, and
\* none waits for a slot that is never freed.
Returns == <>(answer # {})
=============================================================================
