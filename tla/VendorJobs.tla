------------------------------ MODULE VendorJobs ------------------------------
(***************************************************************************)
(* Calls that take a vendor more than one exchange: a file goes up before  *)
(* it can be transcribed, a job is handed in and asked about until it is   *)
(* done, pictures are fetched one by one, a decision is one pass for each  *)
(* question.  Between two exchanges the caller may hang up, the vendor may *)
(* be slow or broken, and any answer may get lost.                         *)
(***************************************************************************)
EXTENDS Naturals, FiniteSets, SequencesExt

CONSTANTS
    Users,       \* the requests that call an adapter
    Patience,    \* how often a deadline's wait is slept through
    MaxTroubles  \* bound: refused, lost or useless answers of all calls together

ASSUME VendorJobsAssumption == Patience \in Nat \ {0} /\ MaxTroubles \in Nat

-----------------------------------------------------------------------------
(***************************************************************************)
(* The adapters, as what they do in which order.                           *)
(***************************************************************************)

\* put: a file; active: wait for it; ask: one exchange that answers; submit: a
\* job; await: wait for it; fetch: an exchange the answer needs; extra: one it
\* does not; pass: one of several questions.
Stages == {"put", "active", "ask", "submit", "await", "fetch", "extra", "pass"}

TranscribeInteraction == <<"put", "active", "ask">>
TranscribeGenerate == <<"ask">>
TranscribeGenerateWithFile == <<"put", "active", "ask">>
ReplicateChat == <<"submit", "await">>
ReplicateImage == <<"submit", "await", "fetch", "fetch">>
AssemblyTranscribe == <<"put", "submit", "await">>
SpeechmaticsTranscribe == <<"submit", "await", "fetch">>
SpeechmaticsTimings == <<"submit", "await", "fetch", "extra">>
GammaChat == <<"submit", "await">>
DashScopeImage == <<"ask", "fetch", "fetch">>
DecideLocal == <<"pass", "pass", "pass">>

Plans == [interaction |-> TranscribeInteraction, generate |-> TranscribeGenerate,
          withFile |-> TranscribeGenerateWithFile, replicateChat |-> ReplicateChat,
          replicateImage |-> ReplicateImage, assembly |-> AssemblyTranscribe,
          speechmatics |-> SpeechmaticsTranscribe, timings |-> SpeechmaticsTimings,
          gamma |-> GammaChat, dashscope |-> DashScopeImage, local |-> DecideLocal]

\* The wait for a file, or for a job: the states that end it well and badly, and
\* whether any other is waited through, for how long.  "odd" is a word of the
\* vendor's the adapter does not know.
AwaitFileActive == [good |-> {"done"}, bad |-> {"failed"}, timed |-> TRUE]
ReplicateAwait == [good |-> {"done"}, bad |-> {"failed"}, timed |-> TRUE]
AssemblyAwait == [good |-> {"done"}, bad |-> {"failed", "odd"}, timed |-> FALSE]
SpeechmaticsAwait == [good |-> {"done"}, bad |-> {"failed", "odd"}, timed |-> FALSE]
GammaAwait == [good |-> {"done"}, bad |-> {"failed"}, timed |-> TRUE]

Waits == [interaction |-> AwaitFileActive, withFile |-> AwaitFileActive,
          replicateChat |-> ReplicateAwait, replicateImage |-> ReplicateAwait,
          assembly |-> AssemblyAwait, speechmatics |-> SpeechmaticsAwait,
          timings |-> SpeechmaticsAwait, gamma |-> GammaAwait]

\* Those that delete what they uploaded; AssemblyAI's file expires by itself.
Tidies == {"interaction", "withFile"}

\* Asked to hold the create request open, the vendor may answer a finished job.
HoldsOpen == {"replicateChat", "replicateImage"}

VARIABLES
    task,      \* task[u]: the adapter's call
    upload,    \* upload[u]: what the vendor keeps of its file
    work,      \* work[u]: what the vendor makes of its job
    troubles   \* answers gone wrong so far

vendorVars == <<task, upload, work, troubles>>

\* todo: the stages left; clock: sleeps until the deadline; gone: the context is
\* done; name, uri: the answer to the upload names the file, and says where it
\* is; tried: its deletion was tried; usage: what the answer so far reports;
\* broken: questions without an answer; failure: one of them was asked.
Task == [pc : {"idle", "next", "wait", "tidy", "over"}, plan : DOMAIN Plans, todo : Seq(Stages),
         clock : 0 .. Patience, gone : BOOLEAN, name : BOOLEAN, uri : BOOLEAN, tried : BOOLEAN,
         usage : Nat, broken : Nat, failure : BOOLEAN, result : {"none", "answered", "failed"}]

Progress == {"none", "running", "done", "failed", "odd", "deleted"}

VendorJobsTypeOK ==
    /\ task \in [Users -> Task]
    /\ upload \in [Users -> Progress] /\ work \in [Users -> Progress \ {"deleted"}]
    /\ troubles \in 0 .. MaxTroubles

Rested(p) ==
    [pc |-> "idle", plan |-> p, todo |-> <<>>, clock |-> 0, gone |-> FALSE, name |-> FALSE,
     uri |-> FALSE, tried |-> FALSE, usage |-> 0, broken |-> 0, failure |-> FALSE, result |-> "none"]

VendorJobsInit ==
    /\ \E plan \in [Users -> DOMAIN Plans] : task = [u \in Users |-> Rested(plan[u])]
    /\ upload = [u \in Users |-> "none"] /\ work = [u \in Users |-> "none"]
    /\ troubles = 0

-----------------------------------------------------------------------------
(***************************************************************************)
(* The adapter.                                                            *)
(***************************************************************************)

Invoke(u) ==
    /\ task[u].pc = "idle"
    /\ task' = [task EXCEPT ![u].pc = "next", ![u].todo = Plans[task[u].plan]]
    /\ UNCHANGED <<upload, work, troubles>>

Stage(u) == Head(task[u].todo)

Facing(u, stage) == task[u].pc = "next" /\ task[u].todo # <<>> /\ Stage(u) = stage

\* The call returns: deferred first, the deletion of what it uploaded.
Returning(q, result) ==
    [q EXCEPT !.pc = IF q.plan \in Tidies /\ q.name THEN "tidy" ELSE "over",
              !.todo = <<>>, !.clock = 0, !.result = result]

\* The stage is done.
Past(q) ==
    IF Len(q.todo) = 1 THEN Returning(q, "answered")
    ELSE [q EXCEPT !.pc = "next", !.todo = Tail(@), !.clock = 0]

\* An exchange comes to nothing: it was not sent (the context is done), was
\* refused, or its answer is lost or of no use.
Upset(u) ==
    \/ task[u].gone /\ UNCHANGED troubles
    \/ ~task[u].gone /\ troubles < MaxTroubles /\ troubles' = troubles + 1

Works(u) == ~task[u].gone /\ UNCHANGED troubles

\* uploadFile, upload: the vendor has the file, and says how far it got with it.
\* A file without a name is not waited for, nor one that is ready at once.
Put(u, named, state) ==
    /\ Facing(u, "put") /\ Works(u)
    /\ state # "running" => task[u].plan \in Tidies
    /\ task' = [task EXCEPT ![u] =
         LET q == [Past(@) EXCEPT !.name = named, !.uri = TRUE]
         IN  IF q.plan \notin Tidies THEN q
             ELSE IF ~named \/ state \in AwaitFileActive.good THEN Past(q)
             ELSE IF state \in AwaitFileActive.bad THEN Returning(q, "failed")
             ELSE q]
    /\ upload' = [upload EXCEPT ![u] = state]
    /\ UNCHANGED work

\* ... or has it, and answers without saying where: the call fails there and
\* then, and the name that answer may give is not used.
PutWithoutURI(u, named) ==
    /\ Facing(u, "put") /\ ~task[u].gone /\ Upset(u)
    /\ task[u].plan \in Tidies
    /\ task' = [task EXCEPT ![u] = [Returning(@, "failed") EXCEPT !.name = named, !.uri = FALSE]]
    /\ upload' = [upload EXCEPT ![u] = "running"]
    /\ UNCHANGED work

\* ... or has it although the answer never came.
PutFails(u, arrived) ==
    /\ Facing(u, "put") /\ Upset(u)
    /\ arrived => ~task[u].gone
    /\ task' = [task EXCEPT ![u] = Returning(@, "failed")]
    /\ upload' = IF arrived THEN [upload EXCEPT ![u] = "running"] ELSE upload
    /\ UNCHANGED work

\* create, submit: a job is born; Replicate's may be done at once.
Submit(u, done) ==
    /\ Facing(u, "submit") /\ Works(u)
    /\ done => task[u].plan \in HoldsOpen
    /\ task' = [task EXCEPT ![u] = IF done THEN Past(Past(@)) ELSE Past(@)]
    /\ work' = [work EXCEPT ![u] = IF done THEN "done" ELSE "running"]
    /\ UNCHANGED upload

SubmitFails(u, arrived) ==
    /\ Facing(u, "submit") /\ Upset(u)
    /\ arrived => ~task[u].gone
    /\ task' = [task EXCEPT ![u] = Returning(@, "failed")]
    /\ work' = IF arrived THEN [work EXCEPT ![u] = "running"] ELSE work
    /\ UNCHANGED upload

Waiting(u) == Facing(u, "active") \/ Facing(u, "await")

\* A deadline is set.
StartWait(u) ==
    /\ Waiting(u)
    /\ task' = [task EXCEPT ![u].pc = "wait", ![u].clock = Patience]
    /\ UNCHANGED <<upload, work, troubles>>

State(u) == IF Stage(u) = "active" THEN upload[u] ELSE work[u]

\* Variant: the deadline is set again by every poll.
PollForever(u) ==
    /\ task[u].pc = "wait" /\ Works(u)
    /\ task' = [task EXCEPT ![u] =
         IF State(u) \in Waits[@.plan].good THEN Past(@)
         ELSE IF State(u) \in Waits[@.plan].bad THEN Returning(@, "failed")
         ELSE [@ EXCEPT !.clock = Patience]]
    /\ UNCHANGED <<upload, work>>

\* awaitFileActive, await, poll: sleep, ask, judge.
Poll(u) ==
    /\ task[u].pc = "wait" /\ Works(u)
    /\ task' = [task EXCEPT ![u] =
         IF State(u) \in Waits[@.plan].good THEN Past(@)
         ELSE IF State(u) \in Waits[@.plan].bad THEN Returning(@, "failed")
         ELSE IF Waits[@.plan].timed /\ @.clock = 0 THEN Returning(@, "failed")
         ELSE [task[u] EXCEPT !.clock = IF @ = 0 THEN 0 ELSE @ - 1]]
    /\ UNCHANGED <<upload, work>>

\* One poll that goes wrong ends the wait; the job goes on at the vendor's.
PollFails(u) ==
    /\ task[u].pc = "wait" /\ Upset(u)
    /\ task' = [task EXCEPT ![u] = Returning(@, "failed")]
    /\ UNCHANGED <<upload, work>>

\* generateContent, interactions, a transcript, a download: what the answer
\* needs.  usage: what the vendor says of it, nothing perhaps.
Exchange(u, n) ==
    /\ Facing(u, "ask") \/ Facing(u, "fetch") \/ Facing(u, "extra")
    /\ Works(u)
    /\ task' = [task EXCEPT ![u] = Past([task[u] EXCEPT !.usage = @ + n])]
    /\ UNCHANGED <<upload, work>>

ExchangeFails(u) ==
    /\ Facing(u, "ask") \/ Facing(u, "fetch")
    /\ Upset(u)
    /\ task' = [task EXCEPT ![u] = Returning(@, "failed")]
    /\ UNCHANGED <<upload, work>>

\* Word timings that cannot be had are done without.
FetchSegments(u) ==
    /\ Facing(u, "extra") /\ Upset(u)
    /\ task' = [task EXCEPT ![u] = Past(@)]
    /\ UNCHANGED <<upload, work>>

\* allFailed, once every question was put.
Decided(q) ==
    IF Len(q.todo) > 1 THEN [q EXCEPT !.todo = Tail(@)]
    ELSE Returning(q, IF q.failure /\ q.broken = Len(DecideLocal) THEN "failed" ELSE "answered")

OptionProbabilities(u) ==
    /\ Facing(u, "pass") /\ Works(u)
    /\ task' = [task EXCEPT ![u] = Decided([task[u] EXCEPT !.usage = @ + 1])]
    /\ UNCHANGED <<upload, work>>

\* Variant: the first question that fails ends the decision.
PassFailsAll(u) ==
    /\ Facing(u, "pass") /\ Upset(u)
    /\ task' = [task EXCEPT ![u] =
         Returning([task[u] EXCEPT !.broken = @ + 1, !.failure = TRUE], "failed")]
    /\ UNCHANGED <<upload, work>>

\* One unanswerable question does not throw away the rest.
PassFails(u) ==
    /\ Facing(u, "pass") /\ Upset(u)
    /\ task' = [task EXCEPT ![u] = Decided([task[u] EXCEPT !.broken = @ + 1, !.failure = TRUE])]
    /\ UNCHANGED <<upload, work>>

\* resolveQuestion: one without options of its own is not put to the model.
ResolveQuestion(u) ==
    /\ Facing(u, "pass")
    /\ task' = [task EXCEPT ![u] = Decided([task[u] EXCEPT !.broken = @ + 1])]
    /\ UNCHANGED <<upload, work, troubles>>

\* Variant: the deletion is sent under the caller's context.
DeleteFileAttached(u, deleted) ==
    /\ task[u].pc = "tidy"
    /\ deleted \/ troubles < MaxTroubles \/ task[u].gone
    /\ troubles' = IF deleted \/ task[u].gone THEN troubles ELSE troubles + 1
    /\ task' = [task EXCEPT ![u].pc = "over", ![u].tried = ~task[u].gone]
    /\ upload' = IF deleted /\ ~task[u].gone THEN [upload EXCEPT ![u] = "deleted"] ELSE upload
    /\ UNCHANGED work

\* deleteFile, under a context of its own: tried once, whoever has hung up.
DeleteFile(u, deleted) ==
    /\ task[u].pc = "tidy"
    /\ deleted \/ troubles < MaxTroubles
    /\ troubles' = IF deleted THEN troubles ELSE troubles + 1
    /\ task' = [task EXCEPT ![u].pc = "over", ![u].tried = TRUE]
    /\ upload' = IF deleted THEN [upload EXCEPT ![u] = "deleted"] ELSE upload
    /\ UNCHANGED work

-----------------------------------------------------------------------------
(***************************************************************************)
(* The caller and the vendor.                                              *)
(***************************************************************************)

HangUp(u) ==
    /\ task[u].pc \in {"next", "wait", "tidy"} /\ ~task[u].gone
    /\ task' = [task EXCEPT ![u].gone = TRUE]
    /\ UNCHANGED <<upload, work, troubles>>

\* A vendor gets on with a file or a job, or never does.
Decode(u, to) ==
    /\ upload[u] = "running" /\ to \in {"done", "failed", "odd"}
    /\ upload' = [upload EXCEPT ![u] = to]
    /\ UNCHANGED <<task, work, troubles>>

Work(u, to) ==
    /\ work[u] = "running" /\ to \in {"done", "failed", "odd"}
    /\ work' = [work EXCEPT ![u] = to]
    /\ UNCHANGED <<task, upload, troubles>>

Adapter(u) ==
    \/ \E n \in BOOLEAN, s \in Progress \ {"none", "deleted"} : Put(u, n, s)
    \/ \E n \in BOOLEAN : PutWithoutURI(u, n)
    \/ \E n \in BOOLEAN : PutFails(u, n) \/ Submit(u, n) \/ SubmitFails(u, n)
    \/ StartWait(u) \/ Poll(u) \/ PollFails(u)
    \/ \E n \in {0, 1} : Exchange(u, n)
    \/ ExchangeFails(u) \/ FetchSegments(u) \/ OptionProbabilities(u) \/ PassFails(u)
    \/ ResolveQuestion(u)
    \/ \E d \in BOOLEAN : DeleteFile(u, d)

VendorJobsNext ==
    \E u \in Users :
        \/ Invoke(u) \/ Adapter(u) \/ HangUp(u)
        \/ \E to \in Progress : Decode(u, to) \/ Work(u, to)

\* The adapter goes on without waiting for trouble: every exchange ends, for the
\* HTTP clients have timeouts, and sleeps end; a vendor need not finish anything,
\* nor break anything, nor a caller hang up.
VendorJobsFairness == \A u \in Users : WF_vendorVars(Adapter(u) /\ UNCHANGED troubles)

VendorJobsSpec == VendorJobsInit /\ [][VendorJobsNext]_vendorVars /\ VendorJobsFairness

-----------------------------------------------------------------------------
(***************************************************************************)
(* What makes it correct.                                                  *)
(***************************************************************************)

\* What was uploaded for one transcript does not stay: when a call is over, a
\* file the vendor named and placed is gone or its deletion was tried; also when
\* the wait for it failed or the caller hung up in the middle.  A file whose
\* answer was lost, or names it without a URI, is left to expire.
FilesTidied ==
    \A u \in Users : LET q == task[u] IN
        /\ q.pc = "over" /\ q.plan \in Tidies /\ q.name /\ q.uri
        /\ upload[u] \notin {"none", "deleted"}
        => q.tried

\* A decision fails if and only if none of its questions was answered and the
\* model was asked in vain, and it reports what all the answered ones used,
\* whichever failed in between.
RestIsKept ==
    \A u \in Users : LET q == task[u] IN
        q.plan = "local" /\ q.pc = "over" =>
            /\ q.usage + q.broken = Len(DecideLocal)
            /\ q.result = "failed" <=> q.usage = 0 /\ q.failure

\* A vendor that never gets done cannot hold a caller for ever where the adapter
\* sets a deadline; the others wait as long as their caller does.
EndsByItself ==
    \A u \in Users :
        task[u].pc = "next" /\ (task[u].plan \in DOMAIN Waits => Waits[task[u].plan].timed)
            ~> task[u].pc = "over"

=============================================================================
