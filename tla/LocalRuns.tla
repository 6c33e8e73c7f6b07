------------------------------ MODULE LocalRuns ------------------------------
(***************************************************************************)
(* Governed runs without a database (run_registry.py, run_poc.py, the      *)
(* local branches of api.py and reviewer_runtime.py): each run allocates a *)
(* directory and keeps its summary there, one pointer file names the       *)
(* latest summary, and reviewers and operators act on whatever the pointer *)
(* names.  Requests run in the server's thread pool, without a lock.       *)
(***************************************************************************)
EXTENDS Integers, FiniteSets, FiniteSetsExt

CONSTANTS
  LocalRun,      \* runs started within one second: their names collide
  Actor,         \* requests in flight, each with its own principal
  Nobody,        \* no claim
  NoSummary,     \* no file, or nothing read
  NoDir,         \* no directory, or no pointer file
  MaxRequests    \* bound: requests that pass their first check

ASSUME LocalAssumption == IsFiniteSet(LocalRun) /\ MaxRequests \in Nat

Decision == {"pending", "approved", "rejected"}

(* The suffix of a directory's name: none is 0.                             *)
Dir == 0..Cardinality(LocalRun)

Summary ==
  [run : LocalRun,
   stage : {"awaiting_review", "writer"},
   claimed_by : Actor \cup {Nobody},
   decision : Decision,
   checkpoint : BOOLEAN]      \* it holds local_review_checkpoint

VARIABLES
  dirs,       \* directories that exist
  dir,        \* per run: the directory it allocated
  step,       \* per run: how far run_poc has come
  file,       \* per directory: run_summary.json as last written in full
  torn,       \* directories whose file is truncated and not yet rewritten
  pointer,    \* latest_run_pointer.json: a directory
  handler,    \* per actor: its request
  requested,  \* requests so far
  recorded,   \* decisions answered with 200: [run, decision]
  released    \* releases by resume: [run, checkpoint]

localVars == <<dirs, dir, step, file, torn, pointer, handler, requested,
               recorded, released>>

NoHandler == [pc |-> "idle"]

(* "approved" has read the approval, "writing" and "torn" hold what was     *)
(* read, what is to be written, and where.                                  *)
Handler ==
  {NoHandler}
  \cup [pc : {"approved"}, run : LocalRun]
  \cup [pc : {"writing", "pointed", "torn"}, what : {"claim", "decide", "release"},
        path : Dir, read : Decision, write : Summary]

LocalTypeOK ==
  /\ dirs \subseteq Dir
  /\ dir \in [LocalRun -> Dir \cup {NoDir}]
  /\ step \in [LocalRun -> {"new", "named", "working", "saved", "latest", "attached",
                            "rewriting", "done", "refused", "crashed"}]
  /\ file \in [Dir -> Summary \cup {NoSummary}]
  /\ torn \subseteq Dir
  /\ pointer \in Dir \cup {NoDir}
  /\ handler \in [Actor -> Handler]
  /\ requested \in 0..MaxRequests
  /\ recorded \subseteq [run : LocalRun, decision : Decision]
  /\ released \subseteq [run : LocalRun, checkpoint : BOOLEAN]

LocalInit ==
  /\ dirs = {}
  /\ dir = [r \in LocalRun |-> NoDir]
  /\ step = [r \in LocalRun |-> "new"]
  /\ file = [d \in Dir |-> NoSummary]
  /\ torn = {}
  /\ pointer = NoDir
  /\ handler = [a \in Actor |-> NoHandler]
  /\ requested = 0
  /\ recorded = {}
  /\ released = {}

----------------------------------------------------------------------------
(* run_poc, up to the gate.                                                 *)

(* The first name nobody has made a directory of yet.                       *)
allocate_run_dir(r) ==
  /\ step[r] = "new"
  /\ dir' = [dir EXCEPT ![r] = Min(Dir \ dirs)]
  /\ step' = [step EXCEPT ![r] = "named"]
  /\ UNCHANGED <<dirs, file, torn, pointer, handler, requested,
                 recorded, released>>

(* Mutant: exist_ok=True.                                                   *)
MakeDirectory_EXIST_OK(r) ==
  /\ step[r] = "named"
  /\ dirs' = dirs \cup {dir[r]}
  /\ step' = [step EXCEPT ![r] = "working"]
  /\ UNCHANGED <<dir, file, torn, pointer, handler, requested,
                 recorded, released>>

(* mkdir(exist_ok=False): the later of two runs with one name is lost.      *)
MakeDirectory(r) ==
  /\ step[r] = "named"
  /\ dirs' = dirs \cup {dir[r]}
  /\ step' = [step EXCEPT ![r] = IF dir[r] \in dirs THEN "refused" ELSE "working"]
  /\ UNCHANGED <<dir, file, torn, pointer, handler, requested,
                 recorded, released>>

(* What the run itself knows of its review, at any time, with the           *)
(* checkpoint it attaches before each of its writes.                        *)
Pending(r) ==
  [run |-> r, stage |-> "awaiting_review", claimed_by |-> Nobody,
   decision |-> "pending", checkpoint |-> TRUE]

(* The workflow has stopped at the gate; the summary is written before      *)
(* anybody can know of the run.                                             *)
SaveSummary(r) ==
  /\ step[r] = "working"
  /\ file' = [file EXCEPT ![dir[r]] = Pending(r)]
  /\ step' = [step EXCEPT ![r] = "saved"]
  /\ UNCHANGED <<dirs, dir, torn, pointer, handler, requested,
                 recorded, released>>

(* update_run_pointers replaces both pointer files; the stores and          *)
(* projections are synchronised after it, while the run can be reviewed.    *)
PublishPointer(r) ==
  /\ step[r] = "saved"
  /\ pointer' = dir[r]
  /\ step' = [step EXCEPT ![r] = "latest"]
  /\ UNCHANGED <<dirs, dir, file, torn, handler, requested,
                 recorded, released>>

(* attach_local_review_checkpoint once more, and the pointers again.        *)
AttachCheckpoint(r) ==
  /\ step[r] = "latest"
  /\ pointer' = dir[r]
  /\ step' = [step EXCEPT ![r] = "attached"]
  /\ UNCHANGED <<dirs, dir, file, torn, handler, requested,
                 recorded, released>>

(* sync_sources raises: the summary is rewritten all the same, the pointers *)
(* are not.                                                                 *)
SyncFails(r) ==
  /\ step[r] = "latest"
  /\ step' = [step EXCEPT ![r] = "attached"]
  /\ UNCHANGED <<dirs, dir, file, torn, pointer, handler, requested,
                 recorded, released>>

OpenSummary(r) ==
  /\ step[r] = "attached"
  /\ torn' = torn \cup {dir[r]}
  /\ step' = [step EXCEPT ![r] = "rewriting"]
  /\ UNCHANGED <<dirs, dir, file, pointer, handler, requested,
                 recorded, released>>

(* The run's own summary, as it was when the workflow stopped.              *)
RewriteSummary(r) ==
  /\ step[r] = "rewriting"
  /\ file' = [file EXCEPT ![dir[r]] = Pending(r)]
  /\ torn' = torn \ {dir[r]}
  /\ step' = [step EXCEPT ![r] = "done"]
  /\ UNCHANGED <<dirs, dir, pointer, handler, requested,
                 recorded, released>>

----------------------------------------------------------------------------
(* Requests.                                                                *)

(* load_latest_run_summary: nothing for a file that does not parse.         *)
Readable == pointer # NoDir /\ pointer \notin torn /\ file[pointer] # NoSummary

Latest == file[pointer]

Handle(a, what, new) ==
  /\ requested < MaxRequests
  /\ requested' = requested + 1
  /\ handler' = [handler EXCEPT ![a] =
       [pc |-> "writing", what |-> what, path |-> pointer,
        read |-> Latest.decision, write |-> new]]
  /\ UNCHANGED <<dirs, dir, step, file, torn, pointer, recorded, released>>

(* _mutate_local_review_assignment: the status stays awaiting_review after  *)
(* a decision.                                                              *)
Claim(a) ==
  /\ handler[a] = NoHandler
  /\ Readable
  /\ Latest.stage = "awaiting_review"
  /\ Latest.claimed_by \in {Nobody, a}
  /\ Handle(a, "claim", [Latest EXCEPT !.claimed_by = a])

Unclaim(a) ==
  /\ handler[a] = NoHandler
  /\ Readable
  /\ Latest.stage = "awaiting_review"
  /\ Latest.claimed_by = a
  /\ Handle(a, "claim", [Latest EXCEPT !.claimed_by = Nobody])

(* Mutant: the approval status is not looked at.                            *)
Undecided_ANY(summary) == TRUE

Undecided(summary) == summary.decision = "pending"

(* _record_local_reviewer_decision.                                         *)
Decide(a, decision) ==
  /\ handler[a] = NoHandler
  /\ Readable
  /\ Latest.stage = "awaiting_review"
  /\ Undecided(Latest)
  /\ Latest.claimed_by = a
  /\ Handle(a, "decide", [Latest EXCEPT !.decision = decision,
                                        !.claimed_by = Nobody])

(* Mutant: resume does not ask for the decision.                            *)
CheckApproved_ANY(a) ==
  /\ handler[a] = NoHandler
  /\ requested < MaxRequests
  /\ requested' = requested + 1
  /\ Readable
  /\ Latest.stage = "awaiting_review"
  /\ handler' = [handler EXCEPT ![a] = [pc |-> "approved", run |-> Latest.run]]
  /\ UNCHANGED <<dirs, dir, step, file, torn, pointer, recorded, released>>

(* resume_run reads the approval,                                           *)
CheckApproved(a) ==
  /\ handler[a] = NoHandler
  /\ requested < MaxRequests
  /\ requested' = requested + 1
  /\ Readable
  /\ Latest.decision = "approved"
  /\ Latest.stage = "awaiting_review"
  /\ handler' = [handler EXCEPT ![a] = [pc |-> "approved", run |-> Latest.run]]
  /\ UNCHANGED <<dirs, dir, step, file, torn, pointer, recorded, released>>

(* then the checkpoint, which is made up, without findings, when the        *)
(* summary of a run at the gate holds none.  The approval it acts on is the *)
(* one read before, whatever the file says now.                             *)
ReadLocalCheckpoint(a) ==
  /\ handler[a].pc = "approved"
  /\ Readable /\ Latest.run = handler[a].run
  /\ Latest.checkpoint \/ Latest.stage = "awaiting_review"
  /\ released' = released \cup {[run |-> Latest.run, checkpoint |-> Latest.checkpoint]}
  /\ handler' = [handler EXCEPT ![a] =
       [pc |-> "writing", what |-> "release", path |-> dir[Latest.run],
        read |-> "approved",
        write |-> [Latest EXCEPT !.stage = "writer", !.decision = "approved",
                                 !.claimed_by = Nobody, !.checkpoint = FALSE]]]
  /\ UNCHANGED <<requested, dirs, dir, step, file, torn, pointer, recorded>>

(* A 404 or 409.                                                            *)
RefuseRelease(a) ==
  /\ handler[a].pc = "approved"
  /\ handler' = [handler EXCEPT ![a] = NoHandler]
  /\ UNCHANGED <<requested, dirs, dir, step, file, torn, pointer, recorded, released>>

(* _write_local_review_summary, and the end of resume_reviewed_run: the     *)
(* pointers, then the file, opened and written.                             *)
PointTo(a) ==
  /\ handler[a].pc = "writing"
  /\ pointer' = handler[a].path
  /\ handler' = [handler EXCEPT ![a].pc = "pointed"]
  /\ UNCHANGED <<requested, dirs, dir, step, file, torn, recorded, released>>

OpenFile(a) ==
  /\ handler[a].pc = "pointed"
  /\ torn' = torn \cup {handler[a].path}
  /\ handler' = [handler EXCEPT ![a].pc = "torn"]
  /\ UNCHANGED <<requested, dirs, dir, step, file, pointer, recorded, released>>

WriteFile(a) ==
  LET h == handler[a] IN
  /\ h.pc = "torn"
  /\ file' = [file EXCEPT ![h.path] = h.write]
  /\ torn' = torn \ {h.path}
  /\ recorded' = IF h.what = "decide"
                 THEN recorded \cup {[run |-> h.write.run, decision |-> h.write.decision]}
                 ELSE recorded
  /\ handler' = [handler EXCEPT ![a] = NoHandler]
  /\ UNCHANGED <<requested, dirs, dir, step, pointer, released>>

(* The server dies with everything it was doing.                            *)
CrashServer ==
  /\ \E r \in LocalRun : step[r] \notin {"new", "done", "refused", "crashed"}
  /\ step' = [r \in LocalRun |->
                IF step[r] \in {"new", "done", "refused"} THEN step[r] ELSE "crashed"]
  /\ handler' = [a \in Actor |-> NoHandler]
  /\ UNCHANGED <<requested, dirs, dir, file, torn, pointer, recorded, released>>

LocalNext ==
  \/ \E r \in LocalRun :
       \/ allocate_run_dir(r) \/ MakeDirectory(r) \/ SaveSummary(r)
       \/ PublishPointer(r) \/ AttachCheckpoint(r) \/ SyncFails(r)
       \/ OpenSummary(r) \/ RewriteSummary(r)
  \/ \E a \in Actor :
       \/ Claim(a) \/ Unclaim(a)
       \/ \E decision \in {"approved", "rejected"} : Decide(a, decision)
       \/ CheckApproved(a) \/ ReadLocalCheckpoint(a) \/ RefuseRelease(a)
       \/ PointTo(a) \/ OpenFile(a) \/ WriteFile(a)
  \/ CrashServer

LocalSpec == LocalInit /\ [][LocalNext]_localVars

----------------------------------------------------------------------------
(* Two runs never write into one directory, although they may choose the    *)
(* same name.                                                               *)
OwnDirectory ==
  \A r, q \in LocalRun :
    {step[r], step[q]} \subseteq {"working", "saved", "latest", "attached",
                                  "rewriting", "done"}
    => r = q \/ dir[r] # dir[q]

(* A reviewer's decision, once in the file, is changed only by a writer     *)
(* that read the file before the decision was there: reading is not locked, *)
(* but the 409 of a decided run stands for everybody who reads it.          *)
OnlyStaleWritersUndecide ==
  [][\A d \in Dir :
       (file[d] # NoSummary /\ file[d].decision # "pending" /\ file'[d] # file[d])
       => \/ file'[d].decision = file[d].decision
          \/ \E a \in Actor : /\ handler[a] # NoHandler /\ handler'[a] = NoHandler
                              /\ handler[a].read # file[d].decision
          \/ \E r \in LocalRun : step[r] = "rewriting" /\ step'[r] = "done"
    ]_localVars

(* Nothing is released that no reviewer approved.                           *)
ReleaseWasApproved ==
  \A x \in released : \E y \in recorded : y.run = x.run /\ y.decision = "approved"

(* api.py: "already has reviewer decision": one decision per run.  Violated *)
(* by two requests that read before either wrote, and by the run's own last *)
(* write.                                                                   *)
DecidedOnce ==
  \A x, y \in recorded : x.run = y.run => x.decision = y.decision

(* "Keep no-database governed runs reviewable through the API"              *)
(* (run_poc.py, attach_local_review_checkpoint).  Violated: the pointer     *)
(* names one run.                                                           *)
StaysReviewable ==
  \A r \in LocalRun :
    step[r] = "done" /\ file[dir[r]].decision = "pending" => pointer = dir[r]

=============================================================================
