---------------------------- MODULE BrokerJournal ----------------------------
(* The privileged broker's mutation path: Server.handle, which serialises   *)
(* mutations, and the FileJournal that gives each of them a durable receipt *)
(* before its handler runs and its outcome after.  The journal is a file of *)
(* lines; a write may fail at any of its steps and the process may crash    *)
(* between any two of them.                                                 *)
(*                                                                          *)
(* A file is [rows, torn, synced]: its terminated lines, whether an         *)
(* unterminated one follows, and how many lines an fsync has covered.       *)
(* Receipts' digests, sequence numbers and byte sizes are left out; the     *)
(* bound on rows stands for the bound on bytes too.                         *)
EXTENDS Integers, Sequences, FiniteSets, FiniteSetsExt

CONSTANTS
  Requests,        \* [key, digest, op, verb, resource, fence]: wire requests
  MaxRows,         \* maxJournalRows
  MaxCrashes,      \* bound: process crashes
  MaxFaults,       \* bound: failing file operations
  Absent           \* no such file, or nothing

Keys == {r.key : r \in Requests}
Operations == {r.op : r \in Requests}
Resources == {r.resource : r \in Requests}

(* A key is a digest of the verb, the fence and the payload, so requests    *)
(* that share it share these; their digests differ when the client builds   *)
(* the request anew.                                                        *)
ASSUME RequestAssumption ==
  /\ \A r \in Requests : r.fence \in Nat
  /\ \A r, q \in Requests : r.key = q.key =>
       r.op = q.op /\ r.verb = q.verb /\ r.resource = q.resource /\ r.fence = q.fence

ASSUME BoundAssumption == MaxRows \in Nat /\ MaxCrashes \in Nat /\ MaxFaults \in Nat

TargetRows == MaxRows \div 2

VARIABLES
  main, temporary,   \* the journal and its ".new", as the running system sees them
  former,            \* the journals a crash may bring back while a directory change is unsynced
  rows,              \* j.rows, from which every index of FileJournal is built
  phase, step,       \* where Server.handle stands, and the write it waits for
  request, success,  \* the mutation in hand, and its handler's outcome
  crashes, faults,
  runs, recorded,    \* history: invocations of each key, keys with a recorded outcome
  confirmed,         \* history: keys whose client was told the mutation succeeded
  staged,            \* history: operations with a confirmed stage not yet released
  cutFailed          \* history: a torn line could not be cut off

files == <<main, temporary, former>>
history == <<runs, recorded, confirmed, staged>>
vars == <<files, rows, phase, step, request, success, crashes, faults, history, cutFailed>>

(* Begin and Commit each go through these steps of append and compact. *)
WriteSteps == {"project", "write", "sync", "syncdir", "writenew", "syncnew", "publish", "syncpublished", "reload"}
Phases == {"down", "refused", "idle", "begin", "handler", "commit"}

EmptyFile == [rows |-> <<>>, torn |-> FALSE, synced |-> 0]
FileRows(f) == IF f = Absent THEN <<>> ELSE f.rows

(***************************************************************************)
(* Rows and the indexes built from them.                                   *)
(***************************************************************************)
Corrupt == [phase |-> "corrupt"]     \* a torn line that a later one was appended to
Active(r) == [phase |-> "active", request |-> r]
Complete(r, ok) == [phase |-> "complete", request |-> r, ok |-> ok]

(* The lines a journal may hold, and the files of the directory.  No file,  *)
(* no request and no write is one of each.                                  *)
Row == {Corrupt} \union {Active(r) : r \in Requests}
       \union {Complete(r, ok) : r \in Requests, ok \in BOOLEAN}
       \union [phase : {"authority"}, fences : [Resources -> Nat]]
File == [rows : Seq(Row), torn : BOOLEAN, synced : Nat]

ASSUME AbsentAssumption == Absent \notin Requests /\ Absent \notin WriteSteps /\ Absent \notin File

IsActive(row) == row.phase = "active"
IsComplete(row) == row.phase = "complete"
Succeeded(row) == IsComplete(row) /\ row.ok
Stages(row) == Succeeded(row) /\ row.request.verb = "stage"
Releases(row) == Succeeded(row) /\ row.request.verb = "restore"

Unresolved(rs) ==
  {k \in Keys : \E i \in DOMAIN rs :
     /\ IsActive(rs[i]) /\ rs[i].request.key = k
     /\ \A j \in i + 1 .. Len(rs) : ~(IsComplete(rs[j]) /\ rs[j].request.key = k)}

Replays(rs) == {rs[i].request : i \in {j \in DOMAIN rs : IsComplete(rs[j])}}

FenceOf(rs, resource) ==
  Max({0} \union {rs[i].fences[resource] : i \in {j \in DOMAIN rs : rs[j].phase = "authority"}}
          \union {rs[i].request.fence : i \in {j \in DOMAIN rs :
                    (IsActive(rs[j]) \/ IsComplete(rs[j])) /\ rs[j].request.resource = resource}})

(* The stage results that CompletedMutation still gives. *)
Retained(rs) ==
  {o \in Operations : \E i \in DOMAIN rs :
     /\ Stages(rs[i]) /\ rs[i].request.op = o
     /\ \A j \in i + 1 .. Len(rs) : ~(Releases(rs[j]) /\ rs[j].request.op = o)}

(* A mutant: the snapshot forgets the fences. *)
AuthorityWithoutFences(rs) == [phase |-> "authority", fences |-> [r \in Resources |-> 0]]

Authority(rs) == [phase |-> "authority", fences |-> [r \in Resources |-> FenceOf(rs, r)]]

LastIndex(rs, Test(_)) == Max({i \in DOMAIN rs : Test(rs[i])})

(* A mutant: stage results are history like any other. *)
RequiredWithoutStages(rs, new) ==
  new \union {LastIndex(rs, LAMBDA row : IsActive(row) /\ row.request.key = k) : k \in Unresolved(rs)}

(* The rows a compaction must keep: the new one, the receipts without an    *)
(* outcome and the stage results without a release.                         *)
RequiredRows(rs, new) ==
  new \union {LastIndex(rs, LAMBDA row : IsActive(row) /\ row.request.key = k) : k \in Unresolved(rs)}
      \union {LastIndex(rs, LAMBDA row : Stages(row) /\ row.request.op = o) : o \in Retained(rs)}

(* With them, the newest outcomes as far as the target allows, but not the  *)
(* stage results that were released.                                        *)
RetainedRows(rs, new, reserve) ==
  LET required == RequiredRows(rs, new)
      history_ == {i \in DOMAIN rs \ required :
                     /\ IsComplete(rs[i])
                     /\ ~(Stages(rs[i]) /\ rs[i].request.op \notin Retained(rs))}
      spare == TargetRows - reserve - 1 - Cardinality(required)
  IN required \union {i \in history_ : Cardinality({j \in history_ : j >= i}) <= spare}

(* The n-th of a set of indices, in their order. *)
Nth(indices, n) == CHOOSE i \in indices : Cardinality({j \in indices : j <= i}) = n

RetainedJournalProjection(rs, new, reserve) ==
  LET kept == RetainedRows(rs, new, reserve)
  IN <<Authority(rs)>> \o [n \in 1 .. Cardinality(kept) |-> rs[Nth(kept, n)]]

Exceeds(rs, new, reserve) == 1 + Cardinality(RequiredRows(rs, new)) + reserve > MaxRows

(***************************************************************************)
(* Server.handle: one mutation at a time.                                  *)
(***************************************************************************)
Init ==
  /\ main = Absent /\ temporary = Absent /\ former = {}
  /\ rows = <<>> /\ phase = "idle" /\ step = Absent
  /\ request = Absent /\ success = FALSE
  /\ crashes = 0 /\ faults = 0
  /\ runs = [k \in Keys |-> 0] /\ recorded = {} /\ confirmed = {} /\ staged = {}
  /\ cutFailed = FALSE

(* The row being appended, the rows it would make, and the room that Begin  *)
(* keeps for the outcome.                                                   *)
NewRow == IF phase = "begin" THEN Active(request) ELSE Complete(request, success)
Candidate == Append(rows, NewRow)
Reserve(p) == IF p = "begin" THEN 1 ELSE 0
StartAppend(p) ==
  /\ phase' = p
  /\ step' = IF Len(rows) + 1 + Reserve(p) > MaxRows THEN "project" ELSE "write"

(* Begin accepts a key without an outcome, when nothing is unresolved and   *)
(* its fence is newer than any of the resource.  It answers every other     *)
(* request with a refusal or a replay, which changes nothing.               *)
BeginAccepts(r) ==
  /\ \A q \in Replays(rows) : q.key # r.key
  /\ Unresolved(rows) = {}
  /\ r.fence > FenceOf(rows, r.resource)

Begin(r) ==
  /\ phase = "idle" /\ BeginAccepts(r)
  /\ request' = r
  /\ StartAppend("begin")
  /\ UNCHANGED <<files, rows, success, crashes, faults, history, cutFailed>>

(* The handler ends, or panics, which is a failure. *)
InvokeHandler(ok) ==
  /\ phase = "handler"
  /\ success' = ok
  /\ runs' = [runs EXCEPT ![request.key] = @ + 1]
  /\ staged' = IF ok /\ request.verb = "restore" THEN staged \ {request.op} ELSE staged
  /\ StartAppend("commit")
  /\ UNCHANGED <<files, rows, request, crashes, faults, recorded, confirmed, cutFailed>>

(* The peer changed since Begin: the handler does not run and the failure   *)
(* is committed.                                                            *)
GateRefuses ==
  /\ phase = "handler"
  /\ success' = FALSE
  /\ StartAppend("commit")
  /\ UNCHANGED <<files, rows, request, crashes, faults, history, cutFailed>>

Outcomes(rs) == {q.key : q \in Replays(rs)}

(* The row is durable and installed: Begin goes on to the handler, Commit   *)
(* answers the client.                                                      *)
Appended(rs) ==
  /\ rows' = rs
  /\ recorded' = recorded \union Outcomes(rs)
  /\ IF phase = "begin"
     THEN phase' = "handler" /\ UNCHANGED <<confirmed, staged, request, success>>
     ELSE /\ phase' = "idle" /\ request' = Absent /\ success' = FALSE
          /\ confirmed' = IF success THEN confirmed \union {request.key} ELSE confirmed
          /\ staged' = IF Stages(NewRow) THEN staged \union {request.op} ELSE staged
  /\ step' = Absent
  /\ UNCHANGED <<runs, crashes, faults, cutFailed>>

(***************************************************************************)
(* FileJournal.append and compact, step by step.                           *)
(***************************************************************************)
At(s) == step = s
Goto(s) ==
  /\ step' = s
  /\ UNCHANGED <<rows, phase, request, success, crashes, faults, history, cutFailed>>

(* A file operation fails, within the bound. *)
Fail ==
  /\ faults < MaxFaults /\ faults' = faults + 1
  /\ step' = "reload"
  /\ UNCHANGED <<rows, phase, request, success, crashes, history, cutFailed>>

Line(f) == [f EXCEPT !.rows = Append(@, IF f.torn THEN Corrupt ELSE NewRow), !.torn = FALSE]
Opened == IF main = Absent THEN EmptyFile ELSE main
Creates == former \union (IF main = Absent THEN {Absent} ELSE {})

WriteLine ==
  /\ At("write")
  /\ former' = Creates /\ UNCHANGED temporary
  /\ \/ main' = Line(Opened) /\ Goto("sync")
     \/ main' \in {Opened, [Opened EXCEPT !.torn = TRUE], Line(Opened)} /\ Fail

(* Mutant: the append answers before its line is durable. *)
SyncLineSkipped == At("sync") /\ UNCHANGED files /\ Goto("syncdir")

SyncLine ==
  /\ At("sync")
  /\ UNCHANGED <<temporary, former>>
  /\ \/ main' = [main EXCEPT !.synced = Len(main.rows)] /\ Goto("syncdir")
     \/ UNCHANGED main /\ Fail

SyncDirectory ==
  /\ At("syncdir")
  /\ UNCHANGED <<main, temporary>>
  /\ \/ former' = {} /\ Appended(Candidate)
     \/ UNCHANGED former /\ Fail

(* Compaction starts by removing a stale ".new"; it is refused when what    *)
(* must be kept does not fit.                                               *)
StartCompaction ==
  /\ At("project")
  /\ UNCHANGED <<main, former>>
  /\ \/ temporary' = Absent
        /\ Goto(IF Exceeds(Candidate, {Len(Candidate)}, Reserve(phase)) THEN "reload" ELSE "writenew")
     \/ temporary # Absent /\ UNCHANGED temporary /\ Fail

Compacted == RetainedJournalProjection(Candidate, {Len(Candidate)}, Reserve(phase))

WriteNew ==
  /\ At("writenew")
  /\ UNCHANGED <<main, former>>
  /\ \/ temporary' = [EmptyFile EXCEPT !.rows = Compacted] /\ Goto("syncnew")
     \/ temporary' \in {Absent, [EmptyFile EXCEPT !.torn = TRUE]} /\ Fail

SyncNew ==
  /\ At("syncnew")
  /\ UNCHANGED <<main, former>>
  /\ \/ temporary' = [temporary EXCEPT !.synced = Len(temporary.rows)] /\ Goto("publish")
     \/ temporary' \in {Absent, temporary} /\ Fail

Publish ==
  /\ At("publish")
  /\ \/ main' = temporary /\ temporary' = Absent /\ former' = former \union {main} /\ Goto("syncpublished")
     \/ temporary' \in {Absent, temporary} /\ UNCHANGED <<main, former>> /\ Fail

SyncPublished ==
  /\ At("syncpublished")
  /\ UNCHANGED <<main, temporary>>
  /\ \/ former' = {} /\ Appended(main.rows)
     \/ UNCHANGED former /\ Fail

Readable(f) == Corrupt \notin Range(FileRows(f))

(* A mutant: the tail is left for the next line to end. *)
CutTailLeft(f) == f

CutTail(f) == IF f # Absent /\ f.torn THEN [f EXCEPT !.torn = FALSE, !.synced = Len(f.rows)] ELSE f

(* After a failure the journal is read back, its torn tail cut off.  Begin  *)
(* then answers with an error, Commit that recovery is required.            *)
ReloadAfterWriteFailure ==
  /\ At("reload")
  /\ \/ /\ Readable(main)
        /\ main' = CutTail(main) /\ rows' = FileRows(main)
        /\ recorded' = recorded \union Outcomes(FileRows(main))
        /\ UNCHANGED <<faults, cutFailed>>
     \/ /\ ~Readable(main)
        /\ UNCHANGED <<main, rows, recorded, faults, cutFailed>>
     \/ /\ main # Absent /\ faults < MaxFaults /\ faults' = faults + 1
        /\ cutFailed' = (cutFailed \/ main.torn)
        /\ UNCHANGED <<main, rows, recorded>>
  /\ phase' = "idle" /\ step' = Absent /\ request' = Absent /\ success' = FALSE
  /\ UNCHANGED <<temporary, former, crashes, runs, confirmed, staged>>

(***************************************************************************)
(* Crash and restart.                                                      *)
(***************************************************************************)
(* What a crash may leave of a file: the lines an fsync covered, perhaps    *)
(* more of them, perhaps part of the next one.                              *)
Surviving(f) ==
  IF f = Absent THEN {Absent}
  ELSE {[rows |-> SubSeq(f.rows, 1, n), torn |-> t, synced |-> n] :
          n \in f.synced .. Len(f.rows), t \in BOOLEAN}
       \ (IF f.torn THEN {} ELSE {[rows |-> f.rows, torn |-> TRUE, synced |-> Len(f.rows)]})

Crash ==
  /\ phase \notin {"down", "refused"} /\ crashes < MaxCrashes
  /\ crashes' = crashes + 1
  /\ \E version \in {main} \union former :
       /\ main' \in Surviving(version)
       /\ temporary' \in {Absent} \union Surviving(IF version \in {main, Absent} THEN temporary ELSE main)
  /\ former' = {} /\ rows' = <<>>
  /\ phase' = "down" /\ step' = Absent /\ request' = Absent /\ success' = FALSE
  /\ UNCHANGED <<faults, history, cutFailed>>

(* OpenFileJournal: the journal with its tail cut off, or without one the   *)
(* ".new", which must be whole; a damaged one is refused.                   *)
Load ==
  LET version == IF main # Absent THEN main ELSE temporary
      bad == ~Readable(version) \/ (main = Absent /\ temporary # Absent /\ temporary.torn)
  IN /\ phase = "down"
     /\ IF bad
        THEN phase' = "refused" /\ UNCHANGED <<files, rows, recorded>>
        ELSE /\ phase' = "idle"
             /\ main' = CutTail(version) /\ temporary' = Absent
             /\ rows' = FileRows(version)
             /\ recorded' = recorded \union Outcomes(FileRows(version))
             /\ UNCHANGED former
     /\ UNCHANGED <<step, request, success, crashes, faults, runs, confirmed, staged, cutFailed>>

Next ==
  \/ \E r \in Requests : Begin(r)
  \/ \E ok \in BOOLEAN : InvokeHandler(ok)
  \/ GateRefuses
  \/ WriteLine \/ SyncLine \/ SyncDirectory
  \/ StartCompaction \/ WriteNew \/ SyncNew \/ Publish \/ SyncPublished
  \/ ReloadAfterWriteFailure
  \/ Crash \/ Load

Spec == Init /\ [][Next]_vars

(***************************************************************************)
(* Properties.                                                             *)
(***************************************************************************)
Serving == phase \notin {"down", "refused"}

(* Every file is a sequence of rows of which a prefix is synced, and the    *)
(* request in hand is one the server accepted.                              *)
TypeOK ==
  /\ phase \in Phases /\ step \in WriteSteps \union {Absent}
  /\ request \in Requests \union {Absent} /\ success \in BOOLEAN
  /\ rows \in Seq(Row)
  /\ \A f \in {main, temporary} \union former : f # Absent => f \in File /\ f.synced <= Len(f.rows)
  /\ runs \in [Keys -> Nat] /\ recorded \subseteq Keys /\ confirmed \subseteq Keys
  /\ staged \subseteq Operations /\ crashes \in 0 .. MaxCrashes /\ faults \in 0 .. MaxFaults

(* Refinement: through crashes, failed writes and compactions that forget   *)
(* old outcomes, a mutation's handler runs at most once (server.go:368-388) *)
(* and no handler runs while one that ran has no recorded outcome.          *)
Authority_ == INSTANCE MutationAuthority
AuthoritySpec == Authority_!Spec

(* The result of a confirmed stage stays available for its rollback until a *)
(* restore released it (journal.go:603-617), whatever was compacted away    *)
(* and however often the broker restarted.                                  *)
StagedResultSurvives == Serving => staged \subseteq Retained(rows)

(* A mutation the broker confirmed never turns into one that needs          *)
(* recovery: Commit answers only when the outcome is durable.               *)
ConfirmedStaysComplete == Serving => confirmed \intersect Unresolved(rows) = {}

(* The journal can be opened again unless the cutting off of a torn line    *)
(* itself failed: a line is never appended to a torn one otherwise.         *)
StaysReadable == ~cutFailed => \A f \in {main, temporary} \union former : Readable(f)
=============================================================================
