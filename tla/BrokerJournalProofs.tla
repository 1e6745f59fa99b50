------------------------- MODULE BrokerJournalProofs -------------------------
(***************************************************************************)
(* Proofs about BrokerJournal: the journal keeps the results of stages and *)
(* what it told clients, it stays readable, and it implements              *)
(* MutationAuthority, so that no mutation runs twice, for every set of     *)
(* requests, every limit of rows and any number of failed writes and power *)
(* losses.                                                                 *)
(*                                                                         *)
(* The argument is about versions.  A power loss may leave any prefix of   *)
(* the journal that is not shorter than what was synced, a journal that a  *)
(* rename replaced while the directory is not synced, and the ".new" where *)
(* the journal may be missing.  Every one of them says of the past what    *)
(* the next start of the process has to know (Good), and holds no outcome  *)
(* that nobody read but the one in hand (Accounted).                       *)
(***************************************************************************)
EXTENDS BrokerJournal, FiniteSetTheorems, SequenceTheorems, TLAPS

(***************************************************************************)
(* Finite sets of numbers in their order.                                  *)
(***************************************************************************)
(* The members of S up to i. *)
UpTo(S, i) == {j \in S : j <= i}

(* Later members have more members before them. *)
LEMMA RankGrows ==
  ASSUME NEW S \in SUBSET Nat, IsFiniteSet(S), NEW i \in S, NEW k \in S, i < k
  PROVE  Cardinality(UpTo(S, i)) < Cardinality(UpTo(S, k))
<1>0. \A j \in S : j \in Nat
  OBVIOUS
<1>1. UpTo(S, i) \in SUBSET UpTo(S, k) /\ k \in UpTo(S, k) /\ k \notin UpTo(S, i)
  <2>1. \A j \in S : j <= i => j <= k
    BY <1>0
  <2>2. k <= k /\ ~ (k <= i)
    BY <1>0
  <2> QED
    BY <2>1, <2>2 DEF UpTo
<1>2. UpTo(S, k) \in SUBSET S
  BY DEF UpTo
<1>3. IsFiniteSet(UpTo(S, k))
  BY <1>2, FS_Subset, Zenon
<1>4. /\ Cardinality(UpTo(S, i)) <= Cardinality(UpTo(S, k))
      /\ Cardinality(UpTo(S, k)) = Cardinality(UpTo(S, i)) => UpTo(S, k) = UpTo(S, i)
  BY <1>1, <1>3, FS_Subset, Zenon
<1>5. Cardinality(UpTo(S, i)) # Cardinality(UpTo(S, k))
  BY <1>1, <1>4
<1>6. IsFiniteSet(UpTo(S, i))
  BY <1>1, <1>3, FS_Subset, Zenon
<1>7. Cardinality(UpTo(S, i)) \in Nat /\ Cardinality(UpTo(S, k)) \in Nat
  BY <1>3, <1>6, FS_CardinalityType
<1> QED
  BY <1>4, <1>5, <1>7

(* Every rank is taken, so Nth is well defined. *)
LEMMA NthIs ==
  ASSUME NEW S \in SUBSET Nat, IsFiniteSet(S), NEW n \in 1 .. Cardinality(S)
  PROVE  Nth(S, n) \in S /\ Cardinality(UpTo(S, Nth(S, n))) = n
<1> DEFINE rank == [i \in S |-> Cardinality(UpTo(S, i))]
<1>1. ASSUME NEW i \in S PROVE Cardinality(UpTo(S, i)) \in 1 .. Cardinality(S)
  <2>1. UpTo(S, i) \in SUBSET S /\ i \in UpTo(S, i)
    BY DEF UpTo
  <2>2. IsFiniteSet(UpTo(S, i)) /\ Cardinality(UpTo(S, i)) <= Cardinality(S)
    BY <2>1, FS_Subset, Zenon
  <2>3. Cardinality(UpTo(S, i)) \in Nat /\ Cardinality(S) \in Nat
    BY <2>2, FS_CardinalityType
  <2>4. Cardinality(UpTo(S, i)) # 0
    BY <2>1, <2>2, FS_EmptySet
  <2> QED
    BY <2>2, <2>3, <2>4
<1>2. \A i, k \in S : Cardinality(UpTo(S, i)) = Cardinality(UpTo(S, k)) => i = k
  <2> SUFFICES ASSUME NEW i \in S, NEW k \in S, i # k,
                      Cardinality(UpTo(S, i)) = Cardinality(UpTo(S, k))
               PROVE  FALSE
    OBVIOUS
  <2>1. Cardinality(UpTo(S, i)) \in Nat
    BY <1>1
  <2>2. CASE i < k
    BY <2>1, <2>2, RankGrows
  <2>3. CASE k < i
    BY <2>1, <2>3, RankGrows
  <2> QED
    BY <2>2, <2>3
<1>3. rank \in Injection(S, 1 .. Cardinality(S))
  BY <1>1, <1>2 DEF Injection, IsInjective
<1>4. Cardinality(S) \in Nat
  BY FS_CardinalityType
<1>5. IsFiniteSet(1 .. Cardinality(S)) /\ Cardinality(1 .. Cardinality(S)) = Cardinality(S)
  BY <1>4, FS_Interval
<1>6. rank \in Surjection(S, 1 .. Cardinality(S))
  BY <1>3, <1>5, FS_Injection, Zenon
<1>7. \E i \in S : Cardinality(UpTo(S, i)) = n
  BY <1>6 DEF Surjection
<1> QED
  BY <1>7 DEF Nth, UpTo

(* Nth runs through the set in its order. *)
LEMMA NthGrows ==
  ASSUME NEW S \in SUBSET Nat, IsFiniteSet(S),
         NEW m \in 1 .. Cardinality(S), NEW n \in 1 .. Cardinality(S)
  PROVE  m < n <=> Nth(S, m) < Nth(S, n)
<1>0. Cardinality(S) \in Nat
  BY FS_CardinalityType
<1>1. Nth(S, m) \in S /\ Nth(S, n) \in S /\ Cardinality(UpTo(S, Nth(S, m))) = m /\ Cardinality(UpTo(S, Nth(S, n))) = n
  BY NthIs
<1>2. Nth(S, m) < Nth(S, n) => m < n
  BY <1>1, RankGrows
<1>3. Nth(S, n) < Nth(S, m) => n < m
  BY <1>1, RankGrows
<1>4. Nth(S, m) = Nth(S, n) => m = n
  BY <1>1
<1>5. Nth(S, m) \in Nat /\ Nth(S, n) \in Nat
  BY <1>1
<1> QED
  BY <1>0, <1>2, <1>3, <1>4, <1>5

(* Every member is the one of its rank. *)
LEMMA NthFinds ==
  ASSUME NEW S \in SUBSET Nat, IsFiniteSet(S), NEW i \in S
  PROVE  \E n \in 1 .. Cardinality(S) : Nth(S, n) = i
<1> DEFINE n == Cardinality(UpTo(S, i))
<1>1. UpTo(S, i) \in SUBSET S /\ i \in UpTo(S, i)
  BY DEF UpTo
<1>2. IsFiniteSet(UpTo(S, i)) /\ n <= Cardinality(S)
  BY <1>1, FS_Subset, Zenon
<1>3. n \in Nat /\ Cardinality(S) \in Nat
  BY <1>2, FS_CardinalityType
<1>4. n # 0
  BY <1>1, <1>2, FS_EmptySet
<1>5. n \in 1 .. Cardinality(S)
  BY <1>2, <1>3, <1>4
<1>6. PICK m \in S : Nth(S, n) = m /\ Cardinality(UpTo(S, m)) = Cardinality(UpTo(S, i))
  BY <1>5, NthIs
<1>7. ~ (m < i) /\ ~ (i < m)
  BY <1>6, <1>3, RankGrows
<1>8. m \in Nat /\ i \in Nat
  OBVIOUS
<1>9. m = i
  BY <1>7, <1>8
<1> QED
  BY <1>5, <1>6, <1>9

(* A finite set of numbers has a largest one: the last in the order. *)
LEMMA MaxIs ==
  ASSUME NEW S \in SUBSET Nat, IsFiniteSet(S), S # {}
  PROVE  Max(S) \in S /\ \A i \in S : i <= Max(S)
<1> DEFINE n == Cardinality(S)
<1>1. n \in Nat /\ n # 0
  BY FS_CardinalityType, FS_EmptySet
<1>2. n \in 1 .. Cardinality(S)
  BY <1>1
<1>3. Nth(S, n) \in S /\ Cardinality(UpTo(S, Nth(S, n))) = Cardinality(S)
  BY <1>2, NthIs
<1>4. UpTo(S, Nth(S, n)) \in SUBSET S
  BY DEF UpTo
<1>5. UpTo(S, Nth(S, n)) = S
  BY <1>3, <1>4, FS_Subset, Zenon
<1>6. \E x \in S : \A y \in S : x >= y
  BY <1>3, <1>5 DEF UpTo
<1> QED
  BY <1>6 DEF Max

(***************************************************************************)
(* The invariant.                                                          *)
(***************************************************************************)
(* No line of rs is corrupt. *)
Clean(rs) == \A i \in DOMAIN rs : rs[i] # Corrupt

(* The last line of rs is row. *)
Ends(rs, row) == Len(rs) > 0 /\ rs[Len(rs)] = row

(* The rows that a crash may leave of a file, and of the whole journal: the *)
(* ".new" counts only where the journal itself may be missing.              *)
Versions(f) == IF f = Absent THEN {<<>>} ELSE {SubSeq(f.rows, 1, n) : n \in f.synced .. Len(f.rows)}

Sources(journal, others, new) ==
  {journal} \union others \union (IF Absent \in {journal} \union others THEN {new} ELSE {})

RecoverableFrom(journal, others, new) == UNION {Versions(f) : f \in Sources(journal, others, new)}

Recoverable == RecoverableFrom(main, former, temporary)

(* A row of rs keeps requests as old as r from being accepted again. *)
Fenced(rs, r) == \E i \in DOMAIN rs :
  \/ rs[i].phase = "authority" /\ rs[i].fences[r.resource] >= r.fence
  \/ /\ IsActive(rs[i]) \/ IsComplete(rs[i])
     /\ rs[i].request.resource = r.resource /\ rs[i].request.fence >= r.fence

(* What every version of the journal has to say about the past: the stages  *)
(* st that were not released, the confirmed keys co, the runs ru and the    *)
(* recorded outcomes re.                                                    *)
GoodFor(rs, st, co, ru, re) ==
  /\ st \subseteq Retained(rs)
  /\ co \intersect Unresolved(rs) = {}
  /\ \A r \in Requests : ru[r.key] > 0 => Fenced(rs, r)
  /\ \A k \in Keys : ru[k] > 0 /\ k \notin re => k \in Unresolved(rs) \union Outcomes(rs)

Good(rs) == GoodFor(rs, staged, confirmed, runs, recorded)

(* Which outcomes a version may hold that nobody has read yet: none while   *)
(* another mutation may begin, the one in hand while it is being committed. *)
AccountedFor(rs, ph, memory, r, re) ==
  /\ \A j, k \in Outcomes(rs) \ re : j = k
  /\ ph \in {"begin", "handler"} => Outcomes(rs) \subseteq re
  /\ ph = "idle" /\ Unresolved(memory) = {} => Outcomes(rs) \subseteq re
  /\ ph = "commit" =>
       /\ Outcomes(rs) \subseteq re \union {r.key}
       /\ r.key \in Unresolved(rs) \union Outcomes(rs)

Accounted(rs) == AccountedFor(rs, phase, rows, request, recorded)

(* Every version that can be read says what it has to. *)
VersionInv == \A rs \in Recoverable : Clean(rs) => Good(rs) /\ Accounted(rs)

(* So do the rows in memory, whose outcomes have all been read. *)
MemoryInv == Serving => Clean(rows) /\ Good(rows) /\ Outcomes(rows) \subseteq recorded

(* A well-formed file. *)
FileOK(f) == f # Absent => f \in File /\ f.synced <= Len(f.rows)

(* Every line of the file is durable. *)
Whole(f) == f # Absent => f.synced = Len(f.rows)

(* Where Server.handle stands: what it has in hand, that nothing is pending *)
(* before a handler runs and the receipt is durable when it does, and that  *)
(* the files of a process that is down are as the power loss left them.     *)
PhaseInv ==
  /\ phase \in {"begin", "handler", "commit"} <=> request # Absent
  /\ phase \in {"begin", "commit"} <=> step # Absent
  /\ \A k \in confirmed : runs[k] > 0
  /\ phase \in {"begin", "handler"} =>
       runs[request.key] = 0 /\ \A k \in Keys : runs[k] > 0 => k \in recorded
  /\ phase \in {"handler", "commit"} => request.key \in Unresolved(rows)
  /\ phase = "handler" =>
       /\ former = {} /\ main # Absent /\ Whole(main)
       /\ Clean(main.rows) => request.key \in Unresolved(main.rows)
  /\ phase = "commit" /\ success =>
       runs[request.key] > 0 /\ (request.verb = "restore" => request.op \notin staged)
  /\ phase = "down" => former = {} /\ Whole(main) /\ Whole(temporary)

(* How far the write in hand has come, and in which file the row is.        *)
StepInv ==
  /\ step \in {"sync", "syncdir", "syncpublished"} =>
       main # Absent /\ (Clean(main.rows) => Ends(main.rows, NewRow))
  /\ step \in {"syncdir", "syncpublished"} => Whole(main)
  /\ step = "syncpublished" => main.rows = Compacted
  /\ step \in {"syncnew", "publish"} =>
       temporary # Absent /\ temporary.rows = Compacted /\ ~temporary.torn
  /\ step = "publish" => Whole(temporary)

(* Until cutting off a torn line fails every file is readable, and a torn   *)
(* journal waits to be read again.                                          *)
ReadInv ==
  ~cutFailed =>
    /\ \A f \in {main, temporary} \union former : Readable(f)
    /\ main # Absent /\ main.torn => step = "reload" \/ phase \in {"down", "refused"}

(* The inductive invariant. *)
IInv == TypeOK /\ VersionInv /\ MemoryInv /\ PhaseInv /\ StepInv /\ ReadInv

(***************************************************************************)
(* Rows, and what one more row changes.                                    *)
(***************************************************************************)
(* The phases of rows tell them apart. *)
LEMMA RowFacts ==
  ASSUME NEW row \in Row
  PROVE  /\ IsActive(row) \/ IsComplete(row) =>
              row.request \in Requests /\ row.request.key \in Keys /\ row.request.op \in Operations
         /\ ~ (IsActive(row) /\ IsComplete(row))
         /\ row.phase = "authority" =>
              row.fences \in [Resources -> Nat] /\ ~IsActive(row) /\ ~IsComplete(row)
BY DEF Row, Corrupt, Active, Complete, IsActive, IsComplete, Keys, Operations

(* What a receipt row is, and what it is not. *)
LEMMA ActiveFacts ==
  ASSUME NEW r \in Requests
  PROVE  /\ Active(r) \in Row /\ Active(r) # Corrupt /\ Active(r).request = r
         /\ IsActive(Active(r)) /\ ~IsComplete(Active(r))
         /\ ~Stages(Active(r)) /\ ~Releases(Active(r)) /\ Active(r).phase # "authority"
BY DEF Row, Corrupt, Active, Complete, IsActive, IsComplete, Stages, Releases, Succeeded

(* What an outcome row is, and what it is not. *)
LEMMA CompleteFacts ==
  ASSUME NEW r \in Requests, NEW ok \in BOOLEAN
  PROVE  /\ Complete(r, ok) \in Row /\ Complete(r, ok) # Corrupt /\ Complete(r, ok).request = r
         /\ IsComplete(Complete(r, ok)) /\ ~IsActive(Complete(r, ok))
         /\ Complete(r, ok).phase # "authority"
         /\ Stages(Complete(r, ok)) <=> ok /\ r.verb = "stage"
         /\ Releases(Complete(r, ok)) <=> ok /\ r.verb = "restore"
<1>1. /\ Complete(r, ok) \in Row
      /\ Complete(r, ok) # Corrupt /\ Complete(r, ok).request = r /\ Complete(r, ok).ok = ok
      /\ Complete(r, ok).phase = "complete"
  BY DEF Row, Corrupt, Complete
<1> QED
  BY <1>1 DEF IsActive, IsComplete, Stages, Releases, Succeeded

(* The rows before the appended one stay where they are. *)
LEMMA RowsAppended ==
  ASSUME NEW rs \in Seq(Row), NEW row \in Row
  PROVE  /\ Append(rs, row) \in Seq(Row) /\ Len(Append(rs, row)) = Len(rs) + 1 /\ Len(rs) \in Nat
         /\ DOMAIN rs = 1 .. Len(rs) /\ DOMAIN Append(rs, row) = 1 .. Len(rs) + 1
         /\ \A i \in 1 .. Len(rs) : Append(rs, row)[i] = rs[i] /\ rs[i] \in Row
         /\ Append(rs, row)[Len(rs) + 1] = row
OBVIOUS

(* The last row decides about its own key, and about no other. *)
LEMMA UnresolvedAppended ==
  ASSUME NEW rs \in Seq(Row), NEW row \in Row, NEW k \in Keys
  PROVE  k \in Unresolved(Append(rs, row)) <=>
           \/ IsActive(row) /\ row.request.key = k
           \/ k \in Unresolved(rs) /\ ~ (IsComplete(row) /\ row.request.key = k)
<1> DEFINE t == Append(rs, row)
           n == Len(rs)
           Opens(s, i) == IsActive(s[i]) /\ s[i].request.key = k
           Ended(s, i) == IsComplete(s[i]) /\ s[i].request.key = k
<1>1. n \in Nat /\ Len(t) = n + 1 /\ DOMAIN rs = 1 .. n /\ DOMAIN t = 1 .. n + 1
      /\ (\A i \in 1 .. n : t[i] = rs[i] /\ rs[i] \in Row) /\ t[n + 1] = row
  BY RowsAppended
<1> HIDE DEF t, n
<1>2. k \in Unresolved(t) <=>
        \E i \in 1 .. n + 1 : Opens(t, i) /\ \A j \in i + 1 .. n + 1 : ~Ended(t, j)
  BY <1>1 DEF Unresolved
<1>3. k \in Unresolved(rs) <=> \E i \in 1 .. n : Opens(rs, i) /\ \A j \in i + 1 .. n : ~Ended(rs, j)
  BY <1>1 DEF Unresolved, n
<1>4. /\ \A i \in 1 .. n : (Opens(t, i) <=> Opens(rs, i)) /\ (Ended(t, i) <=> Ended(rs, i))
      /\ Opens(t, n + 1) <=> IsActive(row) /\ row.request.key = k
      /\ Ended(t, n + 1) <=> IsComplete(row) /\ row.request.key = k
  BY <1>1
<1>5. ~ (IsActive(row) /\ IsComplete(row))
  BY RowFacts
<1> HIDE DEF Opens, Ended
<1>6. ASSUME k \in Unresolved(t)
      PROVE  (IsActive(row) /\ row.request.key = k)
             \/ (k \in Unresolved(rs) /\ ~ (IsComplete(row) /\ row.request.key = k))
  <2>1. PICK i \in 1 .. n + 1 : Opens(t, i) /\ \A j \in i + 1 .. n + 1 : ~Ended(t, j)
    BY <1>2, <1>6
  <2>2. CASE i = n + 1
    BY <2>1, <2>2, <1>4
  <2>3. CASE i \in 1 .. n
    <3>1. ~Ended(t, n + 1)
      BY <2>1, <2>3, <1>1
    <3>2. \A j \in i + 1 .. n : ~Ended(rs, j)
      BY <2>1, <2>3, <1>1, <1>4
    <3> QED
      BY <2>1, <2>3, <3>1, <3>2, <1>3, <1>4
  <2> QED
    BY <2>1, <2>2, <2>3, <1>1
<1>7. ASSUME IsActive(row), row.request.key = k
      PROVE  k \in Unresolved(t)
  <2>1. Opens(t, n + 1) /\ \A j \in (n + 1) + 1 .. n + 1 : ~Ended(t, j)
    BY <1>7, <1>1, <1>4
  <2> QED
    BY <2>1, <1>1, <1>2
<1>8. ASSUME k \in Unresolved(rs), ~ (IsComplete(row) /\ row.request.key = k)
      PROVE  k \in Unresolved(t)
  <2>1. PICK i \in 1 .. n : Opens(rs, i) /\ \A j \in i + 1 .. n : ~Ended(rs, j)
    BY <1>3, <1>8
  <2>2. ASSUME NEW j \in i + 1 .. n + 1 PROVE ~Ended(t, j)
    <3>1. CASE j = n + 1
      BY <3>1, <1>8, <1>4
    <3>2. CASE j \in i + 1 .. n
      BY <3>2, <2>1, <1>4, <1>1
    <3> QED
      BY <3>1, <3>2, <1>1
  <2> QED
    BY <2>1, <2>2, <1>1, <1>2, <1>4
<1> QED
  BY <1>6, <1>7, <1>8 DEF t

(* The last row retains or releases its own operation, and no other. *)
LEMMA RetainedAppended ==
  ASSUME NEW rs \in Seq(Row), NEW row \in Row, NEW o \in Operations
  PROVE  /\ Stages(row) /\ row.request.op = o => o \in Retained(Append(rs, row))
         /\ o \in Retained(rs) /\ ~ (Releases(row) /\ row.request.op = o) => o \in Retained(Append(rs, row))
<1> DEFINE t == Append(rs, row)
           n == Len(rs)
           Opens(s, i) == Stages(s[i]) /\ s[i].request.op = o
           Ended(s, i) == Releases(s[i]) /\ s[i].request.op = o
<1>1. n \in Nat /\ Len(t) = n + 1 /\ DOMAIN rs = 1 .. n /\ DOMAIN t = 1 .. n + 1
      /\ (\A i \in 1 .. n : t[i] = rs[i] /\ rs[i] \in Row) /\ t[n + 1] = row
  BY RowsAppended
<1> HIDE DEF t, n
<1>2. o \in Retained(t) <=>
        \E i \in 1 .. n + 1 : Opens(t, i) /\ \A j \in i + 1 .. n + 1 : ~Ended(t, j)
  BY <1>1 DEF Retained
<1>3. o \in Retained(rs) <=> \E i \in 1 .. n : Opens(rs, i) /\ \A j \in i + 1 .. n : ~Ended(rs, j)
  BY <1>1 DEF Retained, n
<1>4. /\ \A i \in 1 .. n : (Opens(t, i) <=> Opens(rs, i)) /\ (Ended(t, i) <=> Ended(rs, i))
      /\ Opens(t, n + 1) <=> Stages(row) /\ row.request.op = o
      /\ Ended(t, n + 1) <=> Releases(row) /\ row.request.op = o
  BY <1>1
<1> HIDE DEF Opens, Ended
<1>7. ASSUME Stages(row), row.request.op = o
      PROVE  o \in Retained(t)
  <2>1. Opens(t, n + 1) /\ \A j \in (n + 1) + 1 .. n + 1 : ~Ended(t, j)
    BY <1>7, <1>1, <1>4
  <2> QED
    BY <2>1, <1>1, <1>2
<1>8. ASSUME o \in Retained(rs), ~ (Releases(row) /\ row.request.op = o)
      PROVE  o \in Retained(t)
  <2>1. PICK i \in 1 .. n : Opens(rs, i) /\ \A j \in i + 1 .. n : ~Ended(rs, j)
    BY <1>3, <1>8
  <2>2. ASSUME NEW j \in i + 1 .. n + 1 PROVE ~Ended(t, j)
    <3>1. CASE j = n + 1
      BY <3>1, <1>8, <1>4
    <3>2. CASE j \in i + 1 .. n
      BY <3>2, <2>1, <1>4, <1>1
    <3> QED
      BY <3>1, <3>2, <1>1
  <2> QED
    BY <2>1, <2>2, <1>1, <1>2, <1>4
<1> QED
  BY <1>7, <1>8 DEF t

(* The outcomes of a journal are keys of its complete rows. *)
LEMMA OutcomesAre ==
  ASSUME NEW rs \in Seq(Row), NEW k
  PROVE  k \in Outcomes(rs) <=> \E i \in 1 .. Len(rs) : IsComplete(rs[i]) /\ rs[i].request.key = k
BY DEF Outcomes, Replays

(* A complete row adds the outcome of its key, another row adds none. *)
LEMMA OutcomesAppended ==
  ASSUME NEW rs \in Seq(Row), NEW row \in Row
  PROVE  Outcomes(Append(rs, row)) =
           IF IsComplete(row) THEN Outcomes(rs) \union {row.request.key} ELSE Outcomes(rs)
<1> DEFINE t == Append(rs, row)
           n == Len(rs)
<1>1. t \in Seq(Row) /\ n \in Nat /\ Len(t) = n + 1
      /\ (\A i \in 1 .. n : t[i] = rs[i]) /\ t[n + 1] = row
  BY RowsAppended
<1> HIDE DEF t
<1>2. ASSUME NEW k PROVE k \in Outcomes(t) <=> k \in Outcomes(rs) \/ (IsComplete(row) /\ row.request.key = k)
  <2>1. k \in Outcomes(t) <=> \E i \in 1 .. n + 1 : IsComplete(t[i]) /\ t[i].request.key = k
    BY <1>1, OutcomesAre
  <2>2. k \in Outcomes(rs) <=> \E i \in 1 .. n : IsComplete(rs[i]) /\ rs[i].request.key = k
    BY OutcomesAre
  <2>3. \A i : i \in 1 .. n + 1 <=> i \in 1 .. n \/ i = n + 1
    BY <1>1
  <2> HIDE DEF n
  <2> QED
    BY <2>1, <2>2, <2>3, <1>1
<1> QED
  BY <1>2 DEF t

(* Appending lifts no fence, and a receipt fences its request. *)
LEMMA FencedAppended ==
  ASSUME NEW rs \in Seq(Row), NEW row \in Row, NEW r \in Requests
  PROVE  /\ Fenced(rs, r) => Fenced(Append(rs, row), r)
         /\ IsActive(row) /\ row.request.key = r.key => Fenced(Append(rs, row), r)
<1> DEFINE t == Append(rs, row)
           n == Len(rs)
<1>1. n \in Nat /\ DOMAIN rs = 1 .. n /\ DOMAIN t = 1 .. n + 1
      /\ (\A i \in 1 .. n : t[i] = rs[i]) /\ t[n + 1] = row
  BY RowsAppended
<1>2. 1 .. n \subseteq 1 .. n + 1 /\ n + 1 \in 1 .. n + 1
  BY <1>1
<1> HIDE DEF t, n
<1>3. ASSUME IsActive(row), row.request.key = r.key
      PROVE  row.request.resource = r.resource /\ row.request.fence >= r.fence
  <2>1. row.request \in Requests
    BY <1>3, RowFacts
  <2> QED
    BY <1>3, <2>1, RequestAssumption
<1> QED
  BY <1>1, <1>2, <1>3 DEF Fenced, t

(* A journal is readable when its prefix and its last row are. *)
LEMMA CleanAppended ==
  ASSUME NEW rs \in Seq(Row), NEW row \in Row
  PROVE  Clean(Append(rs, row)) <=> Clean(rs) /\ row # Corrupt
<1> DEFINE t == Append(rs, row)
           n == Len(rs)
<1>1. n \in Nat /\ DOMAIN rs = 1 .. n /\ DOMAIN t = 1 .. n + 1
      /\ (\A i \in 1 .. n : t[i] = rs[i]) /\ t[n + 1] = row
  BY RowsAppended
<1>2. \A i : i \in 1 .. n + 1 <=> i \in 1 .. n \/ i = n + 1
  BY <1>1
<1> HIDE DEF t, n
<1> QED
  BY <1>1, <1>2 DEF Clean, t

(***************************************************************************)
(* The fence of a resource, and what a compaction keeps.                   *)
(***************************************************************************)
(* The fence of a resource is no lower than the rows fence it at. *)
LEMMA FenceFacts ==
  ASSUME NEW rs \in Seq(Row), NEW r \in Requests
  PROVE  /\ FenceOf(rs, r.resource) \in Nat
         /\ Fenced(rs, r) => r.fence <= FenceOf(rs, r.resource)
<1> DEFINE c == r.resource
           D == {j \in DOMAIN rs : rs[j].phase = "authority"}
           E == {j \in DOMAIN rs : (IsActive(rs[j]) \/ IsComplete(rs[j])) /\ rs[j].request.resource = c}
           A == {rs[i].fences[c] : i \in D}
           B == {rs[i].request.fence : i \in E}
           S == {0} \union A \union B
<1>1. c \in Resources /\ r.fence \in Nat
  BY RequestAssumption DEF Resources
<1>2. DOMAIN rs = 1 .. Len(rs) /\ Len(rs) \in Nat /\ \A i \in DOMAIN rs : rs[i] \in Row
  OBVIOUS
<1>3. IsFiniteSet(DOMAIN rs)
  BY <1>2, FS_Interval
<1>4. D \in SUBSET DOMAIN rs /\ E \in SUBSET DOMAIN rs
  OBVIOUS
<1>5. IsFiniteSet(D) /\ IsFiniteSet(E)
  BY <1>3, <1>4, FS_Subset, Zenon
<1>6. [i \in D |-> rs[i].fences[c]] \in Surjection(D, A)
  BY DEF Surjection
<1>7. [i \in E |-> rs[i].request.fence] \in Surjection(E, B)
  BY DEF Surjection
<1>8. IsFiniteSet(A) /\ IsFiniteSet(B)
  BY <1>5, <1>6, <1>7, FS_Surjection, Zenon
<1>9. IsFiniteSet({0} \union A) 
  BY <1>8, FS_Singleton, FS_Union, Zenon
<1>10. IsFiniteSet(S) 
  BY <1>8, <1>9, FS_Union, Zenon
<1>11. A \subseteq Nat
  BY <1>1, <1>2, RowFacts
<1>12. B \subseteq Nat
  BY <1>2, RowFacts, RequestAssumption
<1>13. S \in SUBSET Nat /\ S # {}
  BY <1>11, <1>12
<1>14. Max(S) \in S /\ \A i \in S : i <= Max(S)
  BY <1>10, <1>13, MaxIs, Zenon
<1>15. FenceOf(rs, c) = Max(S)
  BY DEF FenceOf
<1>16. ASSUME Fenced(rs, r) PROVE \E f \in S : f >= r.fence
  BY <1>16 DEF Fenced
<1> HIDE DEF S
<1>17. Max(S) \in Nat
  BY <1>13, <1>14
<1>18. ASSUME Fenced(rs, r) PROVE r.fence <= Max(S)
  <2>1. PICK f \in S : f >= r.fence
    BY <1>16, <1>18
  <2>2. f \in Nat /\ f <= Max(S)
    BY <1>13, <1>14
  <2> QED
    BY <2>1, <2>2, <1>1, <1>17
<1> QED
  BY <1>15, <1>17, <1>18

(* The authority row is a row, and fences what the rows fenced. *)
LEMMA AuthorityFacts ==
  ASSUME NEW rs \in Seq(Row)
  PROVE  /\ Authority(rs) \in Row /\ Authority(rs) # Corrupt /\ Authority(rs).phase = "authority"
         /\ \A r \in Requests : Authority(rs).fences[r.resource] = FenceOf(rs, r.resource)
<1>1. \A c \in Resources : FenceOf(rs, c) \in Nat
  BY FenceFacts DEF Resources
<1>2. Authority(rs).fences = [c \in Resources |-> FenceOf(rs, c)]
      /\ Authority(rs).phase = "authority"
  BY DEF Authority
<1>3. Authority(rs) \in [phase : {"authority"}, fences : [Resources -> Nat]]
  BY <1>1 DEF Authority
<1>4. Authority(rs) \in Row
  BY <1>3 DEF Row
<1>5. Authority(rs) # Corrupt
  BY <1>2 DEF Corrupt
<1> QED
  BY <1>2, <1>4, <1>5 DEF Resources

(* The last index of a set of rows. *)
LEMMA LastOf ==
  ASSUME NEW rs \in Seq(Row), NEW I \in SUBSET DOMAIN rs, I # {}
  PROVE  Max(I) \in I /\ \A i \in I : i <= Max(I)
<1>1. DOMAIN rs = 1 .. Len(rs) /\ Len(rs) \in Nat
  OBVIOUS
<1>2. I \in SUBSET Nat /\ I \in SUBSET (1 .. Len(rs))
  BY <1>1
<1>3. IsFiniteSet(1 .. Len(rs))
  BY <1>1, FS_Interval
<1>4. IsFiniteSet(I)
  BY <1>2, <1>3, FS_Subset, Zenon
<1> QED
  BY <1>2, <1>4, MaxIs, Zenon

ActiveRows(rs, k) == {i \in DOMAIN rs : IsActive(rs[i]) /\ rs[i].request.key = k}
StageRows(rs, o) == {i \in DOMAIN rs : Stages(rs[i]) /\ rs[i].request.op = o}

(* What is kept: the newest row of every receipt without an outcome and of  *)
(* every stage without a release, the new row, and outcomes.                *)
LEMMA KeptRows ==
  ASSUME NEW rs \in Seq(Row), Len(rs) > 0, NEW reserve
  PROVE  LET S == RetainedRows(rs, {Len(rs)}, reserve)
         IN  /\ S \in SUBSET (1 .. Len(rs)) /\ Len(rs) \in S
             /\ \A k \in Unresolved(rs) : Max(ActiveRows(rs, k)) \in S
             /\ \A o \in Retained(rs) : Max(StageRows(rs, o)) \in S
             /\ \A i \in S : \/ i = Len(rs) 
                             \/ \E k \in Unresolved(rs) : i = Max(ActiveRows(rs, k))
                             \/ IsComplete(rs[i])
<1> DEFINE S == RetainedRows(rs, {Len(rs)}, reserve)
           R == RequiredRows(rs, {Len(rs)})
<1>1. DOMAIN rs = 1 .. Len(rs) /\ Len(rs) \in Nat /\ Len(rs) \in 1 .. Len(rs)
  OBVIOUS
<1>2. R = {Len(rs)} \union {Max(ActiveRows(rs, k)) : k \in Unresolved(rs)}
                    \union {Max(StageRows(rs, o)) : o \in Retained(rs)}
  BY DEF RequiredRows, LastIndex, ActiveRows, StageRows
<1>3. ASSUME NEW k \in Unresolved(rs)
      PROVE  Max(ActiveRows(rs, k)) \in ActiveRows(rs, k)
  <2>1. ActiveRows(rs, k) \in SUBSET DOMAIN rs /\ ActiveRows(rs, k) # {}
    BY DEF Unresolved, ActiveRows
  <2> QED
    BY <2>1, LastOf
<1>4. ASSUME NEW o \in Retained(rs)
      PROVE  Max(StageRows(rs, o)) \in StageRows(rs, o)
  <2>1. StageRows(rs, o) \in SUBSET DOMAIN rs /\ StageRows(rs, o) # {}
    BY DEF Retained, StageRows
  <2> QED
    BY <2>1, LastOf
<1>5. R \subseteq DOMAIN rs
  BY <1>1, <1>2, <1>3, <1>4 DEF ActiveRows, StageRows
<1>6. R \subseteq S /\ S \subseteq DOMAIN rs /\ \A i \in S : i \in R \/ IsComplete(rs[i])
  BY <1>5 DEF RetainedRows
<1>7. \A o \in Retained(rs) : IsComplete(rs[Max(StageRows(rs, o))])
  BY <1>4 DEF StageRows, Stages, Succeeded
<1> HIDE DEF S, R
<1>8. \A i \in S : \/ i = Len(rs) 
                   \/ \E k \in Unresolved(rs) : i = Max(ActiveRows(rs, k))
                   \/ IsComplete(rs[i])
  BY <1>2, <1>6, <1>7
<1> QED
  BY <1>1, <1>2, <1>6, <1>8 DEF S

Projection(rs, reserve) == RetainedJournalProjection(rs, {Len(rs)}, reserve)

(* P is the authority row and then the rows of rs at the indices S, in      *)
(* their order, of which the last is the last of rs.                        *)
Selects(P, rs, S) ==
  \E m \in Nat \ {0} : \E g \in [1 .. m -> S] :
    /\ P \in Seq(Row) /\ Len(P) = m + 1
    /\ P[1] = Authority(rs) /\ \A n \in 1 .. m : P[n + 1] = rs[g[n]]
    /\ \A a, b \in 1 .. m : a < b <=> g[a] < g[b]
    /\ \A i \in S : \E n \in 1 .. m : g[n] = i
    /\ g[m] = Len(rs)

(* A compaction has the shape that Selects describes. *)
LEMMA ProjectionShape ==
  ASSUME NEW rs \in Seq(Row), Len(rs) > 0, NEW reserve
  PROVE  Selects(Projection(rs, reserve), rs, RetainedRows(rs, {Len(rs)}, reserve))
<1> DEFINE S == RetainedRows(rs, {Len(rs)}, reserve)
           P == Projection(rs, reserve)
           m == Cardinality(S)
           g == [n \in 1 .. m |-> Nth(S, n)]
           kept == [n \in 1 .. m |-> rs[Nth(S, n)]]
<1>1. S \in SUBSET (1 .. Len(rs)) /\ Len(rs) \in S
  BY KeptRows
<1>2. Len(rs) \in Nat /\ \A i \in 1 .. Len(rs) : rs[i] \in Row
  OBVIOUS
<1>4. IsFiniteSet(1 .. Len(rs))
  BY <1>2, FS_Interval
<1>5. IsFiniteSet(S)
  BY <1>1, <1>4, FS_Subset, Zenon
<1>6. m \in Nat /\ m # 0
  BY <1>1, <1>5, FS_CardinalityType, FS_EmptySet
<1>7. P = <<Authority(rs)>> \o kept
  BY DEF Projection, RetainedJournalProjection
<1> HIDE DEF S
<1>3. S \in SUBSET Nat
  <2>1. \A i \in 1 .. Len(rs) : i \in Nat
    OBVIOUS
  <2> QED
    BY <1>1, <2>1
<1>8. \A n \in 1 .. m : Nth(S, n) \in S
  BY <1>3, <1>5, NthIs
<1>9. kept \in Seq(Row) /\ Len(kept) = m
  <2>1. \A n \in 1 .. m : rs[Nth(S, n)] \in Row
    BY <1>1, <1>2, <1>8
  <2> QED
    BY <2>1, <1>6
<1>10. Authority(rs) \in Row
  BY AuthorityFacts
<1>11. g \in [1 .. m -> S]
  BY <1>8
<1>12. \A a, b \in 1 .. m : a < b <=> g[a] < g[b]
  BY <1>3, <1>5, NthGrows
<1>13. \A i \in S : \E n \in 1 .. m : g[n] = i
  BY <1>3, <1>5, NthFinds
<1>14. \A n \in 1 .. m : kept[n] = rs[g[n]]
  OBVIOUS
<1> HIDE DEF m, g, kept
<1>15. /\ P \in Seq(Row) /\ Len(P) = m + 1
       /\ P[1] = Authority(rs) /\ \A n \in 1 .. m : P[n + 1] = kept[n]
  BY <1>6, <1>7, <1>9, <1>10
<1>16. g[m] = Len(rs)
  <2>1. PICK n \in 1 .. m : g[n] = Len(rs)
    BY <1>1, <1>13
  <2>2. n = m
    <3>1. n < m => g[n] < g[m]
      BY <1>6, <1>12
    <3>2. g[m] \in 1 .. Len(rs)
      <4>1. m \in 1 .. m
        BY <1>6
      <4>2. g[m] \in S
        BY <4>1, <1>11
      <4> QED
        BY <4>2, <1>1
    <3>3. ~ (n < m)
      BY <2>1, <3>1, <3>2, <1>2
    <3> QED
      BY <3>3, <1>6
  <2> QED
    BY <2>1, <2>2
<1>17. /\ P \in Seq(Row) /\ Len(P) = m + 1
       /\ P[1] = Authority(rs) /\ \A n \in 1 .. m : P[n + 1] = rs[g[n]]
  BY <1>14, <1>15
<1> HIDE DEF P
<1>18. Selects(P, rs, S)
  BY <1>6, <1>11, <1>12, <1>13, <1>16, <1>17, Zenon DEF Selects
<1> QED
  BY <1>18 DEF S, P

(* A compaction changes nothing that the journal has to say: receipts       *)
(* without an outcome, stages without a release and fences stay.  Only old  *)
(* outcomes go.                                                             *)
LEMMA ProjectionKeeps ==
  ASSUME NEW rs \in Seq(Row), Clean(rs), Len(rs) > 0, NEW reserve
  PROVE  LET P == Projection(rs, reserve)
         IN  /\ P \in Seq(Row) /\ Clean(P) /\ Ends(P, rs[Len(rs)])
             /\ Unresolved(P) = Unresolved(rs)
             /\ Retained(rs) \subseteq Retained(P)
             /\ Outcomes(P) \subseteq Outcomes(rs)
             /\ \A r \in Requests : Fenced(rs, r) => Fenced(P, r)
<1> DEFINE S == RetainedRows(rs, {Len(rs)}, reserve)
           P == Projection(rs, reserve)
           last == Len(rs)
<1>a. Selects(P, rs, S)
  BY ProjectionShape
<1> HIDE DEF S, P
<1>0. PICK m \in Nat \ {0} : \E g \in [1 .. m -> S] :
               /\ P \in Seq(Row) /\ Len(P) = m + 1
               /\ P[1] = Authority(rs) /\ \A n \in 1 .. m : P[n + 1] = rs[g[n]]
               /\ \A a, b \in 1 .. m : a < b <=> g[a] < g[b]
               /\ \A i \in S : \E n \in 1 .. m : g[n] = i
               /\ g[m] = last
  BY <1>a, Zenon DEF Selects
<1>1. PICK g \in [1 .. m -> S] :
               /\ P \in Seq(Row) /\ Len(P) = m + 1
               /\ P[1] = Authority(rs) /\ \A n \in 1 .. m : P[n + 1] = rs[g[n]]
               /\ \A a, b \in 1 .. m : a < b <=> g[a] < g[b]
               /\ \A i \in S : \E n \in 1 .. m : g[n] = i
               /\ g[m] = last
  BY <1>0
<1>2. /\ S \in SUBSET (1 .. last) /\ last \in S
      /\ \A k \in Unresolved(rs) : Max(ActiveRows(rs, k)) \in S
      /\ \A o \in Retained(rs) : Max(StageRows(rs, o)) \in S
      /\ \A i \in S : \/ i = last
                      \/ \E k \in Unresolved(rs) : i = Max(ActiveRows(rs, k))
                      \/ IsComplete(rs[i])
  BY KeptRows DEF S
<1>3. /\ Authority(rs) \in Row /\ Authority(rs) # Corrupt /\ Authority(rs).phase = "authority"
      /\ ~IsActive(Authority(rs)) /\ ~IsComplete(Authority(rs))
      /\ ~Stages(Authority(rs)) /\ ~Releases(Authority(rs))
  BY AuthorityFacts, RowFacts DEF Stages, Releases, Succeeded
<1>4. last \in Nat /\ DOMAIN rs = 1 .. last /\ DOMAIN P = 1 .. m + 1 /\ last \in 1 .. last
      /\ \A i \in 1 .. last : rs[i] \in Row
  BY <1>1
<1> HIDE DEF S, P, last
<1>5. \A n \in 1 .. m : g[n] \in S /\ g[n] \in 1 .. last /\ n + 1 \in 1 .. m + 1 /\ P[n + 1] = rs[g[n]]
  <2>1. \A n \in 1 .. m : g[n] \in S
    OBVIOUS
  <2>2. \A n \in 1 .. m : g[n] \in 1 .. last
    BY <2>1, <1>2
  <2>3. \A n \in 1 .. m : n + 1 \in 1 .. m + 1
    OBVIOUS
  <2> QED
    BY <2>1, <2>2, <2>3, <1>1
<1>6. ASSUME NEW i \in 1 .. m + 1
      PROVE  (i = 1 /\ P[i] = Authority(rs)) \/ \E n \in 1 .. m : i = n + 1 /\ P[i] = rs[g[n]]
  <2>1. CASE i = 1
    BY <2>1, <1>1
  <2>2. CASE i # 1
    <3>1. i - 1 \in 1 .. m /\ i = (i - 1) + 1
      BY <2>2
    <3> QED
      BY <3>1, <1>5
  <2> QED
    BY <2>1, <2>2
<1>7. Clean(P)
  <2>1. \A i \in 1 .. last : rs[i] # Corrupt
    BY <1>4 DEF Clean
  <2>2. ASSUME NEW i \in 1 .. m + 1 PROVE P[i] # Corrupt
    <3>1. CASE P[i] = Authority(rs)
      BY <3>1, <1>3
    <3>2. CASE \E n \in 1 .. m : P[i] = rs[g[n]]
      BY <3>2, <1>5, <2>1
    <3> QED
      BY <3>1, <3>2, <1>6
  <2> QED
    BY <2>2, <1>4 DEF Clean
<1>8. Ends(P, rs[last])
  <2>1. m \in 1 .. m
    OBVIOUS
  <2> QED
    BY <2>1, <1>1, <1>5 DEF Ends
<1>9. Outcomes(P) \subseteq Outcomes(rs)
  <2> SUFFICES ASSUME NEW k \in Outcomes(P) PROVE k \in Outcomes(rs)
    OBVIOUS
  <2>0. P \in Seq(Row) /\ Len(P) = m + 1
    BY <1>1
  <2>1. PICK i \in 1 .. m + 1 : IsComplete(P[i]) /\ P[i].request.key = k
    BY <2>0, OutcomesAre
  <2>2. PICK n \in 1 .. m : P[i] = rs[g[n]]
    BY <1>3, <1>6, <2>1
  <2> QED
    BY <2>1, <2>2, <1>5, OutcomesAre DEF last
<1>10. ASSUME NEW r \in Requests, Fenced(rs, r) PROVE Fenced(P, r)
  <2>1. P[1].phase = "authority" /\ P[1].fences[r.resource] >= r.fence
    <3>1. r.fence <= FenceOf(rs, r.resource) /\ FenceOf(rs, r.resource) \in Nat
      BY <1>10, FenceFacts
    <3>2. r.fence \in Nat
      BY RequestAssumption
    <3> QED
      BY <3>1, <3>2, <1>1, AuthorityFacts
  <2>2. 1 \in DOMAIN P
    BY <1>4
  <2> QED
    BY <2>1, <2>2 DEF Fenced
<1>11. ASSUME NEW k \in Unresolved(rs) PROVE k \in Unresolved(P)
  <2> DEFINE top == Max(ActiveRows(rs, k))
  <2>1. PICK i \in DOMAIN rs : /\ IsActive(rs[i]) /\ rs[i].request.key = k
                               /\ \A j \in i + 1 .. Len(rs) : ~(IsComplete(rs[j]) /\ rs[j].request.key = k)
    BY DEF Unresolved
  <2>2. i \in ActiveRows(rs, k) /\ ActiveRows(rs, k) \in SUBSET DOMAIN rs
    BY <2>1 DEF ActiveRows
  <2>3. top \in ActiveRows(rs, k) /\ i <= top
    BY <2>2, LastOf
  <2>4. IsActive(rs[top]) /\ rs[top].request.key = k /\ top \in 1 .. last
    BY <2>3, <1>4 DEF ActiveRows
  <2> HIDE DEF top
  <2>5. PICK n \in 1 .. m : g[n] = top
    BY <1>1, <1>2 DEF top
  <2>6. P[n + 1] = rs[top]
    BY <2>5, <1>5
  <2>7. ASSUME NEW j \in (n + 1) + 1 .. Len(P) PROVE ~(IsComplete(P[j]) /\ P[j].request.key = k)
    <3>1. j - 1 \in 1 .. m /\ n < j - 1
      BY <1>1
    <3>2. P[j] = rs[g[j - 1]] /\ top < g[j - 1] /\ g[j - 1] \in 1 .. last
      <4>0. (j - 1) + 1 = j
        OBVIOUS
      <4>1. P[j] = rs[g[j - 1]]
        BY <3>1, <4>0, <1>5
      <4> QED
        BY <4>1, <3>1, <1>1, <1>5, <2>5
    <3>3. g[j - 1] \in i + 1 .. Len(rs)
      BY <3>2, <2>1, <2>3, <2>4, <1>4 DEF last
    <3> QED
      BY <3>2, <3>3, <2>1
  <2>8. n + 1 \in DOMAIN P /\ k \in Keys
    BY <1>4, <1>5 DEF Unresolved
  <2> QED
    BY <2>4, <2>6, <2>7, <2>8 DEF Unresolved
<1>12. ASSUME NEW k \in Unresolved(P) PROVE k \in Unresolved(rs)
  <2>1. PICK i \in DOMAIN P : IsActive(P[i]) /\ P[i].request.key = k
    BY DEF Unresolved
  <2>2. PICK n \in 1 .. m : P[i] = rs[g[n]]
    BY <1>3, <1>4, <1>6, <2>1
  <2>3. ~IsComplete(rs[g[n]])
    BY <2>1, <2>2, <1>4, <1>5, RowFacts
  <2>4. CASE g[n] = last
    <3>1. \A j \in last + 1 .. Len(rs) : FALSE
      BY <1>4 DEF last
    <3> QED
      BY <2>1, <2>2, <2>4, <3>1, <1>4 DEF Unresolved
  <2>5. CASE \E l \in Unresolved(rs) : g[n] = Max(ActiveRows(rs, l))
    <3>1. PICK l \in Unresolved(rs) : g[n] = Max(ActiveRows(rs, l))
      BY <2>5
    <3>2. ActiveRows(rs, l) \in SUBSET DOMAIN rs /\ ActiveRows(rs, l) # {}
      BY DEF ActiveRows, Unresolved
    <3>3. g[n] \in ActiveRows(rs, l)
      BY <3>1, <3>2, LastOf
    <3> QED
      BY <3>3, <2>1, <2>2 DEF ActiveRows
  <2> QED
    BY <2>3, <2>4, <2>5, <1>2, <1>5
<1>13. ASSUME NEW o \in Retained(rs) PROVE o \in Retained(P)
  <2> DEFINE top == Max(StageRows(rs, o))
  <2>1. PICK i \in DOMAIN rs : /\ Stages(rs[i]) /\ rs[i].request.op = o
                               /\ \A j \in i + 1 .. Len(rs) : ~(Releases(rs[j]) /\ rs[j].request.op = o)
    BY DEF Retained
  <2>2. i \in StageRows(rs, o) /\ StageRows(rs, o) \in SUBSET DOMAIN rs
    BY <2>1 DEF StageRows
  <2>3. top \in StageRows(rs, o) /\ i <= top
    BY <2>2, LastOf
  <2>4. Stages(rs[top]) /\ rs[top].request.op = o /\ top \in 1 .. last
    BY <2>3, <1>4 DEF StageRows
  <2> HIDE DEF top
  <2>5. PICK n \in 1 .. m : g[n] = top
    BY <1>1, <1>2 DEF top
  <2>6. P[n + 1] = rs[top]
    BY <2>5, <1>5
  <2>7. ASSUME NEW j \in (n + 1) + 1 .. Len(P) PROVE ~(Releases(P[j]) /\ P[j].request.op = o)
    <3>1. j - 1 \in 1 .. m /\ n < j - 1
      BY <1>1
    <3>2. P[j] = rs[g[j - 1]] /\ top < g[j - 1] /\ g[j - 1] \in 1 .. last
      <4>0. (j - 1) + 1 = j
        OBVIOUS
      <4>1. P[j] = rs[g[j - 1]]
        BY <3>1, <4>0, <1>5
      <4> QED
        BY <4>1, <3>1, <1>1, <1>5, <2>5
    <3>3. g[j - 1] \in i + 1 .. Len(rs)
      BY <3>2, <2>1, <2>3, <2>4, <1>4 DEF last
    <3> QED
      BY <3>2, <3>3, <2>1
  <2>8. n + 1 \in DOMAIN P /\ o \in Operations
    BY <1>4, <1>5 DEF Retained
  <2> QED
    BY <2>4, <2>6, <2>7, <2>8 DEF Retained
<1> QED
  BY <1>1, <1>7, <1>8, <1>9, <1>10, <1>11, <1>12, <1>13 DEF P, last

(***************************************************************************)
(* The versions of a file.                                                 *)
(***************************************************************************)
(* A prefix of a journal is a journal. *)
LEMMA PrefixFacts ==
  ASSUME NEW s \in Seq(Row), NEW n \in 0 .. Len(s)
  PROVE  /\ SubSeq(s, 1, n) \in Seq(Row) /\ Len(SubSeq(s, 1, n)) = n
         /\ \A i \in 1 .. n : SubSeq(s, 1, n)[i] = s[i]
         /\ n = Len(s) => SubSeq(s, 1, n) = s
OBVIOUS

(* The fields of a file that there is. *)
LEMMA FileFacts ==
  ASSUME NEW f, FileOK(f), f # Absent
  PROVE  f.rows \in Seq(Row) /\ f.torn \in BOOLEAN /\ f.synced \in 0 .. Len(f.rows) /\ Len(f.rows) \in Nat
BY DEF FileOK, File

(* The versions of a file are journals, and the file as it is read is one. *)
LEMMA VersionsAre ==
  ASSUME NEW f, FileOK(f)
  PROVE  /\ FileRows(f) \in Seq(Row) /\ FileRows(f) \in Versions(f)
         /\ \A rs \in Versions(f) : rs \in Seq(Row) /\ (Clean(FileRows(f)) => Clean(rs))
         /\ Whole(f) => Versions(f) = {FileRows(f)}
<1>1. CASE f = Absent
  BY <1>1 DEF Versions, FileRows
<1>2. CASE f # Absent
  <2>1. f.rows \in Seq(Row) /\ f.synced \in 0 .. Len(f.rows) /\ Len(f.rows) \in Nat
    BY <1>2, FileFacts
  <2>2. FileRows(f) = f.rows /\ Versions(f) = {SubSeq(f.rows, 1, n) : n \in f.synced .. Len(f.rows)}
    BY <1>2 DEF FileRows, Versions
  <2>3. \A n \in f.synced .. Len(f.rows) : n \in 0 .. Len(f.rows)
    BY <2>1
  <2>4. SubSeq(f.rows, 1, Len(f.rows)) = f.rows /\ Len(f.rows) \in f.synced .. Len(f.rows)
    BY <2>1, PrefixFacts
  <2>5. ASSUME NEW rs \in Versions(f) PROVE rs \in Seq(Row) /\ (Clean(f.rows) => Clean(rs))
    <3>1. PICK n \in 0 .. Len(f.rows) : rs = SubSeq(f.rows, 1, n)
      BY <2>2, <2>3
    <3>2. rs \in Seq(Row) /\ Len(rs) = n /\ \A i \in 1 .. n : rs[i] = f.rows[i]
      BY <3>1, <2>1, PrefixFacts
    <3>3. DOMAIN rs = 1 .. n /\ DOMAIN f.rows = 1 .. Len(f.rows) /\ 1 .. n \subseteq 1 .. Len(f.rows)
      BY <3>2, <2>1
    <3> QED
      BY <3>2, <3>3 DEF Clean
  <2>6. ASSUME Whole(f) PROVE Versions(f) = {f.rows}
    <3>1. f.synced = Len(f.rows)
      BY <1>2, <2>6 DEF Whole
    <3>2. f.synced .. Len(f.rows) = {Len(f.rows)}
      BY <3>1, <2>1
    <3> QED
      BY <3>2, <2>2, <2>4
  <2> QED
    BY <2>1, <2>2, <2>4, <2>5, <2>6
<1> QED
  BY <1>1, <1>2

(* More of a file is durable: fewer versions. *)
LEMMA SyncedVersions ==
  ASSUME NEW f, NEW g, FileOK(f), FileOK(g), f # Absent, g # Absent,
         g.rows = f.rows, f.synced <= g.synced
  PROVE  Versions(g) \subseteq Versions(f)
<1>1. f.synced \in 0 .. Len(f.rows) /\ g.synced \in 0 .. Len(f.rows) /\ Len(f.rows) \in Nat
  BY FileFacts
<1>2. g.synced .. Len(f.rows) \subseteq f.synced .. Len(f.rows)
  BY <1>1
<1> QED
  BY <1>2 DEF Versions

(* A line more: one version more. *)
LEMMA LineVersions ==
  ASSUME NEW f, NEW g, FileOK(f), f # Absent, g # Absent, NEW row \in Row,
         g.rows = Append(f.rows, row), g.synced = f.synced
  PROVE  Versions(g) \subseteq Versions(f) \union {g.rows}
<1> DEFINE n == Len(f.rows)
<1>1. f.rows \in Seq(Row) /\ f.synced \in 0 .. n /\ n \in Nat
  BY FileFacts
<1>2. Len(g.rows) = n + 1 /\ g.rows \in Seq(Row)
  BY <1>1, RowsAppended
<1>3. ASSUME NEW m \in g.synced .. Len(g.rows)
      PROVE  SubSeq(g.rows, 1, m) \in Versions(f) \union {g.rows}
  <2>1. CASE m = n + 1
    <3>1. SubSeq(g.rows, 1, m) = g.rows
      BY <2>1, <1>1, <1>2, PrefixFacts
    <3> QED
      BY <3>1
  <2>2. CASE m \in f.synced .. n
    <3>1. SubSeq(g.rows, 1, m) = SubSeq(f.rows, 1, m)
      <4>1. m \in 0 .. n
        BY <2>2, <1>1
      <4> QED
        BY <4>1, <1>1
    <3> QED
      BY <3>1, <2>2 DEF Versions
  <2> QED
    BY <2>1, <2>2, <1>1, <1>2
<1> QED
  BY <1>3 DEF Versions

(* What a crash leaves of a file is one of its versions. *)
LEMMA SurvivingFacts ==
  ASSUME NEW f, FileOK(f), NEW g \in Surviving(f)
  PROVE  /\ FileOK(g) /\ Whole(g) /\ (g = Absent <=> f = Absent)
         /\ Versions(g) = {FileRows(g)} /\ FileRows(g) \in Versions(f)
<1>1. CASE f = Absent
  BY <1>1 DEF Surviving, FileOK, Whole, Versions, FileRows
<1>2. CASE f # Absent
  <2>1. f.rows \in Seq(Row) /\ f.synced \in 0 .. Len(f.rows) /\ Len(f.rows) \in Nat
    BY <1>2, FileFacts
  <2>2. PICK n \in f.synced .. Len(f.rows), t \in BOOLEAN : g = [rows |-> SubSeq(f.rows, 1, n), torn |-> t, synced |-> n]
    BY <1>2 DEF Surviving
  <2>3. n \in 0 .. Len(f.rows)
    BY <2>1
  <2>4. SubSeq(f.rows, 1, n) \in Seq(Row) /\ Len(SubSeq(f.rows, 1, n)) = n
    BY <2>1, <2>3, PrefixFacts
  <2>5. g \in File
    BY <2>2, <2>3, <2>4 DEF File
  <2>6. g.rows = SubSeq(f.rows, 1, n) /\ g.synced = n
    BY <2>2
  <2>7. g # Absent
    BY <2>5, AbsentAssumption
  <2>8. FileOK(g) /\ Whole(g)
    BY <2>3, <2>4, <2>5, <2>6 DEF FileOK, Whole
  <2>9. FileRows(g) \in Versions(f)
    BY <1>2, <2>6, <2>7 DEF FileRows, Versions
  <2> QED
    BY <1>2, <2>7, <2>8, <2>9, VersionsAre
<1> QED
  BY <1>1, <1>2

(* A file is readable when its rows are clean. *)
LEMMA ReadableIs ==
  ASSUME NEW f, FileOK(f)
  PROVE  Readable(f) <=> Clean(FileRows(f))
BY DEF Readable, Clean, Range

(* Cutting off a torn line changes no row. *)
LEMMA CutTailFacts ==
  ASSUME NEW f, FileOK(f)
  PROVE  /\ FileOK(CutTail(f)) /\ FileRows(CutTail(f)) = FileRows(f)
         /\ CutTail(f) = Absent <=> f = Absent
         /\ CutTail(f) # Absent => ~CutTail(f).torn
         /\ Versions(CutTail(f)) \subseteq Versions(f)
         /\ Whole(f) => Whole(CutTail(f))
<1>1. CASE f = Absent \/ ~f.torn
  BY <1>1 DEF CutTail
<1>2. CASE f # Absent /\ f.torn
  <2> DEFINE g == CutTail(f)
  <2>1. f.rows \in Seq(Row) /\ f.synced \in 0 .. Len(f.rows) /\ Len(f.rows) \in Nat /\ f \in File
    BY <1>2, FileFacts DEF FileOK
  <2>2. g = [f EXCEPT !.torn = FALSE, !.synced = Len(f.rows)]
    BY <1>2 DEF CutTail
  <2>3. g \in File /\ g.rows = f.rows /\ g.synced = Len(f.rows) /\ g.torn = FALSE
    BY <2>1, <2>2 DEF File
  <2> HIDE DEF g
  <2>4. g # Absent /\ FileOK(g)
    BY <2>1, <2>3, AbsentAssumption DEF FileOK
  <2>5. Versions(g) \subseteq Versions(f)
    BY <1>2, <2>1, <2>3, <2>4, SyncedVersions
  <2> QED
    BY <1>2, <2>3, <2>4, <2>5 DEF g, FileRows, Whole
<1> QED
  BY <1>1, <1>2

(***************************************************************************)
(* The row being appended.                                                 *)
(***************************************************************************)
Appending == phase \in {"begin", "commit"}

(* The row in hand is a receipt in Begin and an outcome in Commit. *)
LEMMA NewRowFacts ==
  ASSUME TypeOK, PhaseInv, Appending
  PROVE  /\ request \in Requests /\ request.key \in Keys /\ request.op \in Operations
         /\ NewRow \in Row /\ NewRow # Corrupt /\ NewRow.request = request
         /\ phase = "begin" => NewRow = Active(request)
         /\ phase = "commit" => NewRow = Complete(request, success)
<1>1. request \in Requests /\ success \in BOOLEAN
  BY DEF TypeOK, PhaseInv, Appending
<1>2. request.key \in Keys /\ request.op \in Operations
  BY <1>1 DEF Keys, Operations
<1>3. CASE phase = "begin"
  BY <1>1, <1>2, <1>3, ActiveFacts DEF NewRow
<1>4. CASE phase = "commit"
  BY <1>1, <1>2, <1>4, CompleteFacts DEF NewRow
<1> QED
  BY <1>3, <1>4 DEF Appending

(* One row more does not take away what a version has to say. *)
LEMMA GoodAppended ==
  ASSUME TypeOK, PhaseInv, Appending, NEW rs \in Seq(Row), Good(rs)
  PROVE  Good(Append(rs, NewRow))
<1> DEFINE t == Append(rs, NewRow)
<1>1. /\ request \in Requests /\ request.key \in Keys /\ request.op \in Operations
      /\ NewRow \in Row /\ NewRow.request = request
      /\ phase = "begin" => NewRow = Active(request)
      /\ phase = "commit" => NewRow = Complete(request, success)
  BY NewRowFacts
<1>2. success \in BOOLEAN /\ staged \subseteq Operations /\ confirmed \subseteq Keys
  BY DEF TypeOK
<1>3. /\ phase = "begin" => IsActive(NewRow) /\ ~IsComplete(NewRow) /\ ~Releases(NewRow)
      /\ phase = "commit" => ~IsActive(NewRow) /\ IsComplete(NewRow)
                             /\ (Releases(NewRow) <=> success /\ request.verb = "restore")
  BY <1>1, <1>2, ActiveFacts, CompleteFacts
<1>4. staged \subseteq Retained(rs) /\ confirmed \intersect Unresolved(rs) = {}
  BY DEF Good, GoodFor
<1>5. staged \subseteq Retained(t)
  <2> SUFFICES ASSUME NEW o \in staged PROVE o \in Retained(t)
    OBVIOUS
  <2>1. ~ (Releases(NewRow) /\ NewRow.request.op = o)
    BY <1>1, <1>3 DEF PhaseInv, Appending
  <2> QED
    BY <2>1, <1>1, <1>2, <1>4, RetainedAppended
<1>6. confirmed \intersect Unresolved(t) = {}
  <2> SUFFICES ASSUME NEW k \in confirmed, k \in Unresolved(t) PROVE FALSE
    OBVIOUS
  <2>1. k \in Keys /\ k \notin Unresolved(rs)
    BY <1>2, <1>4
  <2>2. IsActive(NewRow) /\ NewRow.request.key = k
    BY <2>1, <1>1, UnresolvedAppended
  <2>3. phase = "begin" /\ request.key = k
    BY <2>2, <1>1, <1>3 DEF Appending
  <2>4. runs[k] = 0 /\ runs[k] > 0
    BY <2>3 DEF PhaseInv
  <2> QED
    BY <2>4
<1>7. \A r \in Requests : runs[r.key] > 0 => Fenced(t, r)
  BY <1>1, FencedAppended DEF Good, GoodFor
<1>8. ASSUME NEW k \in Keys, runs[k] > 0, k \notin recorded
      PROVE  k \in Unresolved(t) \union Outcomes(t)
  <2>1. k \in Unresolved(rs) \union Outcomes(rs)
    BY <1>8 DEF Good, GoodFor
  <2>2. Outcomes(rs) \subseteq Outcomes(t) /\ (IsComplete(NewRow) => NewRow.request.key \in Outcomes(t))
    BY <1>1, OutcomesAppended
  <2>3. k \in Unresolved(rs) => k \in Unresolved(t) \/ (IsComplete(NewRow) /\ NewRow.request.key = k)
    BY <1>1, UnresolvedAppended
  <2> QED
    BY <2>1, <2>2, <2>3
<1> QED
  BY <1>5, <1>6, <1>7, <1>8 DEF Good, GoodFor

(* The row in hand adds no outcome but that of the mutation in hand. *)
LEMMA AccountedAppended ==
  ASSUME TypeOK, PhaseInv, Appending, NEW rs \in Seq(Row), Accounted(rs)
  PROVE  Accounted(Append(rs, NewRow))
<1> DEFINE t == Append(rs, NewRow)
<1>1. /\ request \in Requests /\ request.key \in Keys /\ success \in BOOLEAN
      /\ NewRow \in Row /\ NewRow.request = request
      /\ phase = "begin" => NewRow = Active(request)
      /\ phase = "commit" => NewRow = Complete(request, success)
  BY NewRowFacts DEF TypeOK
<1>2. Outcomes(t) = IF phase = "commit" THEN Outcomes(rs) \union {request.key} ELSE Outcomes(rs)
  BY <1>1, OutcomesAppended, ActiveFacts, CompleteFacts DEF Appending
<1>3. CASE phase = "begin"
  BY <1>2, <1>3 DEF Accounted, AccountedFor
<1>4. CASE phase = "commit"
  BY <1>2, <1>4 DEF Accounted, AccountedFor
<1> QED
  BY <1>3, <1>4 DEF Appending

(* What the rows in memory with the row in hand say. *)
LEMMA CandidateFacts ==
  ASSUME TypeOK, PhaseInv, MemoryInv, Appending
  PROVE  /\ Candidate \in Seq(Row) /\ Len(Candidate) > 0 /\ Clean(Candidate) /\ Good(Candidate)
         /\ Ends(Candidate, NewRow)
         /\ Outcomes(Candidate) = IF phase = "commit" THEN Outcomes(rows) \union {request.key} ELSE Outcomes(rows)
         /\ \A k \in Keys : k \in Unresolved(Candidate) <=>
              (phase = "begin" /\ k = request.key) \/ (k \in Unresolved(rows) /\ ~ (phase = "commit" /\ k = request.key))
<1>1. /\ request \in Requests /\ request.key \in Keys /\ success \in BOOLEAN
      /\ NewRow \in Row /\ NewRow # Corrupt /\ NewRow.request = request
      /\ phase = "begin" => NewRow = Active(request)
      /\ phase = "commit" => NewRow = Complete(request, success)
  BY NewRowFacts DEF TypeOK
<1>2. rows \in Seq(Row) /\ Clean(rows) /\ Good(rows)
  BY DEF TypeOK, MemoryInv, Serving, Appending
<1>3. Candidate = Append(rows, NewRow)
  BY DEF Candidate
<1>4. /\ phase = "begin" => IsActive(NewRow) /\ ~IsComplete(NewRow)
      /\ phase = "commit" => ~IsActive(NewRow) /\ IsComplete(NewRow)
  BY <1>1, ActiveFacts, CompleteFacts
<1>5. Good(Candidate)
  BY <1>2, <1>3, GoodAppended
<1>6. Clean(Candidate)
  BY <1>1, <1>2, <1>3, CleanAppended
<1>7. Candidate \in Seq(Row) /\ Len(Candidate) > 0 /\ Ends(Candidate, NewRow)
  BY <1>1, <1>2, <1>3, RowsAppended DEF Ends
<1>8. Outcomes(Candidate) = IF phase = "commit" THEN Outcomes(rows) \union {request.key} ELSE Outcomes(rows)
  BY <1>1, <1>2, <1>3, <1>4, OutcomesAppended DEF Appending
<1>9. \A k \in Keys : k \in Unresolved(Candidate) <=>
        (phase = "begin" /\ k = request.key) \/ (k \in Unresolved(rows) /\ ~ (phase = "commit" /\ k = request.key))
  BY <1>1, <1>2, <1>3, <1>4, UnresolvedAppended DEF Appending
<1> QED
  BY <1>5, <1>6, <1>7, <1>8, <1>9

(* The last row of a version, when it is the one in hand. *)
LEMMA EndsFacts ==
  ASSUME TypeOK, PhaseInv, Appending, NEW rs \in Seq(Row), Ends(rs, NewRow)
  PROVE  /\ phase = "begin" => request.key \in Unresolved(rs)
         /\ phase = "commit" => request.key \in Outcomes(rs) /\ request.key \notin Unresolved(rs)
         /\ Stages(NewRow) => request.op \in Retained(rs)
<1>1. /\ request \in Requests /\ request.key \in Keys /\ request.op \in Operations /\ success \in BOOLEAN
      /\ NewRow \in Row /\ NewRow.request = request
      /\ phase = "begin" => NewRow = Active(request)
      /\ phase = "commit" => NewRow = Complete(request, success)
  BY NewRowFacts DEF TypeOK
<1>2. /\ phase = "begin" => IsActive(NewRow) /\ ~IsComplete(NewRow)
      /\ phase = "commit" => ~IsActive(NewRow) /\ IsComplete(NewRow)
  BY <1>1, ActiveFacts, CompleteFacts
<1> DEFINE n == Len(rs)
<1>3. n \in Nat /\ n > 0 /\ rs[n] = NewRow /\ DOMAIN rs = 1 .. n /\ n \in 1 .. n /\ \A j \in n + 1 .. n : FALSE
  BY DEF Ends
<1>4. ASSUME phase = "begin" PROVE request.key \in Unresolved(rs)
  BY <1>1, <1>2, <1>3, <1>4 DEF Unresolved
<1>5. ASSUME phase = "commit" PROVE request.key \in Outcomes(rs)
  BY <1>1, <1>2, <1>3, <1>5, OutcomesAre
<1>6. ASSUME phase = "commit" PROVE request.key \notin Unresolved(rs)
  <2> SUFFICES ASSUME NEW i \in 1 .. n, IsActive(rs[i]),
                      \A j \in i + 1 .. n : ~ (IsComplete(rs[j]) /\ rs[j].request.key = request.key)
               PROVE  FALSE
    BY <1>3 DEF Unresolved
  <2>1. i # n
    BY <1>2, <1>3, <1>6
  <2>2. n \in i + 1 .. n
    <3> HIDE DEF n
    <3>1. i \in Nat /\ i <= n /\ n \in Nat
      BY <1>3
    <3> QED
      BY <2>1, <3>1
  <2> QED
    BY <2>2, <1>1, <1>2, <1>3, <1>6
<1>7. ASSUME Stages(NewRow) PROVE request.op \in Retained(rs)
  BY <1>1, <1>3, <1>7 DEF Retained
<1> QED
  BY <1>4, <1>5, <1>6, <1>7

(* The compacted journal says what the old one and the new row say. *)
LEMMA CompactedFacts ==
  ASSUME TypeOK, PhaseInv, MemoryInv, Appending
  PROVE  /\ Compacted \in Seq(Row) /\ Clean(Compacted) /\ Ends(Compacted, NewRow)
         /\ Good(Compacted) /\ Accounted(Compacted)
         /\ Outcomes(Compacted) \subseteq Outcomes(Candidate)
         /\ Unresolved(Compacted) = Unresolved(Candidate)
<1>1. /\ Candidate \in Seq(Row) /\ Len(Candidate) > 0 /\ Clean(Candidate) /\ Good(Candidate)
      /\ Candidate[Len(Candidate)] = NewRow
      /\ Outcomes(Candidate) = IF phase = "commit" THEN Outcomes(rows) \union {request.key} ELSE Outcomes(rows)
  BY CandidateFacts DEF Ends
<1>2. Compacted = Projection(Candidate, Reserve(phase))
  BY DEF Compacted, Projection
<1>3. /\ Compacted \in Seq(Row) /\ Clean(Compacted) /\ Ends(Compacted, NewRow)
      /\ Unresolved(Compacted) = Unresolved(Candidate)
      /\ Retained(Candidate) \subseteq Retained(Compacted)
      /\ Outcomes(Compacted) \subseteq Outcomes(Candidate)
      /\ \A r \in Requests : Fenced(Candidate, r) => Fenced(Compacted, r)
  BY <1>1, <1>2, ProjectionKeeps
<1>4. Outcomes(rows) \subseteq recorded
  BY DEF MemoryInv, Serving, Appending
<1>5. phase = "commit" => request.key \in Outcomes(Compacted)
  BY <1>3, EndsFacts
<1>6. Good(Compacted)
  <2>1. ASSUME NEW k \in Keys, runs[k] > 0, k \notin recorded
        PROVE  k \in Unresolved(Compacted) \union Outcomes(Compacted)
    <3>1. k \in Unresolved(Candidate) \union Outcomes(Candidate)
      BY <2>1, <1>1 DEF Good, GoodFor
    <3>2. k \notin Outcomes(rows)
      BY <2>1, <1>4
    <3> QED
      BY <3>1, <3>2, <1>1, <1>3, <1>5
  <2> QED
    BY <2>1, <1>1, <1>3 DEF Good, GoodFor
<1>7. Accounted(Compacted)
  BY <1>1, <1>3, <1>4, <1>5 DEF Accounted, AccountedFor, Appending
<1> QED
  BY <1>1, <1>3, <1>6, <1>7

(* Where the journal may be gone altogether nothing has run, and there is   *)
(* nothing to say.                                                          *)
LEMMA NothingToSay ==
  ASSUME TypeOK, PhaseInv, Good(<<>>), Accounted(<<>>), NEW rs
  PROVE  Good(rs) /\ phase # "commit"
<1>1. Retained(<<>>) = {} /\ Unresolved(<<>>) = {} /\ Outcomes(<<>>) = {}
  BY DEF Retained, Unresolved, Outcomes, Replays
<1>2. \A r \in Requests : ~Fenced(<<>>, r)
  BY DEF Fenced
<1>3. \A r \in Requests : ~ (runs[r.key] > 0)
  BY <1>2 DEF Good, GoodFor
<1>4. \A k \in Keys : ~ (runs[k] > 0)
  BY <1>3 DEF Keys
<1>5. confirmed = {} /\ staged = {}
  BY <1>1, <1>4 DEF PhaseInv, TypeOK, Good, GoodFor
<1>6. phase # "commit"
  BY <1>1 DEF Accounted, AccountedFor
<1> QED
  BY <1>3, <1>4, <1>5, <1>6 DEF Good, GoodFor

(***************************************************************************)
(* Steps of append and compact.                                            *)
(***************************************************************************)
(* The versions of the journal, file by file. *)
LEMMA RecoverableIs ==
  ASSUME NEW j, NEW others, NEW new, NEW rs
  PROVE  rs \in RecoverableFrom(j, others, new) <=>
           \/ \E f \in {j} \union others : rs \in Versions(f)
           \/ Absent \in {j} \union others /\ rs \in Versions(new)
<1>1. rs \in RecoverableFrom(j, others, new) <=> \E f \in Sources(j, others, new) : rs \in Versions(f)
  BY DEF RecoverableFrom
<1> QED
  BY <1>1 DEF Sources

(* Every file is well formed. *)
LEMMA FilesOK ==
  ASSUME TypeOK
  PROVE  /\ FileOK(main) /\ FileOK(temporary) /\ \A f \in former : FileOK(f)
         /\ \A rs \in Recoverable : rs \in Seq(Row)
<1>1. FileOK(main) /\ FileOK(temporary) /\ \A f \in former : FileOK(f)
  BY DEF TypeOK, FileOK
<1>2. ASSUME NEW rs \in Recoverable PROVE rs \in Seq(Row)
  <2>1. PICK f \in {main, temporary} \union former : rs \in Versions(f)
    BY RecoverableIs DEF Recoverable
  <2>2. FileOK(f)
    BY <1>1
  <2> QED
    BY <2>1, <2>2, VersionsAre
<1> QED
  BY <1>1, <1>2

(* Absent is not the name of a write. *)
LEMMA NamesDiffer == Absent \notin WriteSteps /\ Absent # "reload" /\ Absent # "sync" /\ Absent # "syncdir"
                     /\ Absent # "syncpublished" /\ Absent # "syncnew" /\ Absent # "publish"
                     /\ Absent # "project" /\ Absent # "write" /\ Absent # "writenew"
BY AbsentAssumption DEF WriteSteps

(* A write is in hand only in Begin and in Commit. *)
LEMMA AtStep ==
  ASSUME IInv, step \in WriteSteps
  PROVE  Appending /\ Serving
BY AbsentAssumption DEF IInv, PhaseInv, Appending, Serving

(* A step that changes only files and the write to wait for next. *)
LEMMA FileStep ==
  ASSUME IInv, Appending,
         UNCHANGED <<rows, phase, request, success, crashes, history, cutFailed>>,
         faults' \in 0 .. MaxFaults, step' \in WriteSteps,
         FileOK(main'), FileOK(temporary'), \A f \in former' : FileOK(f),
         \A rs \in RecoverableFrom(main', former', temporary') :
            Clean(rs) => rs \in Recoverable \/ (Good(rs) /\ Accounted(rs)),
         StepInv', ReadInv'
  PROVE  IInv'
<1> USE DEF history
<1>1. TypeOK'
  BY DEF IInv, TypeOK, FileOK
<1>2. VersionInv'
  <2> SUFFICES ASSUME NEW rs \in Recoverable', Clean(rs)
               PROVE  Good(rs)' /\ Accounted(rs)'
    BY DEF VersionInv, Clean
  <2>1. rs \in RecoverableFrom(main', former', temporary')
    BY DEF Recoverable
  <2>2. Good(rs) /\ Accounted(rs)
    BY <2>1 DEF IInv, VersionInv
  <2> QED
    BY <2>2 DEF Good, Accounted
<1>3. MemoryInv'
  BY DEF IInv, MemoryInv, Serving, Good
<1>4. PhaseInv'
  BY NamesDiffer DEF IInv, PhaseInv, Appending
<1> QED
  BY <1>1, <1>2, <1>3, <1>4 DEF IInv

(* What a failing file operation does. *)
LEMMA FailFacts ==
  ASSUME IInv, Fail
  PROVE  /\ UNCHANGED <<rows, phase, request, success, crashes, history, cutFailed>>
         /\ faults' \in 0 .. MaxFaults /\ step' = "reload" /\ step' \in WriteSteps /\ StepInv'
<1>1. UNCHANGED <<rows, phase, request, success, crashes, history, cutFailed>> /\ step' = "reload"
  BY DEF Fail
<1>2. faults' \in 0 .. MaxFaults
  BY BoundAssumption DEF IInv, TypeOK, Fail
<1>3. StepInv'
  BY <1>1 DEF StepInv
<1> QED
  BY <1>1, <1>2, <1>3 DEF WriteSteps

(* What waiting for the next write does. *)
LEMMA GotoFacts ==
  ASSUME IInv, NEW s \in WriteSteps, Goto(s)
  PROVE  /\ UNCHANGED <<rows, phase, request, success, crashes, history, cutFailed>>
         /\ faults' \in 0 .. MaxFaults /\ step' = s /\ step' \in WriteSteps
         /\ NewRow' = NewRow /\ Candidate' = Candidate /\ Compacted' = Compacted
<1>1. UNCHANGED <<rows, phase, request, success, crashes, faults, history, cutFailed>> /\ step' = s
  BY DEF Goto
<1>2. NewRow' = NewRow
  BY <1>1 DEF NewRow
<1>3. Candidate' = Candidate
  BY <1>1, <1>2 DEF Candidate
<1>4. Compacted' = Compacted
  BY <1>1, <1>3 DEF Compacted
<1> QED
  BY <1>1, <1>2, <1>3, <1>4 DEF IInv, TypeOK

(* The file that WriteLine opens, and the line it writes. *)
LEMMA OpenedFacts ==
  ASSUME IInv
  PROVE  /\ Opened # Absent /\ FileOK(Opened) /\ Versions(Opened) \subseteq Versions(main)
         /\ FileRows(Opened) = FileRows(main)
         /\ Opened.torn => main # Absent /\ main.torn
<1>1. FileOK(main)
  BY FilesOK DEF IInv
<1>2. EmptyFile \in File /\ EmptyFile.rows = <<>> /\ EmptyFile.synced = 0 /\ EmptyFile.torn = FALSE
  BY DEF EmptyFile, File
<1>3. EmptyFile # Absent /\ FileOK(EmptyFile)
  BY <1>2, AbsentAssumption DEF FileOK
<1>4. CASE main = Absent
  <2>1. Opened = EmptyFile
    BY <1>4 DEF Opened
  <2>2. Whole(EmptyFile) /\ FileRows(EmptyFile) = <<>>
    BY <1>2, <1>3 DEF Whole, FileRows
  <2>3. Versions(EmptyFile) = {<<>>}
    BY <1>3, <2>2, VersionsAre
  <2> QED
    BY <1>2, <1>3, <1>4, <2>1, <2>2, <2>3 DEF Versions, FileRows
<1>5. CASE main # Absent
  BY <1>1, <1>5 DEF Opened
<1> QED
  BY <1>4, <1>5

(* Writing a line, whole or torn, gives a well-formed file. *)
LEMMA LineFacts ==
  ASSUME IInv, Appending, NEW f, FileOK(f), f # Absent
  PROVE  /\ Line(f) # Absent /\ FileOK(Line(f)) /\ ~Line(f).torn
         /\ Line(f).rows = Append(f.rows, IF f.torn THEN Corrupt ELSE NewRow)
         /\ Versions(Line(f)) \subseteq Versions(f) \union {Line(f).rows}
         /\ Clean(Line(f).rows) => Line(f).rows = Append(f.rows, NewRow) /\ Ends(Line(f).rows, NewRow) /\ Clean(f.rows)
         /\ ~f.torn /\ Clean(f.rows) => Clean(Line(f).rows)
<1> DEFINE row == IF f.torn THEN Corrupt ELSE NewRow
           g == Line(f)
<1>1. f.rows \in Seq(Row) /\ f.synced \in 0 .. Len(f.rows) /\ f \in File /\ Len(f.rows) \in Nat
  BY FileFacts DEF FileOK
<1>2. row \in Row /\ NewRow # Corrupt /\ NewRow \in Row
  BY NewRowFacts DEF IInv, Row
<1>3. g = [f EXCEPT !.rows = Append(@, row), !.torn = FALSE]
  BY DEF Line
<1> HIDE DEF row
<1>4. g.rows = Append(f.rows, row) /\ g.torn = FALSE /\ g.synced = f.synced
  BY <1>1, <1>3 DEF File
<1>5. Append(f.rows, row) \in Seq(Row) /\ Len(Append(f.rows, row)) = Len(f.rows) + 1
  BY <1>1, <1>2, RowsAppended
<1>6. g \in File
  BY <1>1, <1>3, <1>5 DEF File
<1> HIDE DEF g
<1>7. g # Absent /\ FileOK(g)
  BY <1>1, <1>4, <1>5, <1>6, AbsentAssumption DEF FileOK
<1>8. Versions(g) \subseteq Versions(f) \union {g.rows}
  BY <1>2, <1>4, <1>7, LineVersions
<1>9. Clean(g.rows) <=> Clean(f.rows) /\ row # Corrupt
  BY <1>1, <1>2, <1>4, CleanAppended
<1>10. Ends(g.rows, row)
  BY <1>1, <1>2, <1>4, <1>5, RowsAppended DEF Ends
<1>11. row # Corrupt => row = NewRow
  BY DEF row
<1>12. ~f.torn => row = NewRow
  BY DEF row
<1> QED
  BY <1>2, <1>4, <1>7, <1>8, <1>9, <1>10, <1>11, <1>12 DEF g, row

(* What is read of the journal, or of the ".new" without it, is a version. *)
LEMMA InRecoverable ==
  ASSUME NEW rs
  PROVE  /\ rs \in Versions(main) => rs \in Recoverable
         /\ \A f \in former : rs \in Versions(f) => rs \in Recoverable
         /\ Absent \in {main} \union former /\ rs \in Versions(temporary) => rs \in Recoverable
BY RecoverableIs DEF Recoverable

(* append: the write of the line, whole, torn or failed. *)
LEMMA WriteLineKeeps == ASSUME IInv, WriteLine PROVE IInv'
<1> DEFINE torn == [Opened EXCEPT !.torn = TRUE]
<1>1. step = "write" /\ former' = Creates /\ temporary' = temporary /\ Appending /\ Serving
  BY AtStep DEF WriteLine, At, WriteSteps
<1>2. /\ main' \in {Opened, torn, Line(Opened)}
      /\ (main' = Line(Opened) /\ Goto("sync")) \/ Fail
  BY DEF WriteLine
<1>3. /\ FileOK(main) /\ FileOK(temporary) /\ \A f \in former : FileOK(f)
  BY FilesOK DEF IInv
<1>4. /\ Opened # Absent /\ FileOK(Opened) /\ Versions(Opened) \subseteq Versions(main)
      /\ FileRows(Opened) = FileRows(main) /\ Opened.rows = FileRows(main)
      /\ Opened.torn => main # Absent /\ main.torn
  BY OpenedFacts DEF FileRows
<1>5. /\ Line(Opened) # Absent /\ FileOK(Line(Opened)) /\ ~Line(Opened).torn
      /\ Versions(Line(Opened)) \subseteq Versions(Opened) \union {Line(Opened).rows}
      /\ Clean(Line(Opened).rows) =>
           /\ Line(Opened).rows = Append(FileRows(main), NewRow)
           /\ Ends(Line(Opened).rows, NewRow) /\ Clean(FileRows(main))
      /\ ~Opened.torn /\ Clean(FileRows(main)) => Clean(Line(Opened).rows)
  BY <1>1, <1>4, LineFacts
<1>6. torn # Absent /\ FileOK(torn) /\ Versions(torn) \subseteq Versions(Opened) /\ torn.rows = FileRows(main)
  <2>1. Opened \in File /\ Opened.synced \in 0 .. Len(Opened.rows)
    BY <1>4, FileFacts DEF FileOK
  <2>2. torn \in File /\ torn.rows = Opened.rows /\ torn.synced = Opened.synced
    BY <2>1 DEF File
  <2> HIDE DEF torn
  <2>3. torn # Absent /\ FileOK(torn)
    BY <2>1, <2>2, <1>4, AbsentAssumption DEF FileOK
  <2> QED
    BY <2>1, <2>2, <2>3, <1>4, SyncedVersions
<1> HIDE DEF torn
<1>7. main' # Absent /\ FileOK(main') /\ Versions(main') \subseteq Versions(main) \union {Line(Opened).rows}
  BY <1>2, <1>4, <1>5, <1>6
<1>8. \A f \in former' : FileOK(f) /\ (f \in former \/ (f = Absent /\ main = Absent))
  BY <1>1, <1>3 DEF Creates, FileOK
<1>9. ASSUME NEW rs \in RecoverableFrom(main', former', temporary'), Clean(rs)
      PROVE  rs \in Recoverable \/ (Good(rs) /\ Accounted(rs))
  <2>1. CASE rs \in Versions(main)
    BY <2>1, InRecoverable
  <2>2. CASE rs = Line(Opened).rows
    <3>1. rs = Append(FileRows(main), NewRow) /\ Clean(FileRows(main))
      BY <2>2, <1>5, <1>9
    <3>2. FileRows(main) \in Seq(Row) /\ FileRows(main) \in Recoverable
      BY <1>3, VersionsAre, InRecoverable
    <3>3. Good(FileRows(main)) /\ Accounted(FileRows(main))
      BY <3>1, <3>2 DEF IInv, VersionInv
    <3> QED
      BY <3>1, <3>2, <3>3, <1>1, GoodAppended, AccountedAppended DEF IInv
  <2>3. CASE \E f \in former' : rs \in Versions(f)
    BY <2>3, <1>8, InRecoverable
  <2>4. CASE Absent \in {main'} \union former' /\ rs \in Versions(temporary')
    BY <2>4, <1>1, <1>7, <1>8, InRecoverable
  <2> QED
    BY <1>7, <1>9, <2>1, <2>2, <2>3, <2>4, RecoverableIs
<1>10. ASSUME ~cutFailed
       PROVE  \A f \in {main', temporary'} \union former' : Readable(f)
  <2>1. \A f \in {main, temporary} \union former : Readable(f)
    BY <1>10 DEF IInv, ReadInv
  <2>2. Clean(FileRows(main)) /\ ~Opened.torn
    <3>1. Clean(FileRows(main))
      BY <2>1, <1>3, ReadableIs
    <3>2. ~ (main # Absent /\ main.torn)
      BY <1>1, <1>10 DEF IInv, ReadInv, Serving
    <3> QED
      BY <3>1, <3>2, <1>4
  <2>3. Clean(FileRows(main'))
    BY <2>2, <1>2, <1>4, <1>5, <1>6 DEF FileRows
  <2>4. Readable(main')
    BY <2>3, <1>7, ReadableIs
  <2>5. Readable(Absent)
    BY DEF Readable, FileRows, Range
  <2> QED
    BY <2>1, <2>4, <2>5, <1>1, <1>8
<1>11. CASE main' = Line(Opened) /\ Goto("sync")
  <2>1. /\ UNCHANGED <<rows, phase, request, success, crashes, history, cutFailed>>
        /\ faults' \in 0 .. MaxFaults /\ step' = "sync" /\ step' \in WriteSteps /\ NewRow' = NewRow
    BY <1>11, GotoFacts DEF WriteSteps
  <2>2. StepInv'
    BY <1>5, <1>7, <1>11, <2>1 DEF StepInv
  <2>3. ReadInv'
    BY <1>5, <1>10, <1>11, <2>1 DEF ReadInv
  <2> QED
    BY <1>1, <1>3, <1>7, <1>8, <1>9, <2>1, <2>2, <2>3, FileStep
<1>12. CASE Fail
  <2>1. /\ UNCHANGED <<rows, phase, request, success, crashes, history, cutFailed>>
        /\ faults' \in 0 .. MaxFaults /\ step' = "reload" /\ step' \in WriteSteps /\ StepInv'
    BY <1>12, FailFacts
  <2>2. ReadInv'
    BY <1>10, <2>1 DEF ReadInv
  <2> QED
    BY <1>1, <1>3, <1>7, <1>8, <1>9, <2>1, <2>2, FileStep
<1> QED
  BY <1>2, <1>11, <1>12

(* A failure that leaves the journal alone, and perhaps something of the    *)
(* ".new".                                                                  *)
LEMMA FailKeeps ==
  ASSUME IInv, step \in WriteSteps, Fail, main' = main, former' = former,
         FileOK(temporary'), ~cutFailed => Readable(temporary'),
         temporary' = temporary \/ FileRows(temporary') = <<>>
  PROVE  IInv'
<1>1. Appending /\ Serving
  BY AtStep
<1>2. /\ UNCHANGED <<rows, phase, request, success, crashes, history, cutFailed>>
      /\ faults' \in 0 .. MaxFaults /\ step' = "reload" /\ step' \in WriteSteps /\ StepInv'
  BY FailFacts
<1>3. FileOK(main) /\ FileOK(temporary) /\ \A f \in former : FileOK(f)
  BY FilesOK DEF IInv
<1>4. ReadInv'
  BY <1>2 DEF IInv, ReadInv
<1>5. ASSUME NEW rs \in RecoverableFrom(main', former', temporary'), Clean(rs)
      PROVE  rs \in Recoverable
  <2>1. CASE temporary' = temporary
    BY <1>5, <2>1 DEF Recoverable
  <2>2. CASE FileRows(temporary') = <<>>
    <3>1. Versions(temporary') = {<<>>}
      <4>1. CASE temporary' = Absent
        BY <4>1 DEF Versions
      <4>2. CASE temporary' # Absent
        <5>1. temporary'.rows = <<>> /\ temporary'.synced \in 0 .. Len(temporary'.rows)
          BY <4>2, <2>2, FileFacts DEF FileRows
        <5>2. Whole(temporary')
          BY <5>1 DEF Whole
        <5> QED
          BY <5>2, <2>2, VersionsAre
      <4> QED
        BY <4>1, <4>2
    <3>2. <<>> \in Versions(Absent)
      BY DEF Versions
    <3> QED
      BY <1>5, <3>1, <3>2, RecoverableIs, InRecoverable
  <2> QED
    BY <2>1, <2>2
<1> QED
  BY <1>1, <1>2, <1>3, <1>4, <1>5, FileStep

(* append: the fsync of the journal. *)
LEMMA SyncLineKeeps == ASSUME IInv, SyncLine PROVE IInv'
<1> DEFINE g == [main EXCEPT !.synced = Len(main.rows)]
<1>1. step = "sync" /\ former' = former /\ temporary' = temporary /\ Appending /\ step \in WriteSteps
  BY AtStep DEF SyncLine, At, WriteSteps
<1>2. (main' = g /\ Goto("syncdir")) \/ (main' = main /\ Fail)
  BY DEF SyncLine
<1>3. FileOK(main) /\ FileOK(temporary) /\ \A f \in former : FileOK(f)
  BY FilesOK DEF IInv
<1>4. main # Absent /\ (Clean(main.rows) => Ends(main.rows, NewRow))
  BY <1>1 DEF IInv, StepInv
<1>5. main.rows \in Seq(Row) /\ main.synced \in 0 .. Len(main.rows) /\ main \in File /\ Len(main.rows) \in Nat
  BY <1>3, <1>4, FileFacts DEF FileOK
<1>6. g \in File /\ g.rows = main.rows /\ g.synced = Len(main.rows) /\ g.torn = main.torn
  BY <1>5 DEF File
<1> HIDE DEF g
<1>7. g # Absent /\ FileOK(g)
  BY <1>5, <1>6, AbsentAssumption DEF FileOK
<1>8. Versions(g) \subseteq Versions(main)
  BY <1>3, <1>4, <1>5, <1>6, <1>7, SyncedVersions
<1>9. CASE main' = g /\ Goto("syncdir")
  <2>1. /\ UNCHANGED <<rows, phase, request, success, crashes, history, cutFailed>>
        /\ faults' \in 0 .. MaxFaults /\ step' = "syncdir" /\ step' \in WriteSteps /\ NewRow' = NewRow
    BY <1>9, GotoFacts DEF WriteSteps
  <2>2. StepInv'
    BY <1>4, <1>6, <1>7, <1>9, <2>1 DEF StepInv, Whole
  <2>3. Readable(main') <=> Readable(main)
    BY <1>4, <1>6, <1>7, <1>9 DEF Readable, FileRows
  <2>4. ReadInv'
    BY <2>1, <2>3, <1>1, <1>4, <1>6, <1>9 DEF IInv, ReadInv, Appending
  <2>5. ASSUME NEW rs \in RecoverableFrom(main', former', temporary')
        PROVE  rs \in Recoverable
    BY <1>1, <1>7, <1>8, <1>9, RecoverableIs, InRecoverable
  <2> QED
    BY <1>1, <1>3, <1>7, <1>9, <2>1, <2>2, <2>4, <2>5, FileStep
<1>10. CASE main' = main /\ Fail
  <2>1. ~cutFailed => Readable(temporary')
    BY <1>1 DEF IInv, ReadInv
  <2> QED
    BY <1>1, <1>3, <1>10, <2>1, FailKeeps
<1> QED
  BY <1>2, <1>9, <1>10

(* A file that is not there reads as an empty one. *)
LEMMA AbsentFacts == FileOK(Absent) /\ Readable(Absent) /\ FileRows(Absent) = <<>> /\ Versions(Absent) = {<<>>}
BY DEF FileOK, Readable, FileRows, Range, Versions

(* A step that changes only the ".new", and to something of which every     *)
(* version says nothing but what the new row says.                          *)
LEMMA NewFileStep ==
  ASSUME IInv, NEW s \in WriteSteps, step \in WriteSteps, step # "reload", Goto(s),
         main' = main, former' = former, FileOK(temporary'),
         Clean(FileRows(temporary')), Outcomes(FileRows(temporary')) \subseteq Outcomes(Candidate),
         StepInv'
  PROVE  IInv'
<1>1. Appending /\ Serving
  BY AtStep
<1>2. /\ UNCHANGED <<rows, phase, request, success, crashes, history, cutFailed>>
      /\ faults' \in 0 .. MaxFaults /\ step' = s /\ step' \in WriteSteps
  BY GotoFacts
<1>3. FileOK(main) /\ FileOK(temporary) /\ \A f \in former : FileOK(f)
  BY FilesOK DEF IInv
<1>4. Readable(temporary')
  BY ReadableIs
<1>5. ReadInv'
  BY <1>1, <1>2, <1>4 DEF IInv, ReadInv, Serving
<1>6. ASSUME Absent \in {main} \union former, NEW rs \in Versions(temporary')
      PROVE  Good(rs) /\ Accounted(rs)
  <2>1. <<>> \in Recoverable
    BY <1>6, AbsentFacts, InRecoverable
  <2>2. Clean(<<>>)
    BY DEF Clean
  <2>3. Good(rs) /\ phase # "commit"
    BY <2>1, <2>2, NothingToSay DEF IInv, VersionInv
  <2>4. phase = "begin"
    BY <1>1, <2>3 DEF Appending
  <2>5. Outcomes(Candidate) \subseteq recorded
    <3>1. Outcomes(Candidate) = Outcomes(rows)
      BY <1>1, <2>3, CandidateFacts DEF IInv
    <3> QED
      BY <3>1, <1>1 DEF IInv, MemoryInv
  <2>6. Outcomes(rs) \subseteq Outcomes(FileRows(temporary'))
    <3>1. rs \in Seq(Row) /\ FileRows(temporary') \in Seq(Row)
      BY VersionsAre
    <3>2. CASE temporary' = Absent
      BY <3>2, <1>6, AbsentFacts
    <3>3. CASE temporary' # Absent
      <4>1. PICK n \in temporary'.synced .. Len(temporary'.rows) : rs = SubSeq(temporary'.rows, 1, n)
        BY <3>3, <1>6 DEF Versions
      <4>2. temporary'.rows \in Seq(Row) /\ n \in 0 .. Len(temporary'.rows) /\ FileRows(temporary') = temporary'.rows
        BY <3>3, FileFacts DEF FileRows
      <4>3. Len(rs) = n /\ \A i \in 1 .. n : rs[i] = temporary'.rows[i] /\ i \in 1 .. Len(temporary'.rows)
        BY <4>1, <4>2, PrefixFacts
      <4> QED
        BY <3>1, <4>2, <4>3, OutcomesAre
    <3> QED
      BY <3>2, <3>3
  <2> QED
    BY <2>3, <2>4, <2>5, <2>6 DEF Accounted, AccountedFor
<1>7. ASSUME NEW rs \in RecoverableFrom(main', former', temporary')
      PROVE  rs \in Recoverable \/ (Good(rs) /\ Accounted(rs))
  BY <1>6, RecoverableIs, InRecoverable
<1> QED
  BY <1>1, <1>2, <1>3, <1>5, <1>7, FileStep

(* compact: the projection, and the opening of the ".new". *)
LEMMA StartCompactionKeeps == ASSUME IInv, StartCompaction PROVE IInv'
<1>1. step = "project" /\ main' = main /\ former' = former /\ step \in WriteSteps
  BY DEF StartCompaction, At, WriteSteps
<1>2. \/ temporary' = Absent /\ \E s \in {"reload", "writenew"} : Goto(s)
      \/ temporary' = temporary /\ Fail
  BY DEF StartCompaction
<1>3. FileOK(temporary)
  BY FilesOK DEF IInv
<1>4. CASE temporary' = Absent /\ \E s \in {"reload", "writenew"} : Goto(s)
  <2>1. PICK s \in {"reload", "writenew"} : Goto(s)
    BY <1>4
  <2>2. s \in WriteSteps
    BY DEF WriteSteps
  <2>3. step' = s
    BY <2>1 DEF Goto
  <2>4. StepInv'
    BY <2>3 DEF StepInv
  <2>5. Clean(<<>>) /\ Outcomes(<<>>) = {}
    BY DEF Clean, Outcomes, Replays
  <2> QED
    BY <1>1, <1>4, <2>1, <2>2, <2>4, <2>5, AbsentFacts, NewFileStep
<1>5. CASE temporary' = temporary /\ Fail
  <2>1. ~cutFailed => Readable(temporary')
    BY <1>5 DEF IInv, ReadInv
  <2> QED
    BY <1>1, <1>3, <1>5, <2>1, FailKeeps
<1> QED
  BY <1>2, <1>4, <1>5

(* compact: the write of the ".new". *)
LEMMA WriteNewKeeps == ASSUME IInv, WriteNew PROVE IInv'
<1> DEFINE full == [EmptyFile EXCEPT !.rows = Compacted]
           part == [EmptyFile EXCEPT !.torn = TRUE]
<1>1. step = "writenew" /\ main' = main /\ former' = former /\ step \in WriteSteps /\ Appending
  BY AtStep DEF WriteNew, At, WriteSteps
<1>2. (temporary' = full /\ Goto("syncnew")) \/ (temporary' \in {Absent, part} /\ Fail)
  BY DEF WriteNew
<1>3. /\ Compacted \in Seq(Row) /\ Clean(Compacted) /\ Outcomes(Compacted) \subseteq Outcomes(Candidate)
  BY <1>1, CompactedFacts DEF IInv
<1>4. full \in File /\ full.rows = Compacted /\ full.synced = 0 /\ full.torn = FALSE
  BY <1>3 DEF EmptyFile, File
<1>5. part \in File /\ part.rows = <<>> /\ part.synced = 0
  <2>1. EmptyFile \in File /\ EmptyFile.rows = <<>> /\ EmptyFile.synced = 0
    BY DEF EmptyFile, File
  <2> QED
    BY <2>1 DEF File
<1> HIDE DEF full, part
<1>6. full # Absent /\ FileOK(full) /\ FileRows(full) = Compacted
  BY <1>3, <1>4, AbsentAssumption DEF FileOK, FileRows
<1>7. part # Absent /\ FileOK(part) /\ FileRows(part) = <<>>
  BY <1>5, AbsentAssumption DEF FileOK, FileRows
<1>8. CASE temporary' = full /\ Goto("syncnew")
  <2>1. step' = "syncnew" /\ "syncnew" \in WriteSteps /\ Compacted' = Compacted
    BY <1>8, GotoFacts DEF WriteSteps
  <2>2. StepInv'
    BY <1>4, <1>6, <1>8, <2>1 DEF StepInv
  <2> QED
    BY <1>1, <1>3, <1>6, <1>8, <2>1, <2>2, NewFileStep
<1>9. CASE temporary' \in {Absent, part} /\ Fail
  <2>1. FileOK(temporary') /\ FileRows(temporary') = <<>>
    BY <1>7, <1>9, AbsentFacts
  <2>2. Readable(temporary')
    BY <2>1, ReadableIs DEF Clean
  <2> QED
    BY <1>1, <1>9, <2>1, <2>2, FailKeeps
<1> QED
  BY <1>2, <1>8, <1>9

(* compact: the fsync of the ".new". *)
LEMMA SyncNewKeeps == ASSUME IInv, SyncNew PROVE IInv'
<1> DEFINE full == [temporary EXCEPT !.synced = Len(temporary.rows)]
<1>1. step = "syncnew" /\ main' = main /\ former' = former /\ step \in WriteSteps /\ Appending
  BY AtStep DEF SyncNew, At, WriteSteps
<1>2. (temporary' = full /\ Goto("publish")) \/ (temporary' \in {Absent, temporary} /\ Fail)
  BY DEF SyncNew
<1>3. /\ Compacted \in Seq(Row) /\ Clean(Compacted) /\ Outcomes(Compacted) \subseteq Outcomes(Candidate)
  BY <1>1, CompactedFacts DEF IInv
<1>4. temporary # Absent /\ temporary.rows = Compacted /\ ~temporary.torn
  BY <1>1 DEF IInv, StepInv
<1>5. FileOK(temporary) /\ temporary \in File /\ Len(temporary.rows) \in Nat
  BY <1>4, FilesOK, FileFacts DEF IInv, FileOK
<1>6. full \in File /\ full.rows = Compacted /\ full.synced = Len(full.rows) /\ full.torn = temporary.torn
  BY <1>4, <1>5 DEF File
<1> HIDE DEF full
<1>7. full # Absent /\ FileOK(full) /\ FileRows(full) = Compacted /\ Whole(full)
  BY <1>4, <1>5, <1>6, AbsentAssumption DEF FileOK, FileRows, Whole
<1>8. CASE temporary' = full /\ Goto("publish")
  <2>1. step' = "publish" /\ "publish" \in WriteSteps /\ Compacted' = Compacted
    BY <1>8, GotoFacts DEF WriteSteps
  <2>2. StepInv'
    BY <1>4, <1>6, <1>7, <1>8, <2>1 DEF StepInv
  <2> QED
    BY <1>1, <1>3, <1>7, <1>8, <2>1, <2>2, NewFileStep
<1>9. CASE temporary' \in {Absent, temporary} /\ Fail
  <2>1. FileOK(temporary') /\ (temporary' = temporary \/ FileRows(temporary') = <<>>)
    BY <1>5, <1>9, AbsentFacts
  <2>2. ~cutFailed => Readable(temporary')
    BY <1>9, AbsentFacts DEF IInv, ReadInv
  <2> QED
    BY <1>1, <1>9, <2>1, <2>2, FailKeeps
<1> QED
  BY <1>2, <1>8, <1>9

(* compact: the rename, before which the ".new" is durable. *)
LEMMA PublishKeeps == ASSUME IInv, Publish PROVE IInv'
<1>1. step = "publish" /\ step \in WriteSteps /\ Appending /\ Serving
  BY AtStep DEF Publish, At, WriteSteps
<1>2. /\ Compacted \in Seq(Row) /\ Clean(Compacted) /\ Ends(Compacted, NewRow)
      /\ Good(Compacted) /\ Accounted(Compacted)
  BY <1>1, CompactedFacts DEF IInv
<1>3. temporary # Absent /\ temporary.rows = Compacted /\ ~temporary.torn /\ Whole(temporary)
  BY <1>1 DEF IInv, StepInv
<1>4. FileOK(main) /\ FileOK(temporary) /\ \A f \in former : FileOK(f)
  BY FilesOK DEF IInv
<1>5. FileRows(temporary) = Compacted /\ Versions(temporary) = {Compacted}
  BY <1>3, <1>4, VersionsAre DEF FileRows
<1>6. CASE main' = temporary /\ temporary' = Absent /\ former' = former \union {main} /\ Goto("syncpublished")
  <2>1. /\ UNCHANGED <<rows, phase, request, success, crashes, history, cutFailed>>
        /\ faults' \in 0 .. MaxFaults /\ step' = "syncpublished" /\ step' \in WriteSteps
        /\ NewRow' = NewRow /\ Compacted' = Compacted
    BY <1>6, GotoFacts DEF WriteSteps
  <2>2. StepInv'
    BY <1>2, <1>3, <1>6, <2>1 DEF StepInv
  <2>3. ReadInv'
    BY <1>3, <1>6, <2>1, AbsentFacts DEF IInv, ReadInv
  <2>4. ASSUME NEW rs \in RecoverableFrom(main', former', temporary')
        PROVE  rs \in Recoverable \/ (Good(rs) /\ Accounted(rs))
    <3>1. CASE rs \in Versions(temporary)
      BY <3>1, <1>2, <1>5
    <3>2. CASE \E f \in former \union {main} : rs \in Versions(f)
      BY <3>2, InRecoverable
    <3>3. CASE Absent \in {main'} \union former' /\ rs \in Versions(Absent)
      <4>1. Absent \in former \union {main}
        BY <3>3, <1>3, <1>6
      <4> QED
        BY <4>1, <3>3, InRecoverable
    <3> QED
      BY <2>4, <1>6, <3>1, <3>2, <3>3, RecoverableIs
  <2>5. FileOK(main') /\ FileOK(temporary') /\ \A f \in former' : FileOK(f)
    BY <1>4, <1>6, AbsentFacts
  <2> QED
    BY <1>1, <2>1, <2>2, <2>3, <2>4, <2>5, FileStep
<1>7. CASE temporary' \in {Absent, temporary} /\ main' = main /\ former' = former /\ Fail
  <2>1. FileOK(temporary') /\ (temporary' = temporary \/ FileRows(temporary') = <<>>)
    BY <1>4, <1>7, AbsentFacts
  <2>2. ~cutFailed => Readable(temporary')
    BY <1>7, AbsentFacts DEF IInv, ReadInv
  <2> QED
    BY <1>1, <1>7, <2>1, <2>2, FailKeeps
<1> QED
  BY <1>6, <1>7 DEF Publish

(***************************************************************************)
(* The row is durable: the only version is the journal itself.             *)
(***************************************************************************)
(* A journal that is synced in a synced directory has one version. *)
LEMMA OneVersion ==
  ASSUME NEW f, FileOK(f), f # Absent, Whole(f), NEW new
  PROVE  RecoverableFrom(f, {}, new) = {f.rows}
<1>1. Versions(f) = {f.rows}
  BY VersionsAre DEF FileRows
<1>2. ASSUME NEW rs PROVE rs \in RecoverableFrom(f, {}, new) <=> rs = f.rows
  BY <1>1, RecoverableIs
<1> QED
  BY <1>2

(* The row is durable, and what it says is recorded and answered. *)
LEMMA AppendedKeeps ==
  ASSUME IInv, step \in WriteSteps, step # "reload",
         main # Absent, Whole(main), Clean(main.rows) => Ends(main.rows, NewRow),
         former' = {}, UNCHANGED <<main, temporary>>,
         NEW rs \in Seq(Row), Clean(rs), Good(rs), Ends(rs, NewRow),
         Outcomes(rs) \subseteq recorded \union (IF phase = "commit" THEN {request.key} ELSE {}),
         Appended(rs)
  PROVE  IInv'
<1>1. Appending /\ Serving
  BY AtStep
<1>2. FileOK(main) /\ FileOK(temporary) /\ main.rows \in Seq(Row)
  BY FilesOK, FileFacts DEF IInv
<1>3. main.rows \in Recoverable /\ (Clean(main.rows) => Good(main.rows) /\ Accounted(main.rows))
  BY <1>2, VersionsAre, InRecoverable DEF IInv, VersionInv, FileRows
<1>4. Recoverable' = {main.rows}
  BY <1>2, OneVersion DEF Recoverable
<1>5. /\ rows' = rs /\ recorded' = recorded \union Outcomes(rs) /\ step' = Absent
      /\ UNCHANGED <<runs, crashes, faults, cutFailed>>
  BY DEF Appended
<1>6. request \in Requests /\ request.key \in Keys /\ request.op \in Operations /\ NewRow.request = request
  BY <1>1, NewRowFacts DEF IInv
<1>7. Outcomes(rs) \subseteq Keys
  BY OutcomesAre, RowFacts
<1>8. /\ phase = "begin" => request.key \in Unresolved(rs)
      /\ phase = "commit" => request.key \in Outcomes(rs) /\ request.key \notin Unresolved(rs)
      /\ Stages(NewRow) => request.op \in Retained(rs)
  BY <1>1, EndsFacts DEF IInv
<1>9. Clean(main.rows) =>
        /\ phase = "begin" => request.key \in Unresolved(main.rows)
        /\ phase = "commit" => request.key \in Outcomes(main.rows) /\ request.key \notin Unresolved(main.rows)
        /\ Stages(NewRow) => request.op \in Retained(main.rows)
  BY <1>1, <1>2, EndsFacts DEF IInv
<1>10. ReadInv'
  BY <1>1, <1>5 DEF IInv, ReadInv, Serving
<1>11. StepInv'
  BY <1>5, NamesDiffer DEF StepInv
<1>12. CASE phase = "begin"
  <2>1. phase' = "handler" /\ UNCHANGED <<confirmed, staged, request, success>>
    BY <1>12 DEF Appended
  <2>2. recorded' = recorded
    BY <1>5, <1>12
  <2>3. TypeOK'
    BY <1>5, <2>1, <2>2 DEF IInv, TypeOK, Phases
  <2>4. VersionInv'
    <3> SUFFICES ASSUME Clean(main.rows) PROVE Good(main.rows)' /\ Accounted(main.rows)'
      BY <1>4 DEF VersionInv, Clean
    <3>1. Good(main.rows)'
      BY <1>3, <1>5, <2>1, <2>2 DEF Good
    <3>2. Outcomes(main.rows) \subseteq recorded
      BY <1>3, <1>12 DEF Accounted, AccountedFor
    <3> QED
      BY <3>1, <3>2, <2>1, <2>2 DEF Accounted, AccountedFor
  <2>5. MemoryInv'
    BY <1>5, <1>12, <2>1, <2>2 DEF MemoryInv, Good, Clean
  <2>6. PhaseInv'
    <3>1. request' # Absent /\ step' = Absent
      BY <1>5, <1>6, <2>1, AbsentAssumption
    <3>2. \A k \in confirmed' : runs'[k] > 0
      BY <1>5, <2>1 DEF IInv, PhaseInv
    <3>3. runs'[request'.key] = 0 /\ \A k \in Keys : runs'[k] > 0 => k \in recorded'
      BY <1>5, <1>12, <2>1, <2>2 DEF IInv, PhaseInv
    <3>4. request'.key \in Unresolved(rows') /\ former' = {} /\ main' # Absent /\ Whole(main')
          /\ (Clean(main'.rows) => request'.key \in Unresolved(main'.rows))
      BY <1>5, <1>8, <1>9, <1>12, <2>1
    <3> QED
      BY <2>1, <3>1, <3>2, <3>3, <3>4 DEF PhaseInv
  <2> QED
    BY <1>10, <1>11, <2>3, <2>4, <2>5, <2>6 DEF IInv
<1>13. CASE phase = "commit"
  <2>1. /\ phase' = "idle" /\ request' = Absent /\ success' = FALSE
        /\ confirmed' = IF success THEN confirmed \union {request.key} ELSE confirmed
        /\ staged' = IF Stages(NewRow) THEN staged \union {request.op} ELSE staged
    BY <1>13 DEF Appended
  <2>2. request.key \in recorded'
    BY <1>5, <1>8, <1>13
  <2>3. TypeOK'
    <3>1. confirmed' \subseteq Keys /\ staged' \subseteq Operations /\ recorded' \subseteq Keys
      BY <1>5, <1>6, <1>7, <2>1 DEF IInv, TypeOK
    <3> QED
      BY <1>5, <2>1, <3>1 DEF IInv, TypeOK, Phases
  <2>4. ASSUME NEW ss, Good(ss), request.key \notin Unresolved(ss),
               Stages(NewRow) => request.op \in Retained(ss)
        PROVE  GoodFor(ss, staged', confirmed', runs', recorded')
    BY <1>5, <2>1, <2>4 DEF Good, GoodFor
  <2>5. VersionInv'
    <3> SUFFICES ASSUME Clean(main.rows) PROVE Good(main.rows)' /\ Accounted(main.rows)'
      BY <1>4 DEF VersionInv, Clean
    <3>1. GoodFor(main.rows, staged', confirmed', runs', recorded')
      BY <1>3, <1>9, <1>13, <2>4
    <3>2. Good(main.rows)'
      BY <3>1 DEF Good
    <3>3. Outcomes(main.rows) \subseteq recorded'
      BY <1>3, <1>5, <1>13, <2>2 DEF Accounted, AccountedFor
    <3> QED
      BY <3>2, <3>3, <2>1 DEF Accounted, AccountedFor
  <2>6. MemoryInv'
    <3>1. GoodFor(rs, staged', confirmed', runs', recorded')
      BY <1>8, <1>13, <2>4
    <3> QED
      BY <1>5, <3>1 DEF MemoryInv, Good, Clean
  <2>7. PhaseInv'
    <3>1. \A k \in confirmed' : runs'[k] > 0
      BY <1>5, <1>13, <2>1 DEF IInv, PhaseInv
    <3> QED
      BY <1>5, <2>1, <3>1 DEF PhaseInv
  <2> QED
    BY <1>10, <1>11, <2>3, <2>5, <2>6, <2>7 DEF IInv
<1> QED
  BY <1>1, <1>12, <1>13 DEF Appending

(* append: the fsync of the directory. *)
LEMMA SyncDirectoryKeeps == ASSUME IInv, SyncDirectory PROVE IInv'
<1>1. step = "syncdir" /\ step \in WriteSteps /\ Appending /\ Serving /\ UNCHANGED <<main, temporary>>
  BY AtStep DEF SyncDirectory, At, WriteSteps
<1>2. CASE former' = {} /\ Appended(Candidate)
  <2>1. main # Absent /\ Whole(main) /\ (Clean(main.rows) => Ends(main.rows, NewRow))
    BY <1>1 DEF IInv, StepInv
  <2>2. /\ Candidate \in Seq(Row) /\ Clean(Candidate) /\ Good(Candidate) /\ Ends(Candidate, NewRow)
        /\ Outcomes(Candidate) = IF phase = "commit" THEN Outcomes(rows) \union {request.key} ELSE Outcomes(rows)
    BY <1>1, CandidateFacts DEF IInv
  <2>3. Outcomes(rows) \subseteq recorded
    BY <1>1 DEF IInv, MemoryInv
  <2>4. Outcomes(Candidate) \subseteq recorded \union (IF phase = "commit" THEN {request.key} ELSE {})
    BY <2>2, <2>3
  <2> QED
    BY <1>1, <1>2, <2>1, <2>2, <2>4, AppendedKeeps
<1>3. CASE former' = former /\ Fail
  <2>1. FileOK(temporary) /\ (~cutFailed => Readable(temporary))
    BY FilesOK DEF IInv, ReadInv
  <2> QED
    BY <1>1, <1>3, <2>1, FailKeeps
<1> QED
  BY <1>2, <1>3 DEF SyncDirectory

(* compact: the fsync of the directory after the rename. *)
LEMMA SyncPublishedKeeps == ASSUME IInv, SyncPublished PROVE IInv'
<1>1. step = "syncpublished" /\ step \in WriteSteps /\ Appending /\ Serving /\ UNCHANGED <<main, temporary>>
  BY AtStep DEF SyncPublished, At, WriteSteps
<1>2. CASE former' = {} /\ Appended(main.rows)
  <2>1. main # Absent /\ Whole(main) /\ main.rows = Compacted /\ (Clean(main.rows) => Ends(main.rows, NewRow))
    BY <1>1 DEF IInv, StepInv
  <2>2. /\ Compacted \in Seq(Row) /\ Clean(Compacted) /\ Good(Compacted) /\ Ends(Compacted, NewRow)
        /\ Outcomes(Compacted) \subseteq Outcomes(Candidate)
    BY <1>1, CompactedFacts DEF IInv
  <2>3. Outcomes(Candidate) \subseteq recorded \union (IF phase = "commit" THEN {request.key} ELSE {})
    BY <1>1, CandidateFacts DEF IInv, MemoryInv
  <2>4. Outcomes(Compacted) \subseteq recorded \union (IF phase = "commit" THEN {request.key} ELSE {})
    BY <2>2, <2>3
  <2> QED
    BY <1>1, <1>2, <2>1, <2>2, <2>4, AppendedKeeps
<1>3. CASE former' = former /\ Fail
  <2>1. FileOK(temporary) /\ (~cutFailed => Readable(temporary))
    BY FilesOK DEF IInv, ReadInv
  <2> QED
    BY <1>1, <1>3, <2>1, FailKeeps
<1> QED
  BY <1>2, <1>3 DEF SyncPublished

(***************************************************************************)
(* Server.handle: the steps that leave the files alone.                    *)
(***************************************************************************)
(* Where append starts: at a line or at a compaction. *)
LEMMA StartAppendFacts ==
  ASSUME NEW p, StartAppend(p)
  PROVE  phase' = p /\ step' \in {"project", "write"} /\ step' \in WriteSteps /\ StepInv'
<1>1. phase' = p /\ step' \in {"project", "write"}
  BY DEF StartAppend
<1> QED
  BY <1>1 DEF WriteSteps, StepInv

(* Begin: the checks that let a mutation take its receipt. *)
LEMMA BeginKeeps == ASSUME IInv, NEW r \in Requests, Begin(r) PROVE IInv'
<1>1. /\ phase = "idle" /\ BeginAccepts(r) /\ request' = r
      /\ UNCHANGED <<main, temporary, former, rows, success, crashes, faults, runs, recorded, confirmed, staged, cutFailed>>
  BY DEF Begin, files, history
<1>2. phase' = "begin" /\ step' \in WriteSteps /\ StepInv'
  BY StartAppendFacts DEF Begin
<1>3. /\ Unresolved(rows) = {} /\ Good(rows) /\ Outcomes(rows) \subseteq recorded /\ rows \in Seq(Row)
      /\ r.fence > FenceOf(rows, r.resource)
  BY <1>1 DEF IInv, MemoryInv, Serving, BeginAccepts, TypeOK
<1>4. r.key \in Keys /\ runs \in [Keys -> Nat] /\ r.fence \in Nat
  BY RequestAssumption DEF IInv, TypeOK, Keys
<1>5. runs[r.key] = 0
  <2>1. FenceOf(rows, r.resource) \in Nat /\ (Fenced(rows, r) => r.fence <= FenceOf(rows, r.resource))
    BY <1>3, FenceFacts
  <2>2. ~Fenced(rows, r)
    BY <1>3, <1>4, <2>1
  <2>3. ~ (runs[r.key] > 0)
    BY <1>3, <2>2 DEF Good, GoodFor
  <2> QED
    BY <1>4, <2>3
<1>6. \A k \in Keys : runs[k] > 0 => k \in recorded
  BY <1>3 DEF Good, GoodFor
<1>7. TypeOK'
  BY <1>1, <1>2 DEF IInv, TypeOK, Phases
<1>8. VersionInv'
  <2> SUFFICES ASSUME NEW rs \in Recoverable, Clean(rs) PROVE Good(rs)' /\ Accounted(rs)'
    BY <1>1 DEF VersionInv, Recoverable, Clean
  <2>1. Good(rs) /\ Accounted(rs)
    BY DEF IInv, VersionInv
  <2> QED
    BY <2>1, <1>1, <1>2, <1>3 DEF Good, Accounted, AccountedFor
<1>9. MemoryInv'
  BY <1>1, <1>3 DEF IInv, MemoryInv, Serving, Good
<1>10. PhaseInv'
  <2>1. request' # Absent /\ step' # Absent
    BY <1>1, <1>2, AbsentAssumption
  <2>2. \A k \in confirmed' : runs'[k] > 0
    BY <1>1 DEF IInv, PhaseInv
  <2> QED
    BY <1>1, <1>2, <1>5, <1>6, <2>1, <2>2 DEF PhaseInv
<1>11. ReadInv'
  BY <1>1, NamesDiffer DEF IInv, ReadInv, PhaseInv
<1> QED
  BY <1>2, <1>7, <1>8, <1>9, <1>10, <1>11 DEF IInv

(* A receipt keeps its fence. *)
LEMMA UnresolvedFenced ==
  ASSUME NEW rs \in Seq(Row), NEW r \in Requests, r.key \in Unresolved(rs)
  PROVE  Fenced(rs, r)
<1>1. PICK i \in DOMAIN rs : IsActive(rs[i]) /\ rs[i].request.key = r.key
  BY DEF Unresolved
<1>2. rs[i].request \in Requests
  BY <1>1, RowFacts
<1>3. rs[i].request.resource = r.resource /\ rs[i].request.fence >= r.fence
  BY <1>1, <1>2, RequestAssumption
<1> QED
  BY <1>1, <1>3 DEF Fenced

(* The handler is done with: whether it ran (ru) or not, its receipt is in  *)
(* every version.                                                           *)
LEMMA HandledKeeps ==
  ASSUME IInv, phase = "handler",
         UNCHANGED <<main, temporary, former, rows, request, crashes, faults, recorded, confirmed, cutFailed>>,
         phase' = "commit", step' \in WriteSteps, StepInv',
         success' \in BOOLEAN, staged' \subseteq staged,
         \/ runs' = runs /\ success' = FALSE
         \/ /\ runs' = [runs EXCEPT ![request.key] = @ + 1]
            /\ success' /\ request.verb = "restore" => request.op \notin staged'
  PROVE  IInv'
<1>1. request \in Requests /\ request.key \in Keys /\ runs \in [Keys -> Nat] /\ rows \in Seq(Row)
  BY DEF IInv, PhaseInv, TypeOK, Keys
<1>2. /\ former = {} /\ main # Absent /\ Whole(main) /\ request.key \in Unresolved(rows)
      /\ Clean(main.rows) => request.key \in Unresolved(main.rows)
  BY DEF IInv, PhaseInv
<1>3. FileOK(main) /\ main.rows \in Seq(Row)
  BY <1>2, FilesOK, FileFacts DEF IInv
<1>4. Recoverable = {main.rows} /\ Recoverable' = {main.rows}
  BY <1>2, <1>3, OneVersion DEF Recoverable
<1>5. /\ \A k \in Keys : runs'[k] \in Nat /\ (k # request.key => runs'[k] = runs[k]) /\ (runs[k] > 0 => runs'[k] > 0)
      /\ runs' \in [Keys -> Nat]
      /\ success' => runs'[request.key] > 0
  BY <1>1
<1>6. ASSUME NEW rs \in Seq(Row), Good(rs), request.key \in Unresolved(rs)
      PROVE  GoodFor(rs, staged', confirmed', runs', recorded')
  <2>1. \A r \in Requests : runs'[r.key] > 0 => Fenced(rs, r)
    <3> SUFFICES ASSUME NEW r \in Requests, runs'[r.key] > 0 PROVE Fenced(rs, r)
      OBVIOUS
    <3>1. r.key \in Keys
      BY DEF Keys
    <3>2. CASE r.key = request.key
      BY <3>2, <1>6, UnresolvedFenced
    <3>3. CASE r.key # request.key
      BY <3>1, <3>3, <1>5, <1>6 DEF Good, GoodFor
    <3> QED
      BY <3>2, <3>3
  <2>2. \A k \in Keys : runs'[k] > 0 /\ k \notin recorded => k \in Unresolved(rs) \union Outcomes(rs)
    BY <1>5, <1>6 DEF Good, GoodFor
  <2> QED
    BY <1>6, <2>1, <2>2 DEF Good, GoodFor
<1>7. TypeOK'
  BY <1>5 DEF IInv, TypeOK, Phases
<1>8. VersionInv'
  <2> SUFFICES ASSUME Clean(main.rows) PROVE Good(main.rows)' /\ Accounted(main.rows)'
    BY <1>4 DEF VersionInv, Clean
  <2>1. Good(main.rows) /\ Accounted(main.rows)
    BY <1>4 DEF IInv, VersionInv
  <2>2. GoodFor(main.rows, staged', confirmed', runs', recorded')
    BY <2>1, <1>2, <1>3, <1>6
  <2>3. Good(main.rows)'
    BY <2>2 DEF Good
  <2>4. Accounted(main.rows)'
    BY <2>1, <1>2 DEF Accounted, AccountedFor
  <2> QED
    BY <2>3, <2>4
<1>9. MemoryInv'
  <2>1. Good(rows) /\ Clean(rows) /\ Outcomes(rows) \subseteq recorded
    BY DEF IInv, MemoryInv, Serving
  <2>2. GoodFor(rows, staged', confirmed', runs', recorded')
    BY <2>1, <1>1, <1>2, <1>6
  <2> QED
    BY <2>1, <2>2 DEF MemoryInv, Good, Clean
<1>10. PhaseInv'
  <2>1. request' # Absent /\ step' # Absent
    BY <1>1, AbsentAssumption
  <2>2. \A k \in confirmed' : runs'[k] > 0
    BY <1>5 DEF IInv, PhaseInv, TypeOK
  <2>3. request'.key \in Unresolved(rows')
    BY <1>2
  <2>4. success' => runs'[request'.key] > 0 /\ (request'.verb = "restore" => request'.op \notin staged')
    BY <1>5
  <2> QED
    BY <2>1, <2>2, <2>3, <2>4 DEF PhaseInv
<1>11. ReadInv'
  BY NamesDiffer DEF IInv, ReadInv, PhaseInv
<1> QED
  BY <1>7, <1>8, <1>9, <1>10, <1>11 DEF IInv

(* handle: the handler runs, once its receipt is durable. *)
LEMMA InvokeHandlerKeeps == ASSUME IInv, NEW ok \in BOOLEAN, InvokeHandler(ok) PROVE IInv'
<1>1. /\ phase = "handler" /\ success' = ok
      /\ UNCHANGED <<main, temporary, former, rows, request, crashes, faults, recorded, confirmed, cutFailed>>
      /\ runs' = [runs EXCEPT ![request.key] = @ + 1]
      /\ staged' = IF ok /\ request.verb = "restore" THEN staged \ {request.op} ELSE staged
  BY DEF InvokeHandler, files
<1>2. phase' = "commit" /\ step' \in WriteSteps /\ StepInv'
  BY StartAppendFacts DEF InvokeHandler
<1>3. staged' \subseteq staged /\ (success' /\ request.verb = "restore" => request.op \notin staged')
  BY <1>1
<1> QED
  BY <1>1, <1>2, <1>3, HandledKeeps

(* handle: the mutation is refused after its receipt. *)
LEMMA GateRefusesKeeps == ASSUME IInv, GateRefuses PROVE IInv'
<1>1. /\ phase = "handler" /\ success' = FALSE
      /\ UNCHANGED <<main, temporary, former, rows, request, crashes, faults, recorded, confirmed, cutFailed>>
      /\ runs' = runs /\ staged' = staged
  BY DEF GateRefuses, files, history
<1>2. phase' = "commit" /\ step' \in WriteSteps /\ StepInv'
  BY StartAppendFacts DEF GateRefuses
<1> QED
  BY <1>1, <1>2, HandledKeeps

(***************************************************************************)
(* Reload, crash and restart.                                              *)
(***************************************************************************)
(* Reading an outcome loses nothing. *)
LEMMA GoodRecorded ==
  ASSUME NEW rs, NEW re, recorded \subseteq re, Good(rs)
  PROVE  GoodFor(rs, staged, confirmed, runs, re)
BY DEF Good, GoodFor

(* reloadAfterWriteFailure: the journal is read again after a failed write. *)
LEMMA ReloadKeeps == ASSUME IInv, ReloadAfterWriteFailure PROVE IInv'
<1>1. step = "reload" /\ step \in WriteSteps /\ Appending /\ Serving
  BY AtStep DEF ReloadAfterWriteFailure, At, WriteSteps
<1>2. /\ phase' = "idle" /\ step' = Absent /\ request' = Absent /\ success' = FALSE
      /\ UNCHANGED <<temporary, former, crashes, runs, confirmed, staged>>
  BY DEF ReloadAfterWriteFailure
<1>3. FileOK(main) /\ FileOK(temporary) /\ \A f \in former : FileOK(f)
  BY FilesOK DEF IInv
<1>4. FileRows(main) \in Seq(Row) /\ FileRows(main) \in Recoverable
  BY <1>3, VersionsAre, InRecoverable
<1>5. /\ FileOK(main') /\ (main' = Absent <=> main = Absent) /\ FileRows(main') = FileRows(main)
      /\ Versions(main') \subseteq Versions(main)
      /\ faults' \in 0 .. MaxFaults /\ recorded \subseteq recorded'
      /\ \/ rows' = rows /\ recorded' = recorded
         \/ rows' = FileRows(main) /\ Clean(rows') /\ recorded' = recorded \union Outcomes(rows')
      /\ ~cutFailed' => ~cutFailed /\ ~ (main' # Absent /\ main'.torn)
  <2>1. faults \in 0 .. MaxFaults
    BY DEF IInv, TypeOK
  <2>2. CASE /\ Readable(main)
             /\ main' = CutTail(main) /\ rows' = FileRows(main)
             /\ recorded' = recorded \union Outcomes(FileRows(main))
             /\ UNCHANGED <<faults, cutFailed>>
    BY <1>3, <2>1, <2>2, CutTailFacts, ReadableIs
  <2>3. CASE /\ ~Readable(main)
             /\ UNCHANGED <<main, rows, recorded, faults, cutFailed>>
    BY <1>3, <2>1, <2>3 DEF IInv, ReadInv
  <2>4. CASE /\ main # Absent /\ faults < MaxFaults /\ faults' = faults + 1
             /\ cutFailed' = (cutFailed \/ main.torn)
             /\ UNCHANGED <<main, rows, recorded>>
    <3>1. faults' \in 0 .. MaxFaults
      BY <2>1, <2>4, BoundAssumption
    <3> QED
      BY <1>3, <2>4, <3>1
  <2> QED
    BY <2>2, <2>3, <2>4 DEF ReloadAfterWriteFailure
<1>6. TypeOK'
  <2>1. rows' \in Seq(Row) /\ Outcomes(FileRows(main)) \subseteq Keys
    BY <1>4, <1>5, OutcomesAre, RowFacts DEF IInv, TypeOK
  <2>2. recorded' \subseteq Keys
    BY <2>1, <1>5 DEF IInv, TypeOK
  <2>3. \A f \in {main', temporary'} \union former' : FileOK(f)
    BY <1>2, <1>3, <1>5
  <2> QED
    BY <1>2, <1>5, <2>1, <2>2, <2>3 DEF IInv, TypeOK, FileOK, Phases
<1>7. VersionInv'
  <2> SUFFICES ASSUME NEW rs \in Recoverable', Clean(rs) PROVE Good(rs)' /\ Accounted(rs)'
    BY DEF VersionInv, Clean
  <2>1. rs \in Recoverable
    BY <1>2, <1>5, RecoverableIs, InRecoverable DEF Recoverable
  <2>2. Good(rs) /\ Accounted(rs)
    BY <2>1 DEF IInv, VersionInv
  <2>3. Good(rs)'
    BY <2>2, <1>2, <1>5, GoodRecorded DEF Good
  <2>4. ASSUME Unresolved(rows') = {} PROVE Outcomes(rs) \subseteq recorded'
    <3>1. CASE phase = "begin"
      BY <2>2, <3>1, <1>5 DEF Accounted, AccountedFor
    <3>2. CASE phase = "commit"
      <4>1. Outcomes(rs) \subseteq recorded \union {request.key}
        BY <2>2, <3>2 DEF Accounted, AccountedFor
      <4>2. request.key \in Unresolved(rows)
        BY <3>2 DEF IInv, PhaseInv
      <4>3. rows' = FileRows(main) /\ Clean(rows') /\ recorded' = recorded \union Outcomes(rows')
        BY <2>4, <4>2, <1>5
      <4>4. Accounted(FileRows(main))
        BY <4>3, <1>4 DEF IInv, VersionInv
      <4>5. request.key \in Outcomes(rows')
        BY <2>4, <3>2, <4>3, <4>4 DEF Accounted, AccountedFor
      <4> QED
        BY <4>1, <4>3, <4>5
    <3> QED
      BY <1>1, <3>1, <3>2 DEF Appending
  <2>5. \A j, k \in Outcomes(rs) \ recorded' : j = k
    BY <2>2, <1>5 DEF Accounted, AccountedFor
  <2>6. Accounted(rs)'
    BY <2>4, <2>5, <1>2 DEF Accounted, AccountedFor
  <2> QED
    BY <2>3, <2>6
<1>8. MemoryInv'
  <2>1. CASE rows' = rows /\ recorded' = recorded
    BY <2>1, <1>1, <1>2 DEF IInv, MemoryInv, Good, Clean
  <2>2. CASE rows' = FileRows(main) /\ Clean(rows') /\ recorded' = recorded \union Outcomes(rows')
    <3>1. Good(FileRows(main))
      BY <2>2, <1>4 DEF IInv, VersionInv
    <3>2. GoodFor(FileRows(main), staged, confirmed, runs, recorded')
      BY <3>1, <1>5, GoodRecorded
    <3> QED
      BY <2>2, <3>2, <1>2 DEF MemoryInv, Good, Clean
  <2> QED
    BY <2>1, <2>2, <1>5
<1>9. PhaseInv'
  BY <1>2 DEF IInv, PhaseInv
<1>10. StepInv'
  BY <1>2, NamesDiffer DEF StepInv
<1>11. ReadInv'
  <2> SUFFICES ASSUME ~cutFailed' PROVE \A f \in {main', temporary'} \union former' : Readable(f)
    BY <1>5 DEF ReadInv
  <2>1. \A f \in {main, temporary} \union former : Readable(f)
    BY <1>5 DEF IInv, ReadInv
  <2>2. Readable(main')
    BY <2>1, <1>5 DEF Readable
  <2> QED
    BY <2>1, <2>2, <1>2
<1> QED
  BY <1>6, <1>7, <1>8, <1>9, <1>10, <1>11 DEF IInv

(* A power loss leaves a version of each file. *)
LEMMA CrashKeeps == ASSUME IInv, Crash PROVE IInv'
<1>1. /\ crashes < MaxCrashes /\ crashes' = crashes + 1
      /\ former' = {} /\ rows' = <<>> /\ phase' = "down" /\ step' = Absent /\ request' = Absent /\ success' = FALSE
      /\ UNCHANGED <<faults, runs, recorded, confirmed, staged, cutFailed>>
  BY DEF Crash, history
<1>2. PICK version \in {main} \union former :
        /\ main' \in Surviving(version)
        /\ temporary' \in {Absent} \union Surviving(IF version \in {main, Absent} THEN temporary ELSE main)
  BY DEF Crash
<1> DEFINE other == IF version \in {main, Absent} THEN temporary ELSE main
<1>3. FileOK(main) /\ FileOK(temporary) /\ FileOK(version) /\ FileOK(other)
  BY FilesOK DEF IInv
<1>4. /\ FileOK(main') /\ Whole(main') /\ (main' = Absent <=> version = Absent)
      /\ Versions(main') = {FileRows(main')} /\ FileRows(main') \in Versions(version)
  BY <1>2, <1>3, SurvivingFacts
<1>5. /\ FileOK(temporary') /\ Whole(temporary') /\ Versions(temporary') = {FileRows(temporary')}
      /\ temporary' = Absent \/ FileRows(temporary') \in Versions(other)
  <2>1. CASE temporary' = Absent
    BY <2>1, AbsentFacts DEF Whole
  <2>2. CASE temporary' \in Surviving(other)
    BY <2>2, <1>3, SurvivingFacts
  <2> QED
    BY <1>2, <2>1, <2>2
<1>6. FileRows(main') \in Recoverable
  BY <1>2, <1>4, InRecoverable
<1>7. ASSUME NEW rs \in RecoverableFrom(main', {}, temporary') PROVE rs \in Recoverable
  <2>1. CASE rs \in Versions(main')
    BY <2>1, <1>4, <1>6
  <2>2. CASE main' = Absent /\ rs \in Versions(temporary')
    <3>1. version = Absent /\ Absent \in {main} \union former /\ other = temporary
      BY <2>2, <1>2, <1>4
    <3>2. CASE temporary' = Absent
      BY <2>2, <3>2, <1>4, <1>6
    <3>3. CASE FileRows(temporary') \in Versions(other)
      BY <2>2, <3>1, <3>3, <1>5, InRecoverable
    <3> QED
      BY <3>2, <3>3, <1>5
  <2> QED
    BY <1>7, <2>1, <2>2, RecoverableIs
<1>8. TypeOK'
  <2>1. crashes' \in 0 .. MaxCrashes
    BY <1>1, BoundAssumption DEF IInv, TypeOK
  <2>2. rows' \in Seq(Row) /\ phase' \in Phases
    BY <1>1 DEF Phases
  <2>3. \A f \in {main', temporary'} \union former' : f # Absent => f \in File /\ f.synced <= Len(f.rows)
    BY <1>1, <1>4, <1>5 DEF FileOK
  <2> QED
    BY <1>1, <2>1, <2>2, <2>3 DEF IInv, TypeOK
<1>9. VersionInv'
  <2> SUFFICES ASSUME NEW rs \in Recoverable', Clean(rs) PROVE Good(rs)' /\ Accounted(rs)'
    BY DEF VersionInv, Clean
  <2>1. rs \in Recoverable
    BY <1>1, <1>7 DEF Recoverable
  <2>2. Good(rs) /\ Accounted(rs)
    BY <2>1 DEF IInv, VersionInv
  <2> QED
    BY <2>2, <1>1 DEF Good, Accounted, AccountedFor
<1>10. MemoryInv'
  BY <1>1 DEF MemoryInv, Serving
<1>11. PhaseInv'
  BY <1>1, <1>4, <1>5 DEF IInv, PhaseInv
<1>12. StepInv'
  BY <1>1, NamesDiffer DEF StepInv
<1>13. ReadInv'
  <2> SUFFICES ASSUME ~cutFailed PROVE Readable(main') /\ Readable(temporary')
    BY <1>1 DEF ReadInv
  <2>1. Readable(main) /\ Readable(temporary) /\ Readable(version)
    BY <1>2 DEF IInv, ReadInv
  <2>2. Readable(main')
    BY <2>1, <1>3, <1>4, ReadableIs, VersionsAre
  <2>3. Readable(temporary')
    BY <2>1, <1>3, <1>5, ReadableIs, VersionsAre, AbsentFacts
  <2> QED
    BY <2>2, <2>3
<1> QED
  BY <1>8, <1>9, <1>10, <1>11, <1>12, <1>13 DEF IInv

(* load: the journal is read at the start of the process. *)
LEMMA LoadKeeps == ASSUME IInv, Load PROVE IInv'
<1> DEFINE version == IF main # Absent THEN main ELSE temporary
           bad == ~Readable(version) \/ (main = Absent /\ temporary # Absent /\ temporary.torn)
<1>1. /\ phase = "down" /\ former = {} /\ Whole(main) /\ Whole(temporary) /\ step = Absent /\ request = Absent
      /\ UNCHANGED <<step, request, success, crashes, faults, runs, confirmed, staged, cutFailed>>
  BY DEF Load, IInv, PhaseInv
<1>2. FileOK(main) /\ FileOK(temporary) /\ FileOK(version) /\ Whole(version)
  BY <1>1, FilesOK DEF IInv
<1>3. CASE bad
  <2>1. phase' = "refused" /\ UNCHANGED <<main, temporary, former, rows, recorded>>
    BY <1>3 DEF Load, files
  <2>2. TypeOK'
    BY <1>1, <2>1 DEF IInv, TypeOK, Phases
  <2>3. VersionInv'
    <3> SUFFICES ASSUME NEW rs \in Recoverable, Clean(rs) PROVE Good(rs)' /\ Accounted(rs)'
      BY <2>1 DEF VersionInv, Recoverable, Clean
    <3>1. Good(rs) /\ Accounted(rs)
      BY DEF IInv, VersionInv
    <3> QED
      BY <3>1, <1>1, <2>1 DEF Good, Accounted, AccountedFor
  <2>4. MemoryInv' /\ StepInv'
    BY <1>1, <2>1, NamesDiffer DEF MemoryInv, Serving, StepInv
  <2>5. PhaseInv' /\ ReadInv'
    BY <1>1, <2>1 DEF IInv, PhaseInv, ReadInv
  <2> QED
    BY <2>2, <2>3, <2>4, <2>5 DEF IInv
<1>4. CASE ~bad
  <2>1. /\ phase' = "idle" /\ main' = CutTail(version) /\ temporary' = Absent /\ former' = {}
        /\ rows' = FileRows(version) /\ recorded' = recorded \union Outcomes(FileRows(version))
    BY <1>1, <1>4 DEF Load
  <2>2. FileRows(version) \in Seq(Row) /\ Versions(version) = {FileRows(version)} /\ Clean(FileRows(version))
    BY <1>2, <1>4, VersionsAre, ReadableIs
  <2>3. FileRows(version) \in Recoverable
    BY <2>2, InRecoverable
  <2>4. Good(FileRows(version))
    BY <2>2, <2>3 DEF IInv, VersionInv
  <2>5. /\ FileOK(main') /\ FileRows(main') = FileRows(version) /\ (main' = Absent <=> version = Absent)
        /\ main' # Absent => ~main'.torn
        /\ Versions(main') \subseteq {FileRows(version)}
    BY <1>2, <2>1, <2>2, CutTailFacts
  <2>6. GoodFor(FileRows(version), staged, confirmed, runs, recorded')
    BY <2>1, <2>4, GoodRecorded
  <2>7. ASSUME NEW rs \in Recoverable' PROVE rs = FileRows(version)
    <3>1. CASE rs \in Versions(main')
      BY <3>1, <2>5
    <3>2. CASE main' = Absent /\ rs \in Versions(Absent)
      BY <3>2, <2>5, AbsentFacts
    <3> QED
      BY <2>1, <2>7, <3>1, <3>2, RecoverableIs DEF Recoverable
  <2>8. TypeOK'
    <3>1. recorded' \subseteq Keys
      BY <2>1, <2>2, OutcomesAre, RowFacts DEF IInv, TypeOK
    <3> QED
      BY <1>1, <2>1, <2>2, <2>5, <3>1 DEF IInv, TypeOK, FileOK, Phases
  <2>9. VersionInv'
    <3> SUFFICES ASSUME NEW rs \in Recoverable', Clean(rs) PROVE Good(rs)' /\ Accounted(rs)'
      BY DEF VersionInv, Clean
    <3>1. rs = FileRows(version)
      BY <2>7
    <3>2. GoodFor(rs, staged', confirmed', runs', recorded') /\ Outcomes(rs) \subseteq recorded'
      BY <3>1, <1>1, <2>1, <2>6
    <3> QED
      BY <3>2, <2>1 DEF Good, Accounted, AccountedFor
  <2>10. MemoryInv'
    BY <1>1, <2>1, <2>2, <2>6 DEF MemoryInv, Good, Clean
  <2>11. PhaseInv'
    BY <1>1, <2>1 DEF IInv, PhaseInv
  <2>12. StepInv'
    BY <1>1, NamesDiffer DEF StepInv
  <2>13. ReadInv'
    <3>1. Readable(main')
      BY <2>2, <2>5, ReadableIs
    <3> QED
      BY <2>1, <2>5, <3>1, AbsentFacts DEF ReadInv
  <2> QED
    BY <2>8, <2>9, <2>10, <2>11, <2>12, <2>13 DEF IInv
<1> QED
  BY <1>3, <1>4

(***************************************************************************)
(* The theorems.                                                           *)
(***************************************************************************)
(* An empty directory has nothing to say. *)
LEMMA InitIInv == Init => IInv
<1> SUFFICES ASSUME Init PROVE IInv
  OBVIOUS
<1> USE DEF Init
<1>1. TypeOK
  <2>1. rows \in Seq(Row)
    OBVIOUS
  <2>2. phase \in Phases /\ step \in WriteSteps \union {Absent} /\ request \in Requests \union {Absent}
    BY DEF Phases
  <2>3. \A f \in {main, temporary} \union former : f = Absent
    OBVIOUS
  <2>4. runs \in [Keys -> Nat]
    OBVIOUS
  <2>5. crashes \in 0 .. MaxCrashes /\ faults \in 0 .. MaxFaults
    BY BoundAssumption
  <2>6. success \in BOOLEAN
    OBVIOUS
  <2> QED
    BY <2>1, <2>2, <2>3, <2>4, <2>5, <2>6 DEF TypeOK
<1>2. Retained(<<>>) = {} /\ Unresolved(<<>>) = {} /\ Outcomes(<<>>) = {} /\ Clean(<<>>)
  BY DEF Retained, Unresolved, Outcomes, Replays, Clean
<1>3. \A r \in Requests : runs[r.key] = 0
  BY DEF Keys
<1>4. Good(<<>>) /\ Accounted(<<>>)
  BY <1>2, <1>3 DEF Good, GoodFor, Accounted, AccountedFor
<1>5. VersionInv
  <2>1. ASSUME NEW rs \in Recoverable PROVE rs = <<>>
    BY AbsentFacts, RecoverableIs DEF Recoverable
  <2> QED
    BY <2>1, <1>4 DEF VersionInv
<1>6. MemoryInv
  BY <1>2, <1>4 DEF MemoryInv
<1>7. PhaseInv
  BY DEF PhaseInv
<1>8. StepInv
  BY NamesDiffer DEF StepInv
<1>9. ReadInv
  BY AbsentFacts DEF ReadInv
<1> QED
  BY <1>1, <1>5, <1>6, <1>7, <1>8, <1>9 DEF IInv

(* A step that changes no variable. *)
LEMMA StutterKeeps == ASSUME IInv, UNCHANGED vars PROVE IInv'
<1>1. UNCHANGED <<main, temporary, former, rows, phase, step, request, success, crashes, faults,
                  runs, recorded, confirmed, staged, cutFailed>>
  BY DEF vars, files, history
<1>2. TypeOK' /\ ReadInv'
  BY <1>1 DEF IInv, TypeOK, ReadInv
<1>3. NewRow' = NewRow
  BY <1>1 DEF NewRow
<1>4. Candidate' = Candidate
  BY <1>1, <1>3 DEF Candidate
<1>5. Compacted' = Compacted
  BY <1>1, <1>4 DEF Compacted
<1>6. StepInv'
  BY <1>1, <1>3, <1>5 DEF IInv, StepInv
<1>7. PhaseInv' /\ MemoryInv'
  BY <1>1 DEF IInv, PhaseInv, MemoryInv, Serving, Good
<1>8. VersionInv'
  BY <1>1 DEF IInv, VersionInv, Recoverable, Good, Accounted
<1> QED
  BY <1>2, <1>6, <1>7, <1>8 DEF IInv

(* Every step keeps the invariant. *)
LEMMA NextKeeps == ASSUME IInv, [Next]_vars PROVE IInv'
<1>1. ASSUME NEW r \in Requests, Begin(r) PROVE IInv'
  BY <1>1, BeginKeeps
<1>2. ASSUME NEW ok \in BOOLEAN, InvokeHandler(ok) PROVE IInv'
  BY <1>2, InvokeHandlerKeeps
<1>3. CASE GateRefuses \/ WriteLine \/ SyncLine \/ SyncDirectory
  BY <1>3, GateRefusesKeeps, WriteLineKeeps, SyncLineKeeps, SyncDirectoryKeeps
<1>4. CASE StartCompaction \/ WriteNew \/ SyncNew \/ Publish \/ SyncPublished
  BY <1>4, StartCompactionKeeps, WriteNewKeeps, SyncNewKeeps, PublishKeeps, SyncPublishedKeeps
<1>5. CASE ReloadAfterWriteFailure \/ Crash \/ Load
  BY <1>5, ReloadKeeps, CrashKeeps, LoadKeeps
<1>6. CASE UNCHANGED vars
  BY <1>6, StutterKeeps
<1> QED
  BY <1>1, <1>2, <1>3, <1>4, <1>5, <1>6 DEF Next

(* The inductive invariant of the journal: what every version that a crash  *)
(* may leave of it says, what the process has in memory, and how far the    *)
(* write in hand has come.                                                  *)
THEOREM JournalInvariant == Spec => []IInv
<1>1. IInv /\ [Next]_vars => IInv'
  BY NextKeeps
<1> QED
  BY <1>1, InitIInv, PTL DEF Spec

(* Type correctness of the journal. *)
THEOREM JournalTypeOK == Spec => []TypeOK
<1>1. IInv => TypeOK
  BY DEF IInv
<1> QED
  BY <1>1, JournalInvariant, PTL

(* journal.go:603-617: the result of a confirmed stage stays available for  *)
(* its rollback until a restore released it, through any number of          *)
(* compactions, failed writes, crashes and restarts.                        *)
THEOREM JournalKeepsStages == Spec => []StagedResultSurvives
<1>1. IInv => StagedResultSurvives
  BY DEF IInv, MemoryInv, Good, GoodFor, StagedResultSurvives
<1> QED
  BY <1>1, JournalInvariant, PTL

(* Commit answers a client only when the outcome is durable: what was       *)
(* confirmed never needs recovery later.                                    *)
THEOREM JournalKeepsConfirmed == Spec => []ConfirmedStaysComplete
<1>1. IInv => ConfirmedStaysComplete
  BY DEF IInv, MemoryInv, Good, GoodFor, ConfirmedStaysComplete
<1> QED
  BY <1>1, JournalInvariant, PTL

(* The journal and its ".new" can be read unless the cutting off of a torn  *)
(* line itself failed.                                                      *)
THEOREM JournalStaysReadable == Spec => []StaysReadable
<1>1. IInv => StaysReadable
  BY DEF IInv, ReadInv, StaysReadable
<1> QED
  BY <1>1, JournalInvariant, PTL

(***************************************************************************)
(* The refinement.                                                         *)
(***************************************************************************)
(* Whoever reads a version records at most one outcome more. *)
LEMMA RecordsOne ==
  ASSUME NEW rs \in Seq(Row), \A j, k \in Outcomes(rs) \ recorded : j = k,
         recorded' = recorded \union Outcomes(rs), runs' = runs
  PROVE  Authority_!Next \/ UNCHANGED <<runs, recorded>>
<1>1. CASE Outcomes(rs) \subseteq recorded
  BY <1>1
<1>2. CASE ~ (Outcomes(rs) \subseteq recorded)
  <2>1. PICK k : k \in Outcomes(rs) \ recorded
    BY <1>2
  <2>2. k \in Keys
    BY <2>1, OutcomesAre, RowFacts
  <2>3. recorded' = recorded \union {k}
    BY <2>1
  <2> QED
    BY <2>1, <2>2, <2>3 DEF Authority_!Next, Authority_!Record
<1> QED
  BY <1>1, <1>2

(* Every step is one of MutationAuthority, or none. *)
LEMMA StepIsAuthority ==
  ASSUME IInv, [Next]_vars
  PROVE  [Authority_!Next]_<<runs, recorded>>
<1> SUFFICES Authority_!Next \/ UNCHANGED <<runs, recorded>>
  OBVIOUS
<1>1. ASSUME NEW r \in Requests, Begin(r) PROVE UNCHANGED <<runs, recorded>>
  BY <1>1 DEF Begin, history
<1>2. ASSUME NEW ok \in BOOLEAN, InvokeHandler(ok) PROVE Authority_!Next
  <2>1. /\ phase = "handler" /\ runs' = [runs EXCEPT ![request.key] = @ + 1] /\ recorded' = recorded
    BY <1>2 DEF InvokeHandler
  <2>2. request \in Requests /\ runs \in [Keys -> Nat]
    BY <2>1 DEF IInv, PhaseInv, TypeOK
  <2>3. request.key \in Keys
    BY <2>2 DEF Keys
  <2>4. runs[request.key] = 0 /\ \A k \in Keys : runs[k] > 0 => k \in recorded
    BY <2>1 DEF IInv, PhaseInv
  <2>5. runs' = [runs EXCEPT ![request.key] = 1]
    BY <2>1, <2>2, <2>3, <2>4
  <2> QED
    BY <2>1, <2>3, <2>4, <2>5 DEF Authority_!Next, Authority_!Execute
<1>3. CASE GateRefuses
  BY <1>3 DEF GateRefuses, history
<1>4. ASSUME Fail \/ \E s \in WriteSteps : Goto(s) PROVE UNCHANGED <<runs, recorded>>
  BY <1>4 DEF Fail, Goto, history
<1>5. CASE WriteLine
  BY <1>5, <1>4 DEF WriteLine, WriteSteps
<1>6. CASE SyncLine
  BY <1>6, <1>4 DEF SyncLine, WriteSteps
<1>7. CASE StartCompaction
  BY <1>7, <1>4 DEF StartCompaction, WriteSteps
<1>8. CASE WriteNew
  BY <1>8, <1>4 DEF WriteNew, WriteSteps
<1>9. CASE SyncNew
  BY <1>9, <1>4 DEF SyncNew, WriteSteps
<1>10. CASE Publish
  BY <1>10, <1>4 DEF Publish, WriteSteps
<1>11. ASSUME NEW rs \in Seq(Row), Appending, Outcomes(rs) \subseteq Outcomes(Candidate), Appended(rs)
       PROVE  Authority_!Next \/ UNCHANGED <<runs, recorded>>
  <2>1. Outcomes(Candidate) = IF phase = "commit" THEN Outcomes(rows) \union {request.key} ELSE Outcomes(rows)
    BY <1>11, CandidateFacts DEF IInv
  <2>2. Outcomes(rows) \subseteq recorded
    BY <1>11 DEF IInv, MemoryInv, Serving, Appending
  <2>3. \A j, k \in Outcomes(rs) \ recorded : j = k
    BY <1>11, <2>1, <2>2
  <2>4. recorded' = recorded \union Outcomes(rs) /\ runs' = runs
    BY <1>11 DEF Appended
  <2> QED
    BY <1>11, <2>3, <2>4, RecordsOne
<1>12. CASE SyncDirectory
  <2>1. Appending
    BY <1>12, AtStep DEF SyncDirectory, At, WriteSteps
  <2>2. Candidate \in Seq(Row)
    BY <2>1, CandidateFacts DEF IInv
  <2> QED
    BY <1>12, <1>4, <1>11, <2>1, <2>2 DEF SyncDirectory
<1>13. CASE SyncPublished
  <2>1. Appending /\ step = "syncpublished"
    BY <1>13, AtStep DEF SyncPublished, At, WriteSteps
  <2>2. main.rows = Compacted /\ Compacted \in Seq(Row) /\ Outcomes(Compacted) \subseteq Outcomes(Candidate)
    BY <2>1, CompactedFacts DEF IInv, StepInv
  <2> QED
    BY <1>13, <1>4, <1>11, <2>1, <2>2 DEF SyncPublished
<1>14. CASE ReloadAfterWriteFailure
  <2>1. runs' = runs
    BY <1>14 DEF ReloadAfterWriteFailure
  <2>2. CASE recorded' = recorded
    BY <2>1, <2>2
  <2>3. CASE Readable(main) /\ recorded' = recorded \union Outcomes(FileRows(main))
    <3>1. FileOK(main)
      BY FilesOK DEF IInv
    <3>2. FileRows(main) \in Seq(Row) /\ FileRows(main) \in Recoverable /\ Clean(FileRows(main))
      BY <2>3, <3>1, VersionsAre, InRecoverable, ReadableIs
    <3>3. \A j, k \in Outcomes(FileRows(main)) \ recorded : j = k
      BY <3>2 DEF IInv, VersionInv, Accounted, AccountedFor
    <3> QED
      BY <2>1, <2>3, <3>2, <3>3, RecordsOne
  <2> QED
    BY <1>14, <2>2, <2>3 DEF ReloadAfterWriteFailure
<1>15. CASE Crash
  BY <1>15 DEF Crash, history
<1>16. CASE Load
  <2> DEFINE version == IF main # Absent THEN main ELSE temporary
  <2>1. runs' = runs
    BY <1>16 DEF Load
  <2>2. CASE recorded' = recorded
    BY <2>1, <2>2
  <2>3. CASE Readable(version) /\ recorded' = recorded \union Outcomes(FileRows(version))
    <3>1. FileOK(main) /\ FileOK(temporary) /\ FileOK(version)
      BY FilesOK DEF IInv
    <3>2. FileRows(version) \in Seq(Row) /\ FileRows(version) \in Versions(version) /\ Clean(FileRows(version))
      BY <2>3, <3>1, VersionsAre, ReadableIs
    <3>3. FileRows(version) \in Recoverable
      BY <3>2, InRecoverable
    <3>4. \A j, k \in Outcomes(FileRows(version)) \ recorded : j = k
      BY <3>2, <3>3 DEF IInv, VersionInv, Accounted, AccountedFor
    <3> QED
      BY <2>1, <2>3, <3>2, <3>4, RecordsOne
  <2> QED
    BY <1>16, <2>2, <2>3 DEF Load
<1>17. CASE UNCHANGED vars
  BY <1>17 DEF vars, history
<1> QED
  BY <1>1, <1>2, <1>3, <1>5, <1>6, <1>7, <1>8, <1>9, <1>10, <1>12, <1>13, <1>14, <1>15, <1>16, <1>17 DEF Next

(* server.go:368-388: the journal implements MutationAuthority.  A          *)
(* mutation's handler runs at most once, and none runs while one that ran   *)
(* has no recorded outcome.                                                 *)
THEOREM JournalIsAuthority == Spec => AuthoritySpec
<1>1. Init => Authority_!Init
  BY DEF Init, Authority_!Init
<1>2. IInv /\ [Next]_vars => [Authority_!Next]_<<runs, recorded>>
  BY StepIsAuthority
<1> QED
  BY <1>1, <1>2, JournalInvariant, PTL DEF Spec, AuthoritySpec, Authority_!Spec

(* At most one run of each key, and at most one run whose outcome is open. *)
RunsOnce ==
  /\ runs \in [Keys -> {0, 1}]
  /\ \A j, k \in Keys : runs[j] = 1 /\ runs[k] = 1 /\ j \notin recorded /\ k \notin recorded => j = k

(* What the refinement means for the handlers of Server.handle: the handler *)
(* of a key is never invoked a second time, and there is never more than    *)
(* one mutation of the host whose outcome the journal does not know.        *)
THEOREM HandlersRunOnce == Spec => []RunsOnce
<1>1. Authority_!Init => RunsOnce
  BY DEF Authority_!Init, RunsOnce
<1>2. RunsOnce /\ [Authority_!Next]_<<runs, recorded>> => RunsOnce'
  <2> SUFFICES ASSUME RunsOnce, [Authority_!Next]_<<runs, recorded>> PROVE RunsOnce'
    OBVIOUS
  <2>1. ASSUME NEW k \in Keys, Authority_!Execute(k) PROVE RunsOnce'
    BY <2>1 DEF Authority_!Execute, RunsOnce
  <2>2. ASSUME NEW k \in Keys, Authority_!Record(k) PROVE RunsOnce'
    BY <2>2 DEF Authority_!Record, RunsOnce
  <2>3. CASE UNCHANGED <<runs, recorded>>
    BY <2>3 DEF RunsOnce
  <2> QED
    BY <2>1, <2>2, <2>3 DEF Authority_!Next
<1> QED
  BY <1>1, <1>2, JournalIsAuthority, PTL DEF AuthoritySpec, Authority_!Spec
=============================================================================
