--------------------------- MODULE TokenUseProofs ---------------------------
(***************************************************************************)
(* The debouncer of token uses, for any number of tokens, requests,        *)
(* goroutines, stops and restores.                                         *)
(*                                                                         *)
(* That a pending use has a timer needs that whoever owns a batch works    *)
(* for a debouncer that is not retired, and so that the reset waits for    *)
(* the gate; that no use crosses a restore needs, besides, the generation  *)
(* of every use in memory and that nothing is admitted in maintenance.     *)
(* That no use is lost is a second invariant, over that one: a batch       *)
(* counts only while its owner has yet to write it or to give it back.     *)
(***************************************************************************)
EXTENDS TokenUse, FiniteSetTheorems, TLAPS

(* A flusher past takePending, or the stop: it owns a batch. *)
Owning == {"stopping", "writing", "leased", "failed", "closing", "written", "finishing"}

(* The stop holds the gate to its end; flushers and stops are told apart. *)
GateInv ==
  /\ actor[Stopper].at # "idle" => gate.writer = Stopper
  /\ \A f \in Flushers : actor[f].at \notin {"stopping", "finishing"}
  /\ actor[Stopper].at \notin {"fired", "admitted", "taking", "written"}

(* Who owns a batch works for the current debouncer, for the reset waits.   *)
OwnerInv ==
  /\ \A d \in Debouncers : debouncer[d].retired <=> d < tokenUse
  /\ \A d \in Debouncers : d > tokenUse => debouncer[d] = NewDebouncer
  /\ \A a \in Actors : actor[a].at # "idle" => actor[a].of <= tokenUse
  /\ \A a \in Actors : actor[a].at \in Owning => actor[a].of = tokenUse
  /\ \A q \in Requests : request[q].at # "idle" => request[q].of <= tokenUse

(* The timer a debouncer holds is armed, or a goroutine will account for it. *)
TimerInv ==
  \A d \in Debouncers :
    /\ debouncer[d].pending # Empty => ~debouncer[d].retired /\ debouncer[d].timer # "none"
    /\ debouncer[d].retired => debouncer[d].timer = "none"
    /\ debouncer[d].timer # "none" => debouncer[d].due = debouncer[d].epoch
    /\ debouncer[d].timer = "fired" =>
         \E f \in Flushers : /\ actor[f].at \in {"fired", "admitted", "taking"}
                             /\ actor[f].of = d /\ actor[f].epoch = debouncer[d].epoch

(* Debouncers are numbered by the resets there were. *)
ResetInv ==
  /\ maintenance \in {"none", "ready"} => tokenUse <= 2 * restores + 1
  /\ maintenance \in {"draining", "opened", "refused"} => tokenUse <= 2 * restores - 1
  /\ maintenance \in {"reset", "reopened"} => tokenUse <= 2 * restores

(* The generation whose uses the current debouncer holds. *)
Recorded ==
  IF maintenance = "opened" THEN fallback ELSE IF maintenance = "reopened" THEN restores + 1 ELSE live

RecordedIn(batch, g) == \A t \in Tokens : batch[t] # None => batch[t].generation = g

(* A use is queued, carried and written only in the generation it was       *)
(* recorded in; nothing is admitted while a candidate is looked at.         *)
GenerationInv ==
  /\ maintenance \in {"opened", "refused", "reset", "reopened", "ready"} =>
       /\ \A q \in Requests : request[q].at = "idle"
       /\ \A a \in Actors : actor[a].at # "leased"
  /\ maintenance \in {"opened", "reset"} => live = restores + 1
  /\ \A q \in Requests : request[q].at # "idle" => request[q].generation = live
  /\ RecordedIn(debouncer[tokenUse].pending, Recorded)
  /\ \A a \in Actors : actor[a].at \in Owning => RecordedIn(actor[a].batch, Recorded)
  /\ \A g \in Generations : RecordedIn(table[g], g)

IInv == TypeOK /\ GateInv /\ OwnerInv /\ TimerInv /\ ResetInv /\ GenerationInv

-----------------------------------------------------------------------------

(* Epochs never run out: a flusher captures at most one. *)
LEMMA EpochFree ==
  ASSUME TypeOK, NEW i \in Debouncers
  PROVE  \E e \in Epochs : e \notin Captured(i)
  <1> DEFINE fired == {g \in Flushers : actor[g].of = i}
  <1> DEFINE image == {actor[f].epoch : f \in fired}
  <1> DEFINE two == {debouncer[i].epoch, debouncer[i].due}
  <1> DEFINE k == Cardinality(Flushers)
  <1>1. k \in Nat
    BY ActorAssumption, FS_CardinalityType
  <1>2. IsFiniteSet(fired) /\ Cardinality(fired) <= k /\ Cardinality(fired) \in Nat
    BY ActorAssumption, FS_Subset, FS_CardinalityType
  <1>3. IsFiniteSet(image) /\ Cardinality(image) <= Cardinality(fired) /\ Cardinality(image) \in Nat
    <2> DEFINE f == [g \in fired |-> actor[g].epoch]
    <2>1. f \in Surjection(fired, image)
      BY DEF Surjection
    <2> HIDE DEF f, fired, image
    <2> QED
      BY <1>2, <2>1, FS_Surjection, FS_CardinalityType
  <1>4. IsFiniteSet(two) /\ Cardinality(two) <= 2 /\ Cardinality(two) \in Nat
    <2> DEFINE one == {debouncer[i].epoch}
    <2>1. IsFiniteSet(one) /\ Cardinality(one) = 1
      BY FS_Singleton
    <2>2. two = one \union {debouncer[i].due}
      OBVIOUS
    <2> HIDE DEF one, two
    <2>3. IsFiniteSet(two) /\ Cardinality(two) \in {1, 2}
      BY <2>1, <2>2, FS_AddElement
    <2> QED
      BY <2>3
  <1>5. IsFiniteSet(Captured(i)) /\ Cardinality(Captured(i)) <= k + 2 /\ Cardinality(Captured(i)) \in Nat
    <2>1. Captured(i) = two \union image
      BY DEF Captured
    <2> HIDE DEF two, image, fired
    <2>2. Cardinality(two \intersect image) \in Nat
      BY <1>3, <1>4, FS_Intersection, FS_CardinalityType
    <2>3. IsFiniteSet(two \union image) /\ Cardinality(two \union image) \in Nat
      BY <1>3, <1>4, FS_Union, FS_CardinalityType
    <2>4. Cardinality(two \union image) = Cardinality(two) + Cardinality(image) - Cardinality(two \intersect image)
      BY <1>3, <1>4, FS_Union
    <2> HIDE DEF k
    <2> QED
      BY <1>1, <1>2, <1>3, <1>4, <2>1, <2>2, <2>3, <2>4
  <1>6. Cardinality(Epochs) = k + 3
    <2> HIDE DEF k
    <2>1. k + 2 \in Int /\ 0 \in Int
      BY <1>1
    <2>2. Cardinality(0..(k + 2)) = k + 3
      BY <1>1, <2>1, FS_Interval
    <2> QED
      BY <2>2 DEF Epochs, k
  <1>7. ~(Epochs \subseteq Captured(i))
    <2> HIDE DEF k
    <2> SUFFICES ASSUME Epochs \subseteq Captured(i) PROVE FALSE
      OBVIOUS
    <2>1. Cardinality(Epochs) <= Cardinality(Captured(i))
      BY <1>5, FS_Subset
    <2> QED
      BY <1>1, <1>5, <1>6, <2>1
  <1> QED
    BY <1>7

(* NextEpoch changes the epoch only. *)
LEMMA NextEpochType ==
  ASSUME TypeOK, NEW i \in Debouncers
  PROVE  /\ NextEpoch(i) \in Debouncer
         /\ NextEpoch(i).pending = debouncer[i].pending /\ NextEpoch(i).retired = debouncer[i].retired
  <1>1. (CHOOSE e \in Epochs : e \notin Captured(i)) \in Epochs
    BY EpochFree
  <1> QED
    BY <1>1 DEF NextEpoch, TypeOK, Debouncer

(* scheduleLocked arms a timer for the current epoch, if none is there. *)
LEMMA ScheduleEffect ==
  ASSUME NEW d \in Debouncer
  PROVE  /\ Schedule(d) \in Debouncer
         /\ Schedule(d).pending = d.pending /\ Schedule(d).retired = d.retired /\ Schedule(d).epoch = d.epoch
         /\ d.retired \/ d.timer # "none" => Schedule(d) = d
         /\ ~d.retired /\ d.timer = "none" => Schedule(d).timer = "armed" /\ Schedule(d).due = d.epoch
BY DEF Schedule, Debouncer

(* The constants have their types. *)
LEMMA ConstantsOK ==
  /\ 0 \in Epochs /\ Empty \in Batch /\ 1 \in Debouncers /\ 1 \in Generations
  /\ Idle \in Actor /\ NoRequest \in Request /\ NewDebouncer \in Debouncer
  /\ Stopper \in Actors /\ \A f \in Flushers : f \in Actors /\ f # Stopper
  /\ \A a \in Actors : a \in Flushers \/ a = Stopper
  /\ \A d \in Debouncers : d \in Nat /\ 1 <= d
  <1>1. 0 \in Epochs
    BY ActorAssumption, FS_CardinalityType DEF Epochs
  <1>2. Empty \in Batch
    BY DEF Empty, Batch
  <1>3. 1 \in Debouncers /\ 1 \in Generations /\ \A d \in Debouncers : d \in Nat /\ 1 <= d
    BY BoundAssumption DEF Debouncers, Generations
  <1>4. Idle \in Actor /\ NoRequest \in Request /\ NewDebouncer \in Debouncer
    BY <1>1, <1>2, <1>3 DEF Idle, NoRequest, NewDebouncer, Actor, Request, Debouncer
  <1> QED
    BY <1>1, <1>2, <1>3, <1>4, ActorAssumption DEF Actors

(* NoTimer drops the timer only. *)
LEMMA NoTimerEffect ==
  ASSUME NEW d \in Debouncer
  PROVE  /\ NoTimer(d) \in Debouncer /\ NoTimer(d).timer = "none" /\ NoTimer(d).epoch = d.epoch
         /\ NoTimer(d).retired = d.retired /\ NoTimer(d).pending = d.pending
BY ConstantsOK DEF NoTimer, Debouncer

(* mergeTokenUseUpdatesLocked keeps to the generation of what it merges. *)
LEMMA MergeType ==
  ASSUME NEW p \in Batch, NEW b \in Batch
  PROVE  /\ Merge(p, b) \in Batch
         /\ \A g : RecordedIn(p, g) /\ RecordedIn(b, g) => RecordedIn(Merge(p, b), g)
BY DEF Merge, Batch, RecordedIn

(* What requeueAfterWriteError leaves is scheduled. *)
LEMMA RequeuedEffect ==
  ASSUME TypeOK, NEW i \in Debouncers, NEW batch \in Batch
  PROVE  LET d == Requeued(i, batch)
         IN /\ d \in Debouncer /\ d.retired = debouncer[i].retired
            /\ d.pending = Merge(debouncer[i].pending, batch)
            /\ ~d.retired /\ d.pending # Empty => d.timer = "armed" /\ d.due = d.epoch
            /\ d.retired \/ d.pending = Empty => d.timer = "none"
  <1> DEFINE r == [NoTimer(NextEpoch(i)) EXCEPT !.pending = Merge(@, batch), !.circuit = "open"]
  <1>1. debouncer[i].pending \in Batch
    BY DEF TypeOK, Debouncer
  <1>2. /\ r \in Debouncer /\ r.retired = debouncer[i].retired /\ r.timer = "none"
        /\ r.pending = Merge(debouncer[i].pending, batch)
    <2> DEFINE n == NoTimer(NextEpoch(i))
    <2>1. /\ n \in Debouncer /\ n.retired = debouncer[i].retired /\ n.timer = "none"
          /\ n.pending = debouncer[i].pending
      BY NextEpochType, NoTimerEffect
    <2>2. Merge(n.pending, batch) \in Batch
      BY <1>1, <2>1, MergeType
    <2> HIDE DEF n
    <2>3. r = [n EXCEPT !.pending = Merge(@, batch), !.circuit = "open"]
      BY DEF n
    <2> QED
      BY <2>1, <2>2, <2>3 DEF Debouncer
  <1>3. Requeued(i, batch) = IF r.pending = Empty THEN r ELSE Schedule(r)
    BY DEF Requeued, ScheduleIfPending
  <1> HIDE DEF r
  <1> QED
    BY <1>2, <1>3, ScheduleEffect

(* What closeFailureCircuit leaves is scheduled as before, or again. *)
LEMMA CircuitClosedEffect ==
  ASSUME TypeOK, NEW i \in Debouncers
  PROVE  LET d == CircuitClosed(i)
         IN /\ d \in Debouncer /\ d.retired = debouncer[i].retired /\ d.pending = debouncer[i].pending
            /\ \/ d.timer = debouncer[i].timer /\ d.due = debouncer[i].due /\ d.epoch = debouncer[i].epoch
               \/ d.timer = "armed" /\ d.due = d.epoch /\ ~d.retired
               \/ d.timer = "none" /\ d.retired
  <1> DEFINE d == debouncer[i]
  <1> DEFINE s == [(IF d.timer = "none" THEN d ELSE NoTimer(NextEpoch(i))) EXCEPT !.circuit = "closed"]
  <1>1. d \in Debouncer
    BY DEF TypeOK
  <1>2. s \in Debouncer /\ s.retired = d.retired /\ s.pending = d.pending /\ s.timer = "none"
    BY <1>1, NextEpochType, NoTimerEffect DEF Debouncer
  <1>3. CircuitClosed(i) = IF d.circuit = "closed" \/ d.pending = Empty THEN [d EXCEPT !.circuit = "closed"]
                           ELSE Schedule(s)
    BY DEF CircuitClosed
  <1>4. CASE d.circuit = "closed" \/ d.pending = Empty
    BY <1>1, <1>3, <1>4 DEF Debouncer
  <1>5. CASE ~(d.circuit = "closed" \/ d.pending = Empty)
    <2> HIDE DEF s
    <2> QED
      BY <1>1, <1>2, <1>3, <1>5, ScheduleEffect
  <1> QED
    BY <1>4, <1>5

(* retire leaves neither uses nor a timer. *)
LEMMA RetiredEffect ==
  ASSUME TypeOK, NEW i \in Debouncers
  PROVE  Retired(i) \in Debouncer /\ Retired(i).retired /\ Retired(i).pending = Empty /\ Retired(i).timer = "none"
  <1> DEFINE n == NoTimer(NextEpoch(i))
  <1>1. n \in Debouncer /\ n.timer = "none"
    BY NextEpochType, NoTimerEffect
  <1>2. Retired(i) = [n EXCEPT !.retired = TRUE, !.pending = Empty]
    BY DEF Retired
  <1> HIDE DEF n
  <1> QED
    BY <1>1, <1>2, ConstantsOK DEF Debouncer

(* A flusher that has yet to take the uses. *)
Taking == {"fired", "admitted", "taking"}

(* A debouncer whose uses a timer accounts for. *)
Timed(X) ==
  /\ X.pending # Empty => ~X.retired /\ X.timer # "none"
  /\ X.retired => X.timer = "none"
  /\ X.timer # "none" => X.due = X.epoch

(* An actor a that becomes Y and whose debouncer i becomes X keeps the      *)
(* invariant when the timer, the batch and the gate are accounted for.      *)
LEMMA ActorStepKeeps ==
  ASSUME IInv,
         NEW a \in Actors, NEW Y \in Actor, actor' = [actor EXCEPT ![a] = Y],
         NEW i \in Debouncers, NEW X \in Debouncer, debouncer' = [debouncer EXCEPT ![i] = X],
         i <= tokenUse, X.retired = debouncer[i].retired, Timed(X),
         X.timer = "fired" => \/ Y.at \in Taking /\ Y.of = i /\ Y.epoch = X.epoch
                              \/ /\ debouncer[i].timer = "fired" /\ debouncer[i].epoch = X.epoch
                                 /\ actor[a].at \notin Taking \/ actor[a].epoch # X.epoch,
         actor[a].at \in Taking => actor[a].of = i,
         i = tokenUse => RecordedIn(X.pending, Recorded),
         Y.at # "idle" => Y.of <= tokenUse,
         Y.at \in Owning => Y.of = tokenUse /\ RecordedIn(Y.batch, Recorded),
         Y.at = "leased" => maintenance = "none",
         a \in Flushers => Y.at \notin {"stopping", "finishing"},
         a = Stopper => Y.at \notin Taking \union {"written"} /\ gate.writer = Stopper,
         UNCHANGED <<tokenUse, gate, request, database, counters, latest>>
  PROVE  IInv'
  <1> USE ConstantsOK DEF IInv
  <1>1. TypeOK'
    BY DEF TypeOK, database, counters
  <1>2. GateInv'
    BY DEF GateInv, TypeOK, Taking
  <1>3. OwnerInv'
    BY DEF OwnerInv, TypeOK
  <1>4. TimerInv'
    BY DEF TimerInv, TypeOK, Timed, Taking
  <1>5. ResetInv'
    BY DEF ResetInv, database, counters
  <1>6. GenerationInv'
    BY DEF GenerationInv, TypeOK, Recorded, RecordedIn, database, counters
  <1> QED
    BY <1>1, <1>2, <1>3, <1>4, <1>5, <1>6

(* The actor moves and leaves its debouncer alone. *)
LEMMA ActorMoveKeeps ==
  ASSUME IInv,
         NEW a \in Actors, NEW Y \in Actor, actor' = [actor EXCEPT ![a] = Y],
         LET d == debouncer[actor[a].of]
         IN actor[a].at \in Taking /\ d.timer = "fired" /\ actor[a].epoch = d.epoch =>
              Y.at \in Taking /\ Y.of = actor[a].of /\ Y.epoch = d.epoch,
         Y.at # "idle" => Y.of <= tokenUse,
         Y.at \in Owning => Y.of = tokenUse /\ RecordedIn(Y.batch, Recorded),
         Y.at = "leased" => maintenance = "none",
         a \in Flushers => Y.at \notin {"stopping", "finishing"},
         a = Stopper => Y.at \notin Taking \union {"written"} /\ gate.writer = Stopper,
         UNCHANGED <<debouncer, tokenUse, gate, request, database, counters, latest>>
  PROVE  IInv'
  <1> USE ConstantsOK DEF IInv
  <1>1. TypeOK'
    BY DEF TypeOK, database, counters
  <1>2. GateInv'
    BY DEF GateInv, TypeOK, Taking
  <1>3. OwnerInv'
    BY DEF OwnerInv, TypeOK
  <1>4. TimerInv'
    BY DEF TimerInv, TypeOK, Taking
  <1>5. ResetInv'
    BY DEF ResetInv, database, counters
  <1>6. GenerationInv'
    BY DEF GenerationInv, TypeOK, Recorded, RecordedIn, database, counters
  <1> QED
    BY <1>1, <1>2, <1>3, <1>4, <1>5, <1>6

(* The timer is dropped, and armed again when there is something to write. *)
LEMMA RescheduleEffect ==
  ASSUME NEW d \in Debouncer, Timed(d)
  PROVE  LET X == ScheduleIfPending(NoTimer(d))
         IN /\ X \in Debouncer /\ X.retired = d.retired /\ X.pending = d.pending
            /\ Timed(X) /\ X.timer # "fired"
  <1> DEFINE n == NoTimer(d)
  <1>1. n \in Debouncer /\ n.timer = "none" /\ n.retired = d.retired /\ n.pending = d.pending
    BY NoTimerEffect
  <1>2. ScheduleIfPending(n) = IF n.pending = Empty THEN n ELSE Schedule(n)
    BY DEF ScheduleIfPending
  <1> HIDE DEF n
  <1>3. /\ ScheduleIfPending(n) \in Debouncer /\ ScheduleIfPending(n).retired = d.retired
        /\ ScheduleIfPending(n).pending = d.pending /\ ScheduleIfPending(n).timer # "fired"
    BY <1>1, <1>2, ScheduleEffect
  <1>4. Timed(ScheduleIfPending(n))
    BY <1>1, <1>2, ScheduleEffect DEF Timed
  <1> QED
    BY <1>3, <1>4 DEF n

(* What is known of an actor that is not idle, and of its debouncer. *)
LEMMA ActorFacts ==
  ASSUME IInv, NEW a \in Actors, actor[a].at # "idle"
  PROVE  /\ actor[a] \in Actor /\ actor[a].of \in Debouncers /\ actor[a].of <= tokenUse
         /\ actor[a].batch \in Batch /\ actor[a].epoch \in Epochs
         /\ debouncer[actor[a].of] \in Debouncer /\ Timed(debouncer[actor[a].of])
         /\ actor[a].of = tokenUse => RecordedIn(debouncer[actor[a].of].pending, Recorded)
         /\ actor[a].at \in Owning => /\ actor[a].of = tokenUse /\ ~debouncer[actor[a].of].retired
                                      /\ RecordedIn(actor[a].batch, Recorded)
         /\ a = Stopper => gate.writer = Stopper
  <1> USE DEF IInv
  <1>1. actor[a] \in Actor /\ actor[a].of \in Debouncers /\ actor[a].batch \in Batch /\ actor[a].epoch \in Epochs
    BY DEF TypeOK, Actor
  <1>2. debouncer[actor[a].of] \in Debouncer /\ Timed(debouncer[actor[a].of])
    BY <1>1 DEF TypeOK, TimerInv, Timed
  <1>3. /\ actor[a].of <= tokenUse
        /\ actor[a].at \in Owning => actor[a].of = tokenUse /\ ~debouncer[actor[a].of].retired
    BY <1>1, ConstantsOK DEF OwnerInv, TypeOK
  <1>4. a = Stopper => gate.writer = Stopper
    BY DEF GateInv
  <1> QED
    BY <1>1, <1>2, <1>3, <1>4 DEF GenerationInv

(* A request is admitted, reads the debouncer, or ends. *)
LEMMA RequestMoveKeeps ==
  ASSUME IInv,
         NEW q \in Requests, NEW R \in Request, request' = [request EXCEPT ![q] = R],
         R.at # "idle" => R.of <= tokenUse /\ R.generation = live /\ maintenance \in {"none", "draining"},
         uses' \in Nat, clock' \in Nat,
         UNCHANGED <<debouncer, tokenUse, gate, actor, database, stops, restores, faults, latest>>
  PROVE  IInv'
  <1> USE DEF IInv
  <1>1. TypeOK'
    BY DEF TypeOK, database
  <1>2. GateInv' /\ TimerInv' /\ ResetInv'
    BY DEF GateInv, TimerInv, ResetInv, database
  <1>3. OwnerInv'
    BY DEF OwnerInv, TypeOK
  <1>4. GenerationInv'
    BY DEF GenerationInv, TypeOK, Recorded, database
  <1> QED
    BY <1>1, <1>2, <1>3, <1>4

(* Every step keeps the invariant. *)
LEMMA NextKeeps == IInv /\ Next => IInv'
  <1> SUFFICES ASSUME IInv, Next PROVE IInv'
    OBVIOUS
  <1> USE DEF IInv
  <1>1. ASSUME NEW q \in Requests, NEW t \in Tokens, Authorize(q, t) PROVE IInv'
    <2> DEFINE R == [NoRequest EXCEPT !.at = "authorized", !.token = t, !.generation = live]
    <2>1. R \in Request /\ R.of = 1 /\ R.generation = live
      BY ConstantsOK DEF Request, NoRequest, TypeOK
    <2>2. request' = [request EXCEPT ![q] = R] /\ maintenance = "none" /\ uses' \in Nat /\ clock' \in Nat
      BY <1>1 DEF Authorize, TypeOK
    <2>3. UNCHANGED <<debouncer, tokenUse, gate, actor, database, stops, restores, faults, latest>>
      BY <1>1 DEF Authorize, history
    <2>4. 1 <= tokenUse
      BY ConstantsOK DEF TypeOK
    <2> HIDE DEF R
    <2> QED
      BY <2>1, <2>2, <2>3, <2>4, RequestMoveKeeps
  <1>2. ASSUME NEW q \in Requests, ReadDebouncer(q) PROVE IInv'
    <2> DEFINE R == [request[q] EXCEPT !.at = "recording", !.of = tokenUse, !.ts = clock + 1]
    <2>1. R \in Request /\ R.of = tokenUse /\ R.generation = request[q].generation
      <3>1. request[q] \in Request /\ tokenUse \in Debouncers /\ clock + 1 \in Nat
        BY DEF TypeOK
      <3> QED
        BY <3>1 DEF Request
    <2>2. request' = [request EXCEPT ![q] = R] /\ uses' \in Nat /\ clock' \in Nat
      <3>1. request \in [Requests -> Request] /\ uses \in Nat /\ clock + 1 \in Nat
        BY DEF TypeOK
      <3> QED
        BY <1>2, <3>1 DEF ReadDebouncer
    <2>3. UNCHANGED <<debouncer, tokenUse, gate, actor, database, stops, restores, faults, latest>>
      BY <1>2 DEF ReadDebouncer, history
    <2>4. request[q].generation = live /\ maintenance \in {"none", "draining"}
      BY <1>2 DEF ReadDebouncer, GenerationInv, TypeOK
    <2>5. tokenUse <= tokenUse
      BY ConstantsOK DEF TypeOK
    <2> HIDE DEF R
    <2> QED
      BY <2>1, <2>2, <2>3, <2>4, <2>5, RequestMoveKeeps
  <1>3. ASSUME NEW q \in Requests, Record(q) PROVE IInv'
    <2> DEFINE i == request[q].of
    <2>1. /\ request[q] \in Request /\ i \in Debouncers /\ debouncer[i] \in Debouncer /\ request[q].ts \in Nat
          /\ request[q].generation \in Generations
      BY DEF TypeOK, Request
    <2>2. /\ i <= tokenUse /\ request[q].generation = live /\ maintenance \in {"none", "draining"}
          /\ request' = [request EXCEPT ![q] = NoRequest]
          /\ UNCHANGED <<tokenUse, gate, actor, database, counters>>
      BY <1>3 DEF Record, OwnerInv, GenerationInv, TypeOK
    <2>3. NoRequest \in Request /\ NoRequest.at = "idle"
      BY ConstantsOK DEF NoRequest
    <2>4. CASE debouncer[i].retired
      <3>1. UNCHANGED <<debouncer, latest>>
        BY <1>3, <2>4 DEF Record
      <3>2. /\ UNCHANGED <<debouncer, tokenUse, gate, actor, database, stops, restores, faults, latest>>
            /\ uses' \in Nat /\ clock' \in Nat
        BY <2>2, <3>1 DEF counters, TypeOK
      <3> QED
        BY <2>2, <2>3, <3>2, RequestMoveKeeps
    <2>5. CASE ~debouncer[i].retired
      <3> DEFINE t == request[q].token
      <3> DEFINE use == [generation |-> request[q].generation, ts |-> request[q].ts]
      <3> DEFINE r == [debouncer[i] EXCEPT !.pending[t] = use]
      <3> DEFINE X == Schedule(r)
      <3>1. debouncer' = [debouncer EXCEPT ![i] = X] /\ latest' = [latest EXCEPT ![t] = use]
        BY <1>3, <2>5 DEF Record
      <3>2. i = tokenUse
        <4>1. i \in Nat /\ tokenUse \in Nat
          BY <2>1, <2>2, <2>5, ConstantsOK DEF TypeOK
        <4>2. ~(i < tokenUse)
          BY <2>1, <2>2, <2>5 DEF OwnerInv
        <4> HIDE DEF i
        <4> QED
          BY <2>1, <2>2, <2>5, <4>1, <4>2
      <3>3. use \in Use
        BY <2>1 DEF Use
      <3>4. /\ r \in Debouncer /\ r.retired = debouncer[i].retired /\ r.timer = debouncer[i].timer
            /\ r.due = debouncer[i].due /\ r.epoch = debouncer[i].epoch
            /\ r.pending = [debouncer[i].pending EXCEPT ![t] = use]
        <4> HIDE DEF use, t
        <4> QED
          BY <2>1, <3>3 DEF Debouncer, Batch
      <3>5. RecordedIn(r.pending, Recorded)
        <4>1. RecordedIn(debouncer[i].pending, live) /\ Recorded = live
          BY <2>2, <3>2 DEF GenerationInv, Recorded
        <4>2. use.generation = live /\ debouncer[i].pending \in Batch
          BY <2>1, <2>2 DEF Debouncer
        <4> HIDE DEF use, t, r
        <4> QED
          BY <3>4, <4>1, <4>2 DEF RecordedIn, Batch
      <3>6. latest' \in Batch
        <4> HIDE DEF use, t
        <4> QED
          BY <3>1, <3>3 DEF TypeOK, Batch
      <3> HIDE DEF r
      <3>7. /\ X \in Debouncer /\ X.retired = debouncer[i].retired /\ X.pending = r.pending
            /\ X.epoch = debouncer[i].epoch /\ X.timer # "none"
            /\ X.timer = "fired" => debouncer[i].timer = "fired"
        BY <2>5, <3>4, ScheduleEffect
      <3>8. Timed(X)
        BY <2>1, <2>5, <3>4, <3>7, ScheduleEffect DEF Timed, TimerInv
      <3> HIDE DEF X, i
      <3>9. TypeOK'
        BY <2>1, <2>2, <2>3, <3>1, <3>6, <3>7 DEF TypeOK, database, counters
      <3>10. GateInv' /\ ResetInv'
        BY <2>2 DEF GateInv, ResetInv, database, counters
      <3>11. OwnerInv'
        BY <2>1, <2>2, <2>3, <3>1, <3>2, <3>7, ConstantsOK DEF OwnerInv, TypeOK
      <3>12. TimerInv'
        BY <2>1, <2>2, <3>1, <3>7, <3>8 DEF TimerInv, TypeOK, Timed
      <3>13. GenerationInv'
        BY <2>1, <2>2, <2>3, <3>1, <3>2, <3>5, <3>7 DEF GenerationInv, TypeOK, Recorded, database, counters
      <3> QED
        BY <3>9, <3>10, <3>11, <3>12, <3>13
    <2> QED
      BY <2>4, <2>5
  <1>4. ASSUME NEW d \in Debouncers, CircuitElapses(d) PROVE IInv'
    <2> DEFINE X == [debouncer[d] EXCEPT !.circuit = "elapsed"]
    <2>1. /\ X \in Debouncer /\ X.retired = debouncer[d].retired /\ X.pending = debouncer[d].pending
          /\ X.timer = debouncer[d].timer /\ X.due = debouncer[d].due /\ X.epoch = debouncer[d].epoch
      BY DEF TypeOK, Debouncer
    <2>2. d <= tokenUse
      BY <1>4, ConstantsOK DEF CircuitElapses, OwnerInv, TypeOK, NewDebouncer
    <2>3. /\ debouncer' = [debouncer EXCEPT ![d] = X]
          /\ UNCHANGED <<tokenUse, gate, actor, request, database, counters, latest>>
      BY <1>4 DEF CircuitElapses, history
    <2> HIDE DEF X
    <2>4. TypeOK'
      BY <2>1, <2>3 DEF TypeOK, database, counters
    <2>5. GateInv' /\ ResetInv'
      BY <2>3 DEF GateInv, ResetInv, database, counters
    <2>6. OwnerInv'
      BY <2>1, <2>2, <2>3, ConstantsOK DEF OwnerInv, TypeOK
    <2>7. TimerInv'
      BY <2>1, <2>3 DEF TimerInv, TypeOK
    <2>8. GenerationInv'
      BY <2>1, <2>3 DEF GenerationInv, TypeOK, Recorded, database, counters
    <2> QED
      BY <2>4, <2>5, <2>6, <2>7, <2>8
  <1>5. ASSUME NEW d \in Debouncers, NEW f \in Flushers, Fire(d, f) PROVE IInv'
    <2> DEFINE X == [debouncer[d] EXCEPT !.timer = "fired"]
    <2> DEFINE Y == [at |-> "fired", of |-> d, epoch |-> debouncer[d].due, batch |-> Empty]
    <2>1. X \in Debouncer /\ Y \in Actor
      BY ConstantsOK DEF TypeOK, Debouncer, Actor
    <2>2. d <= tokenUse
      BY <1>5, ConstantsOK DEF Fire, OwnerInv, TypeOK, NewDebouncer
    <2>3. Timed(X) /\ X.retired = debouncer[d].retired /\ Y.epoch = X.epoch
      BY <1>5 DEF Fire, Timed, TimerInv, TypeOK, Debouncer
    <2>4. d = tokenUse => RecordedIn(X.pending, Recorded)
      BY DEF GenerationInv, TypeOK, Debouncer
    <2>5. actor[f].at = "idle" /\ debouncer' = [debouncer EXCEPT ![d] = X] /\ actor' = [actor EXCEPT ![f] = Y]
      BY <1>5 DEF Fire, TypeOK
    <2>6. Y.at = "fired" /\ Y.of = d
      OBVIOUS
    <2>7. UNCHANGED <<tokenUse, gate, request, database, counters, latest>>
      BY <1>5 DEF Fire, history
    <2> HIDE DEF X, Y
    <2> QED
      BY <2>1, <2>2, <2>3, <2>4, <2>5, <2>6, <2>7, ActorStepKeeps, ConstantsOK DEF Taking, Owning
  <1>6. ASSUME NEW f \in Flushers, EnterGate(f) PROVE IInv'
    <2> DEFINE i == actor[f].of
    <2>1. f \in Actors /\ actor[f].at = "fired" /\ UNCHANGED <<tokenUse, gate, request, database, counters, latest>>
      BY <1>6, ConstantsOK DEF EnterGate, history
    <2>2. /\ actor[f] \in Actor /\ i \in Debouncers /\ i <= tokenUse /\ debouncer[i] \in Debouncer
          /\ Timed(debouncer[i]) /\ (i = tokenUse => RecordedIn(debouncer[i].pending, Recorded))
          /\ actor[f].at \in Owning => /\ i = tokenUse /\ ~debouncer[i].retired
                                       /\ RecordedIn(actor[f].batch, Recorded)
          /\ f = Stopper => gate.writer = Stopper
      BY <2>1, ActorFacts
    <2>3. Idle \in Actor /\ Idle.at = "idle"
      BY ConstantsOK DEF Idle
    <2>4. CASE gate.suspended /\ actor[f].epoch = debouncer[i].epoch
      <3> DEFINE X == ScheduleIfPending(NoTimer(debouncer[i]))
      <3>1. debouncer' = [debouncer EXCEPT ![i] = X] /\ actor' = [actor EXCEPT ![f] = Idle]
        BY <1>6, <2>4 DEF EnterGate, PutOff, SetDebouncer, Of, End
      <3>2. /\ X \in Debouncer /\ X.retired = debouncer[i].retired /\ X.pending = debouncer[i].pending
            /\ Timed(X) /\ X.timer # "fired"
        BY <2>2, RescheduleEffect
      <3> HIDE DEF X, i
      <3> QED
        BY <2>1, <2>2, <2>3, <3>1, <3>2, ActorStepKeeps, ConstantsOK DEF Taking, Owning, i
    <2>5. CASE gate.suspended /\ actor[f].epoch # debouncer[i].epoch
      <3>1. actor' = [actor EXCEPT ![f] = Idle] /\ UNCHANGED debouncer
        BY <1>6, <2>5, <2>1 DEF EnterGate, PutOff, Of, End
      <3> QED
        BY <2>5, <2>1, <2>2, <2>3, <3>1, ActorMoveKeeps, ConstantsOK DEF Taking, Owning
    <2>6. CASE ~gate.suspended
      <3> DEFINE Y == [actor[f] EXCEPT !.at = "admitted"]
      <3>1. Y \in Actor /\ Y.at = "admitted" /\ Y.of = i /\ Y.epoch = actor[f].epoch /\ Y.batch = actor[f].batch
        BY <2>2 DEF Actor
      <3>2. actor' = [actor EXCEPT ![f] = Y] /\ UNCHANGED debouncer
        BY <1>6, <2>6, <2>1 DEF EnterGate, Of, Goto, TypeOK
      <3> HIDE DEF Y
      <3> QED
        BY <2>6, <2>1, <2>2, <3>1, <3>2, ActorMoveKeeps, ConstantsOK DEF Taking, Owning
    <2> QED
      BY <2>4, <2>5, <2>6
  <1>7. ASSUME NEW f \in Flushers, CheckCircuit(f) PROVE IInv'
    <2> DEFINE i == actor[f].of
    <2>1. f \in Actors /\ actor[f].at = "admitted" /\ UNCHANGED <<tokenUse, gate, request, database, counters, latest>>
      BY <1>7, ConstantsOK DEF CheckCircuit, history
    <2>2. /\ actor[f] \in Actor /\ i \in Debouncers /\ i <= tokenUse /\ debouncer[i] \in Debouncer
          /\ Timed(debouncer[i]) /\ (i = tokenUse => RecordedIn(debouncer[i].pending, Recorded))
          /\ actor[f].at \in Owning => /\ i = tokenUse /\ ~debouncer[i].retired
                                       /\ RecordedIn(actor[f].batch, Recorded)
          /\ f = Stopper => gate.writer = Stopper
      BY <2>1, ActorFacts
    <2>3. Idle \in Actor /\ Idle.at = "idle"
      BY ConstantsOK DEF Idle
    <2>4. CASE actor[f].epoch = debouncer[i].epoch /\ debouncer[i].circuit = "open"
      <3> DEFINE X == ScheduleIfPending(NoTimer(debouncer[i]))
      <3>1. debouncer' = [debouncer EXCEPT ![i] = X] /\ actor' = [actor EXCEPT ![f] = Idle]
        BY <1>7, <2>4 DEF CheckCircuit, PutOff, SetDebouncer, Of, End
      <3>2. /\ X \in Debouncer /\ X.retired = debouncer[i].retired /\ X.pending = debouncer[i].pending
            /\ Timed(X) /\ X.timer # "fired"
        BY <2>2, RescheduleEffect
      <3>3. /\ i \in Debouncers /\ i <= tokenUse /\ actor[f].of = i
            /\ i = tokenUse => RecordedIn(X.pending, Recorded)
        BY <2>2, <3>2
      <3>4. Idle.at \notin Taking \union Owning \union {"written", "leased", "stopping", "finishing"}
        BY <2>3 DEF Taking, Owning
      <3>5. f = Stopper => gate.writer = Stopper
        BY <2>2
      <3> HIDE DEF X, i
      <3> QED
        BY <2>1, <2>3, <3>1, <3>2, <3>3, <3>4, <3>5, ActorStepKeeps
    <2>5. CASE actor[f].epoch # debouncer[i].epoch
      <3>1. actor' = [actor EXCEPT ![f] = Idle] /\ UNCHANGED debouncer
        BY <1>7, <2>5, <2>1 DEF CheckCircuit, PutOff, Of, End
      <3> QED
        BY <2>5, <2>1, <2>2, <2>3, <3>1, ActorMoveKeeps, ConstantsOK DEF Taking, Owning
    <2>6. CASE actor[f].epoch = debouncer[i].epoch /\ debouncer[i].circuit # "open"
      <3> DEFINE Y == [actor[f] EXCEPT !.at = "taking"]
      <3>1. Y \in Actor /\ Y.at = "taking" /\ Y.of = i /\ Y.epoch = actor[f].epoch /\ Y.batch = actor[f].batch
        BY <2>2 DEF Actor
      <3>2. actor' = [actor EXCEPT ![f] = Y] /\ UNCHANGED debouncer
        BY <1>7, <2>6, <2>1 DEF CheckCircuit, Of, Goto, TypeOK
      <3> HIDE DEF Y
      <3> QED
        BY <2>6, <2>1, <2>2, <3>1, <3>2, ActorMoveKeeps, ConstantsOK DEF Taking, Owning
    <2> QED
      BY <2>4, <2>5, <2>6
  <1>8. ASSUME NEW f \in Flushers, TakePending(f) PROVE IInv'
    <2> DEFINE i == actor[f].of
    <2>1. f \in Actors /\ actor[f].at = "taking" /\ UNCHANGED <<tokenUse, gate, request, database, counters, latest>>
      BY <1>8, ConstantsOK DEF TakePending, history
    <2>2. /\ actor[f] \in Actor /\ i \in Debouncers /\ i <= tokenUse /\ debouncer[i] \in Debouncer
          /\ Timed(debouncer[i]) /\ (i = tokenUse => RecordedIn(debouncer[i].pending, Recorded))
          /\ actor[f].at \in Owning => /\ i = tokenUse /\ ~debouncer[i].retired
                                       /\ RecordedIn(actor[f].batch, Recorded)
          /\ f = Stopper => gate.writer = Stopper
      BY <2>1, ActorFacts
    <2>3. Idle \in Actor /\ Idle.at = "idle"
      BY ConstantsOK DEF Idle
    <2>4. CASE debouncer[i].retired \/ actor[f].epoch # debouncer[i].epoch
      <3>1. actor' = [actor EXCEPT ![f] = Idle] /\ UNCHANGED debouncer
        BY <1>8, <2>4 DEF TakePending, Of, End
      <3>2. debouncer[i].retired => debouncer[i].timer # "fired"
        BY <2>2 DEF Timed
      <3> QED
        BY <2>4, <2>1, <2>2, <2>3, <3>1, <3>2, ActorMoveKeeps, ConstantsOK DEF Taking, Owning
    <2>5. CASE ~debouncer[i].retired /\ actor[f].epoch = debouncer[i].epoch
      <3> DEFINE n == NoTimer(debouncer[i])
      <3> DEFINE X == [n EXCEPT !.pending = Empty]
      <3> DEFINE Y == IF debouncer[i].pending = Empty THEN Idle
                      ELSE [actor[f] EXCEPT !.at = "writing", !.batch = debouncer[i].pending]
      <3>1. debouncer' = [debouncer EXCEPT ![i] = X] /\ actor' = [actor EXCEPT ![f] = Y]
        BY <1>8, <2>1, <2>5 DEF TakePending, SetDebouncer, Of, End, TypeOK
      <3>2. n \in Debouncer /\ n.timer = "none" /\ n.retired = debouncer[i].retired
        BY <2>2, NoTimerEffect
      <3>3. /\ X \in Debouncer /\ X.retired = debouncer[i].retired /\ X.timer = "none" /\ X.pending = Empty
        <4> HIDE DEF n
        <4> QED
          BY <3>2, ConstantsOK DEF Debouncer
      <3>4. i = tokenUse
        <4>1. i \in Nat /\ tokenUse \in Nat
          BY <2>2, <2>5, ConstantsOK DEF TypeOK
        <4>2. ~(i < tokenUse)
          BY <2>2, <2>5 DEF OwnerInv
        <4> HIDE DEF i
        <4> QED
          BY <2>2, <2>5, <4>1, <4>2
      <3>5. /\ Y \in Actor /\ Y.at \in {"idle", "writing"}
            /\ Y.at = "writing" => Y.of = i /\ Y.batch = debouncer[i].pending
        BY <2>2, <2>3 DEF Actor, Debouncer
      <3>6. Timed(X) /\ RecordedIn(X.pending, Recorded)
        BY <3>3, <2>5 DEF Timed, RecordedIn, Empty
      <3>7. Y.at = "writing" => Y.of = tokenUse /\ RecordedIn(Y.batch, Recorded)
        BY <2>2, <3>4, <3>5
      <3>8. /\ Y \in Actor /\ Y.at \in {"idle", "writing"} /\ (Y.at # "idle" => Y.of <= tokenUse)
            /\ Y.at \in Owning => Y.of = tokenUse /\ RecordedIn(Y.batch, Recorded)
        BY <3>5, <3>7, ConstantsOK DEF Owning, TypeOK
      <3>9. f \in Flushers /\ f # Stopper
        BY ConstantsOK
      <3> HIDE DEF X, Y, i
      <3> QED
        BY <2>1, <2>2, <3>1, <3>3, <3>6, <3>8, <3>9, ActorStepKeeps DEF Taking, i
    <2> QED
      BY <2>4, <2>5
  <1>9. ASSUME NEW f \in Flushers, ScheduleRest(f) PROVE IInv'
    <2> DEFINE i == actor[f].of
    <2>1. f \in Actors /\ actor[f].at = "written" /\ UNCHANGED <<tokenUse, gate, request, database, counters, latest>>
      BY <1>9, ConstantsOK DEF ScheduleRest, history
    <2>2. /\ actor[f] \in Actor /\ i \in Debouncers /\ i <= tokenUse /\ debouncer[i] \in Debouncer
          /\ Timed(debouncer[i]) /\ (i = tokenUse => RecordedIn(debouncer[i].pending, Recorded))
          /\ actor[f].at \in Owning => /\ i = tokenUse /\ ~debouncer[i].retired
                                       /\ RecordedIn(actor[f].batch, Recorded)
          /\ f = Stopper => gate.writer = Stopper
      BY <2>1, ActorFacts
    <2>3. Idle \in Actor /\ Idle.at = "idle"
      BY ConstantsOK DEF Idle
    <2> DEFINE X == ScheduleIfPending(debouncer[i])
    <2>4. debouncer' = [debouncer EXCEPT ![i] = X] /\ actor' = [actor EXCEPT ![f] = Idle]
      BY <1>9 DEF ScheduleRest, SetDebouncer, Of, End
    <2>5. X = debouncer[i]
      BY <2>2, ScheduleEffect DEF ScheduleIfPending, Timed
    <2>6. UNCHANGED debouncer
      BY <2>2, <2>4, <2>5 DEF TypeOK
    <2> HIDE DEF X
    <2> QED
      BY <2>1, <2>2, <2>3, <2>4, <2>6, ActorMoveKeeps, ConstantsOK DEF Taking, Owning
  <1>10. ASSUME NEW a \in Actors, AcquireLease(a) PROVE IInv'
    <2> DEFINE i == actor[a].of
    <2>1. a \in Actors /\ actor[a].at = "writing" /\ UNCHANGED <<tokenUse, gate, request, database, counters, latest>>
      BY <1>10, ConstantsOK DEF AcquireLease, history
    <2>2. /\ actor[a] \in Actor /\ i \in Debouncers /\ i <= tokenUse /\ debouncer[i] \in Debouncer
          /\ Timed(debouncer[i]) /\ (i = tokenUse => RecordedIn(debouncer[i].pending, Recorded))
          /\ actor[a].at \in Owning => /\ i = tokenUse /\ ~debouncer[i].retired
                                       /\ RecordedIn(actor[a].batch, Recorded)
          /\ a = Stopper => gate.writer = Stopper
      BY <2>1, ActorFacts
    <2>3. Idle \in Actor /\ Idle.at = "idle"
      BY ConstantsOK DEF Idle
    <2> DEFINE next == IF maintenance = "none" THEN "leased" ELSE "failed"
    <2> DEFINE Y == [actor[a] EXCEPT !.at = next]
    <2>4. Y \in Actor /\ Y.at = next /\ Y.of = i /\ Y.batch = actor[a].batch
      BY <2>2 DEF Actor
    <2>5. actor' = [actor EXCEPT ![a] = Y] /\ UNCHANGED debouncer
      BY <1>10, <2>1 DEF AcquireLease, Goto, TypeOK
    <2> HIDE DEF Y
    <2> QED
      BY <2>1, <2>2, <2>4, <2>5, ActorMoveKeeps, ConstantsOK DEF Taking, Owning
  <1>11. ASSUME NEW a \in Actors, WriteBatch(a) PROVE IInv'
    <2> DEFINE i == actor[a].of
    <2>1. /\ actor[a].at = "leased"
          /\ UNCHANGED <<debouncer, tokenUse, gate, request, live, fallback, maintenance, uses, clock, stops, restores, latest>>
      BY <1>11 DEF WriteBatch
    <2>2. /\ actor[a] \in Actor /\ i = tokenUse /\ actor[a].batch \in Batch
          /\ RecordedIn(actor[a].batch, Recorded) /\ (a = Stopper => gate.writer = Stopper)
      BY <2>1, ActorFacts DEF Owning
    <2>3. maintenance \in {"none", "draining"} /\ Recorded = live /\ live \in Generations
      BY <2>1 DEF GenerationInv, Recorded, TypeOK
    <2>4. PICK next \in {"closing", "failed"} : actor' = [actor EXCEPT ![a].at = next]
      BY <1>11 DEF WriteBatch, Goto
    <2> DEFINE Y == [actor[a] EXCEPT !.at = next]
    <2>5. /\ Y \in Actor /\ Y.at = next /\ Y.of = tokenUse /\ Y.batch = actor[a].batch
          /\ actor' = [actor EXCEPT ![a] = Y]
      BY <2>2, <2>4 DEF Actor, TypeOK
    <2>6. faults' \in Nat
      BY <1>11 DEF WriteBatch, TypeOK
    <2>7. table' \in [Generations -> Batch] /\ \A g \in Generations : RecordedIn(table'[g], g)
      <3>0. PICK part \in SUBSET {t \in Tokens : actor[a].batch[t] # None} : Store(actor[a].batch, part)
        BY <1>11 DEF WriteBatch
      <3> DEFINE b == [t \in Tokens |-> IF t \in part THEN actor[a].batch[t] ELSE table[live][t]]
      <3>1. table[live] \in Batch /\ table \in [Generations -> Batch]
        BY <2>3 DEF TypeOK
      <3>2. b \in Batch
        BY <2>2, <3>1 DEF Batch
      <3>3. RecordedIn(b, live)
        BY <2>2, <2>3 DEF RecordedIn, GenerationInv
      <3>4. table' = [table EXCEPT ![live] = b]
        BY <2>3, <3>0, <3>1 DEF Store
      <3> HIDE DEF b
      <3> QED
        BY <2>3, <3>1, <3>2, <3>3, <3>4 DEF GenerationInv
    <2> HIDE DEF Y
    <2>8. TypeOK'
      BY <2>1, <2>5, <2>6, <2>7 DEF TypeOK
    <2>9. GateInv'
      BY <2>1, <2>2, <2>5, ConstantsOK DEF GateInv, TypeOK
    <2>10. OwnerInv'
      BY <2>1, <2>5, ConstantsOK DEF OwnerInv, TypeOK
    <2>11. TimerInv'
      BY <2>1, <2>5 DEF TimerInv, TypeOK
    <2>12. ResetInv'
      BY <2>1 DEF ResetInv
    <2>13. GenerationInv'
      BY <2>1, <2>2, <2>5, <2>7 DEF GenerationInv, TypeOK, Recorded
    <2> QED
      BY <2>8, <2>9, <2>10, <2>11, <2>12, <2>13
  <1>12. ASSUME NEW a \in Actors, Requeue(a) PROVE IInv'
    <2> DEFINE i == actor[a].of
    <2>1. a \in Actors /\ actor[a].at = "failed" /\ UNCHANGED <<tokenUse, gate, request, database, counters, latest>>
      BY <1>12, ConstantsOK DEF Requeue, history
    <2>2. /\ actor[a] \in Actor /\ i \in Debouncers /\ i <= tokenUse /\ debouncer[i] \in Debouncer
          /\ Timed(debouncer[i]) /\ (i = tokenUse => RecordedIn(debouncer[i].pending, Recorded))
          /\ actor[a].at \in Owning => /\ i = tokenUse /\ ~debouncer[i].retired
                                       /\ RecordedIn(actor[a].batch, Recorded)
          /\ a = Stopper => gate.writer = Stopper
      BY <2>1, ActorFacts
    <2>3. Idle \in Actor /\ Idle.at = "idle"
      BY ConstantsOK DEF Idle
    <2> DEFINE X == Requeued(i, actor[a].batch)
    <2> DEFINE Y == IF a = Stopper THEN [actor[a] EXCEPT !.at = "finishing"] ELSE Idle
    <2>4. debouncer' = [debouncer EXCEPT ![i] = X] /\ actor' = [actor EXCEPT ![a] = Y]
      BY <1>12, <2>1 DEF Requeue, SetDebouncer, Goto, End, TypeOK
    <2>5. actor[a].batch \in Batch /\ debouncer[i].pending \in Batch
      BY <2>2 DEF Actor, Debouncer
    <2>6. /\ X \in Debouncer /\ X.retired = debouncer[i].retired
          /\ X.pending = Merge(debouncer[i].pending, actor[a].batch)
          /\ ~X.retired /\ X.pending # Empty => X.timer = "armed" /\ X.due = X.epoch
          /\ X.retired \/ X.pending = Empty => X.timer = "none"
      BY <2>2, <2>5, RequeuedEffect
    <2>7. RecordedIn(X.pending, Recorded)
      BY <2>1, <2>2, <2>5, <2>6, MergeType DEF Owning
    <2>8. /\ Y \in Actor /\ (a = Stopper => Y.at = "finishing" /\ Y.of = i /\ Y.batch = actor[a].batch)
          /\ a # Stopper => Y.at = "idle"
      BY <2>2, <2>3 DEF Actor
    <2>9. Timed(X) /\ X.timer # "fired"
      BY <2>1, <2>2, <2>6 DEF Timed, Owning
    <2>10. i = tokenUse /\ RecordedIn(actor[a].batch, Recorded)
      BY <2>1, <2>2 DEF Owning
    <2>11. /\ Y.at \in {"idle", "finishing"} /\ (a \in Flushers => Y.at = "idle" /\ a # Stopper)
           /\ Y.at # "idle" => Y.of <= tokenUse /\ Y.of = tokenUse /\ RecordedIn(Y.batch, Recorded)
      BY <2>2, <2>8, <2>10, ConstantsOK
    <2> HIDE DEF X, Y, i
    <2> QED
      BY <2>1, <2>2, <2>4, <2>6, <2>7, <2>8, <2>9, <2>11, ActorStepKeeps DEF Taking, Owning, i
  <1>13. ASSUME NEW a \in Actors, CloseFailureCircuit(a) PROVE IInv'
    <2> DEFINE i == actor[a].of
    <2>1. a \in Actors /\ actor[a].at = "closing" /\ UNCHANGED <<tokenUse, gate, request, database, counters, latest>>
      BY <1>13, ConstantsOK DEF CloseFailureCircuit, history
    <2>2. /\ actor[a] \in Actor /\ i \in Debouncers /\ i <= tokenUse /\ debouncer[i] \in Debouncer
          /\ Timed(debouncer[i]) /\ (i = tokenUse => RecordedIn(debouncer[i].pending, Recorded))
          /\ actor[a].at \in Owning => /\ i = tokenUse /\ ~debouncer[i].retired
                                       /\ RecordedIn(actor[a].batch, Recorded)
          /\ a = Stopper => gate.writer = Stopper
      BY <2>1, ActorFacts
    <2>3. Idle \in Actor /\ Idle.at = "idle"
      BY ConstantsOK DEF Idle
    <2> DEFINE X == CircuitClosed(i)
    <2> DEFINE next == IF a = Stopper THEN "finishing" ELSE "written"
    <2> DEFINE Y == [actor[a] EXCEPT !.at = next]
    <2>4. debouncer' = [debouncer EXCEPT ![i] = X] /\ actor' = [actor EXCEPT ![a] = Y]
      BY <1>13, <2>1 DEF CloseFailureCircuit, SetDebouncer, Goto, TypeOK
    <2>5. /\ X \in Debouncer /\ X.retired = debouncer[i].retired /\ X.pending = debouncer[i].pending
          /\ \/ X.timer = debouncer[i].timer /\ X.due = debouncer[i].due /\ X.epoch = debouncer[i].epoch
             \/ X.timer = "armed" /\ X.due = X.epoch /\ ~X.retired
             \/ X.timer = "none" /\ X.retired
      BY <2>2, CircuitClosedEffect
    <2>6. Y \in Actor /\ Y.at = next /\ Y.of = i /\ Y.batch = actor[a].batch
      BY <2>2 DEF Actor
    <2>7. Timed(X)
      BY <2>1, <2>2, <2>5 DEF Timed, Owning
    <2>8. X.timer = "fired" => debouncer[i].timer = "fired" /\ debouncer[i].epoch = X.epoch
      BY <2>5
    <2>9. i = tokenUse /\ RecordedIn(actor[a].batch, Recorded) /\ RecordedIn(X.pending, Recorded)
      BY <2>1, <2>2, <2>5 DEF Owning
    <2>10. a \in Flushers => a # Stopper
      BY ConstantsOK
    <2> HIDE DEF X, Y, i
    <2> QED
      BY <2>1, <2>2, <2>4, <2>5, <2>6, <2>7, <2>8, <2>9, <2>10, ActorStepKeeps DEF Taking, Owning, i
  <1>14. CASE BeginStop
    <2> DEFINE Y == [Idle EXCEPT !.at = "stopping", !.of = tokenUse]
    <2>1. \/ gate' = [gate EXCEPT !.resume = TRUE] /\ UNCHANGED actor
          \/ /\ gate' = [suspended |-> TRUE, resume |-> FALSE, writer |-> Stopper]
             /\ actor' = [actor EXCEPT ![Stopper] = Y]
      BY <1>14, Zenon DEF BeginStop
    <2>2. Y \in Actor /\ Y.at = "stopping" /\ Y.of = tokenUse /\ Y.batch = Empty
      BY ConstantsOK DEF Actor, Idle, TypeOK
    <2> HIDE DEF Y
    <2>3. /\ actor[Stopper].at = "idle" /\ stops' \in Nat
          /\ gate' \in [suspended : BOOLEAN, resume : BOOLEAN, writer : {None, Stopper, "reset", "resume"}]
          /\ UNCHANGED <<debouncer, tokenUse, request, database, uses, clock, restores, faults, latest>>
      <3>1. gate' \in [suspended : BOOLEAN, resume : BOOLEAN, writer : {None, Stopper, "reset", "resume"}]
        <4>1. CASE gate' = [gate EXCEPT !.resume = TRUE]
          BY <4>1 DEF TypeOK
        <4>2. CASE gate' = [suspended |-> TRUE, resume |-> FALSE, writer |-> Stopper]
          BY <4>2
        <4> QED
          BY <2>1, <4>1, <4>2
      <3>2. stops' \in Nat
        BY <1>14 DEF BeginStop, TypeOK
      <3> QED
        BY <1>14, <3>1, <3>2 DEF BeginStop, history
    <2>4. \/ UNCHANGED actor
          \/ actor' = [actor EXCEPT ![Stopper] = Y] /\ gate'.writer = Stopper
      <3>1. CASE UNCHANGED actor
        BY <3>1 DEF TypeOK
      <3>2. CASE gate' = [suspended |-> TRUE, resume |-> FALSE, writer |-> Stopper] /\ actor' = [actor EXCEPT ![Stopper] = Y]
        BY <3>2 DEF TypeOK
      <3> QED
        BY <2>1, <3>1, <3>2
    <2>5. RecordedIn(Empty, Recorded)
      BY DEF RecordedIn, Empty
    <2>6. TypeOK'
      BY <2>2, <2>3, <2>4, ConstantsOK DEF TypeOK, database
    <2>7. GateInv'
      BY <2>2, <2>3, <2>4, ConstantsOK DEF GateInv, TypeOK
    <2>8. OwnerInv'
      BY <2>2, <2>3, <2>4, ConstantsOK DEF OwnerInv, TypeOK
    <2>9. TimerInv'
      BY <2>3, <2>4, ConstantsOK DEF TimerInv, TypeOK
    <2>10. ResetInv'
      BY <2>3 DEF ResetInv, database
    <2>11. GenerationInv'
      BY <2>2, <2>3, <2>4, <2>5, ConstantsOK DEF GenerationInv, TypeOK, Recorded, database
    <2> QED
      BY <2>6, <2>7, <2>8, <2>9, <2>10, <2>11
  <1>15. CASE FlushNow
    <2> DEFINE i == actor[Stopper].of
    <2>1. Stopper \in Actors /\ actor[Stopper].at = "stopping" /\ UNCHANGED <<tokenUse, gate, request, database, counters, latest>>
      BY <1>15, ConstantsOK DEF FlushNow, history
    <2>2. /\ actor[Stopper] \in Actor /\ i \in Debouncers /\ i <= tokenUse /\ debouncer[i] \in Debouncer
          /\ Timed(debouncer[i]) /\ (i = tokenUse => RecordedIn(debouncer[i].pending, Recorded))
          /\ actor[Stopper].at \in Owning => /\ i = tokenUse /\ ~debouncer[i].retired
                                       /\ RecordedIn(actor[Stopper].batch, Recorded)
          /\ Stopper = Stopper => gate.writer = Stopper
      BY <2>1, ActorFacts
    <2>3. Idle \in Actor /\ Idle.at = "idle"
      BY ConstantsOK DEF Idle
    <2>4. CASE UNCHANGED debouncer /\ Goto(Stopper, "finishing")
      <3> DEFINE Y == [actor[Stopper] EXCEPT !.at = "finishing"]
      <3>1. Y \in Actor /\ Y.at = "finishing" /\ Y.of = i /\ Y.epoch = actor[Stopper].epoch /\ Y.batch = actor[Stopper].batch
        BY <2>2 DEF Actor
      <3>2. actor' = [actor EXCEPT ![Stopper] = Y] /\ UNCHANGED debouncer
        BY <2>4, <2>1 DEF Goto, TypeOK
      <3> HIDE DEF Y
      <3> QED
        BY <2>4, <2>1, <2>2, <3>1, <3>2, ActorMoveKeeps, ConstantsOK DEF Taking, Owning
    <2>5. CASE ~(UNCHANGED debouncer /\ Goto(Stopper, "finishing"))
      <3> DEFINE n == NoTimer(NextEpoch(tokenUse))
      <3> DEFINE X == [n EXCEPT !.pending = Empty]
      <3> DEFINE next == IF debouncer[i].pending = Empty THEN "finishing" ELSE "writing"
      <3> DEFINE Y == [actor[Stopper] EXCEPT !.at = next, !.batch = debouncer[i].pending]
      <3>1. debouncer' = [debouncer EXCEPT ![i] = X] /\ actor' = [actor EXCEPT ![Stopper] = Y]
        BY <1>15, <2>1, <2>5 DEF FlushNow, SetDebouncer, Of, TypeOK
      <3>2. i = tokenUse
        BY <2>1, <2>2 DEF Owning
      <3>3. n \in Debouncer /\ n.timer = "none" /\ n.retired = debouncer[i].retired
        BY <2>2, <3>2, NextEpochType, NoTimerEffect
      <3>4. X \in Debouncer /\ X.retired = debouncer[i].retired /\ X.timer = "none" /\ X.pending = Empty
        <4> HIDE DEF n
        <4> QED
          BY <3>3, ConstantsOK DEF Debouncer
      <3>5. Y \in Actor /\ Y.at = next /\ Y.of = i /\ Y.batch = debouncer[i].pending
        BY <2>2 DEF Actor, Debouncer
      <3>6. Timed(X) /\ RecordedIn(X.pending, Recorded)
        BY <3>4 DEF Timed, RecordedIn, Empty
      <3>7. /\ Y.at \in {"finishing", "writing"} /\ Y.of = tokenUse /\ Y.of <= tokenUse
            /\ RecordedIn(Y.batch, Recorded) /\ Stopper \notin Flushers
        BY <2>2, <3>2, <3>5, ConstantsOK
      <3> HIDE DEF X, Y, i
      <3> QED
        BY <2>1, <2>2, <3>1, <3>4, <3>5, <3>6, <3>7, ActorStepKeeps DEF Taking, Owning, i
    <2> QED
      BY <2>4, <2>5
  <1>16. CASE FinishStop
    <2>1. /\ actor[Stopper].at = "finishing" /\ actor' = [actor EXCEPT ![Stopper] = Idle]
          /\ gate' \in [suspended : BOOLEAN, resume : BOOLEAN, writer : {None, Stopper, "reset", "resume"}]
          /\ UNCHANGED <<debouncer, tokenUse, request, database, counters, latest>>
      BY <1>16 DEF FinishStop, End, TypeOK, history
    <2>2. Idle \in Actor /\ Idle.at = "idle"
      BY ConstantsOK DEF Idle
    <2>3. TypeOK'
      BY <2>1, <2>2, ConstantsOK DEF TypeOK, database, counters
    <2>4. GateInv'
      BY <2>1, <2>2, ConstantsOK DEF GateInv, TypeOK
    <2>5. OwnerInv'
      BY <2>1, <2>2, ConstantsOK DEF OwnerInv, TypeOK, Owning
    <2>6. TimerInv'
      BY <2>1, ConstantsOK DEF TimerInv, TypeOK
    <2>7. ResetInv'
      BY <2>1 DEF ResetInv, database, counters
    <2>8. GenerationInv'
      BY <2>1, <2>2, ConstantsOK DEF GenerationInv, TypeOK, Recorded, Owning, database, counters
    <2> QED
      BY <2>3, <2>4, <2>5, <2>6, <2>7, <2>8
  <1>17. ASSUME NEW w \in {"reset", "resume"}, LockGate(w) PROVE IInv'
    <2>1. /\ actor[Stopper].at = "idle"
          /\ gate' \in [suspended : BOOLEAN, resume : BOOLEAN, writer : {None, Stopper, "reset", "resume"}]
          /\ UNCHANGED <<debouncer, tokenUse, actor, request, database, counters, latest>>
      BY <1>17, ActorAssumption DEF LockGate, GateInv, TypeOK, history
    <2>2. TypeOK' /\ GateInv' /\ ResetInv'
      BY <2>1 DEF TypeOK, GateInv, ResetInv, database, counters
    <2>3. OwnerInv' /\ TimerInv'
      BY <2>1 DEF OwnerInv, TimerInv
    <2>4. GenerationInv'
      BY <2>1 DEF GenerationInv, Recorded, database, counters
    <2> QED
      BY <2>2, <2>3, <2>4
  <1>18. CASE ResumeTokenUseFlush
    <2>1. /\ actor[Stopper].at = "idle"
          /\ gate' \in [suspended : BOOLEAN, resume : BOOLEAN, writer : {None, Stopper, "reset", "resume"}]
          /\ UNCHANGED <<debouncer, tokenUse, actor, request, database, counters, latest>>
      BY <1>18, ActorAssumption DEF ResumeTokenUseFlush, GateHeldBy, GateInv, TypeOK, history
    <2>2. TypeOK' /\ GateInv' /\ ResetInv'
      BY <2>1 DEF TypeOK, GateInv, ResetInv, database, counters
    <2>3. OwnerInv' /\ TimerInv'
      BY <2>1 DEF OwnerInv, TimerInv
    <2>4. GenerationInv'
      BY <2>1 DEF GenerationInv, Recorded, database, counters
    <2> QED
      BY <2>2, <2>3, <2>4
  <1>19. CASE BeginMaintenance
    <2>1. restores + 1 \in 0..MaxRestores /\ restores \in Nat
      BY <1>19, BoundAssumption DEF BeginMaintenance, TypeOK
    <2>2. /\ maintenance = "none" /\ maintenance' = "draining" /\ restores' = restores + 1
          /\ UNCHANGED <<debouncer, tokenUse, gate, actor, request, table, live, fallback, uses, clock, stops, faults, latest>>
      BY <1>19 DEF BeginMaintenance, history
    <2>3. TypeOK'
      BY <2>1, <2>2 DEF TypeOK, counters, database
    <2>4. GateInv' /\ OwnerInv' /\ TimerInv'
      BY <2>2 DEF GateInv, OwnerInv, TimerInv
    <2>5. ResetInv'
      BY <2>1, <2>2, ConstantsOK, BoundAssumption DEF ResetInv, TypeOK, counters
    <2>6. GenerationInv'
      BY <1>19, <2>1, <2>2 DEF BeginMaintenance, GenerationInv, Recorded, counters
    <2> QED
      BY <2>3, <2>4, <2>5, <2>6
  <1>20. CASE AbandonMaintenance
    <2>1. TypeOK'
      BY <1>20, ConstantsOK DEF TypeOK, history, counters, database, AbandonMaintenance, Actor, Request, Debouncer
    <2>2. GateInv'
      BY <1>20, ConstantsOK DEF TypeOK, history, counters, database, AbandonMaintenance, GateInv, Actor
    <2>3. OwnerInv'
      BY <1>20, ConstantsOK DEF TypeOK, history, counters, database, AbandonMaintenance, OwnerInv, GateInv, Owning, Actor, Request, Debouncer
    <2>4. TimerInv'
      BY <1>20, ConstantsOK DEF TypeOK, history, counters, database, AbandonMaintenance, TimerInv, Actor, Debouncer
    <2>5. ResetInv'
      BY <1>20, ConstantsOK DEF TypeOK, history, counters, database, AbandonMaintenance, ResetInv
    <2>6. GenerationInv'
      BY <1>20, ConstantsOK DEF TypeOK, history, counters, database, AbandonMaintenance, GenerationInv, OwnerInv, GateInv, Owning, Recorded, RecordedIn, Actor, Request
    <2> QED
      BY <2>1, <2>2, <2>3, <2>4, <2>5, <2>6
  <1>21. CASE OpenCandidate
    <2>1. restores + 1 \in Generations /\ restores \in Nat
      BY BoundAssumption DEF TypeOK, Generations
    <2>2. /\ maintenance = "draining" /\ maintenance' = "opened" /\ live' = restores + 1 /\ fallback' = live
          /\ UNCHANGED <<debouncer, tokenUse, gate, actor, request, table, counters, latest>>
      BY <1>21 DEF OpenCandidate, history
    <2>3. TypeOK'
      BY <2>1, <2>2 DEF TypeOK, counters, database
    <2>4. GateInv' /\ OwnerInv' /\ TimerInv'
      BY <2>2 DEF GateInv, OwnerInv, TimerInv
    <2>5. ResetInv'
      BY <2>1, <2>2, ConstantsOK, BoundAssumption DEF ResetInv, TypeOK, counters
    <2>6. GenerationInv'
      BY <1>21, <2>1, <2>2 DEF OpenCandidate, Leases, GenerationInv, Recorded, counters
    <2> QED
      BY <2>3, <2>4, <2>5, <2>6
  <1>22. CASE ReopenFallback
    <2>1. TypeOK'
      BY <1>22, ConstantsOK DEF TypeOK, history, counters, database, ReopenFallback, Actor, Request, Debouncer
    <2>2. GateInv'
      BY <1>22, ConstantsOK DEF TypeOK, history, counters, database, ReopenFallback, GateInv, Actor
    <2>3. OwnerInv'
      BY <1>22, ConstantsOK DEF TypeOK, history, counters, database, ReopenFallback, OwnerInv, GateInv, Owning, Actor, Request, Debouncer
    <2>4. TimerInv'
      BY <1>22, ConstantsOK DEF TypeOK, history, counters, database, ReopenFallback, TimerInv, Actor, Debouncer
    <2>5. ResetInv'
      BY <1>22, ConstantsOK DEF TypeOK, history, counters, database, ReopenFallback, ResetInv
    <2>6. GenerationInv'
      BY <1>22, ConstantsOK DEF TypeOK, history, counters, database, ReopenFallback, GenerationInv, OwnerInv, GateInv, Owning, Recorded, RecordedIn, Actor, Request
    <2> QED
      BY <2>1, <2>2, <2>3, <2>4, <2>5, <2>6
  <1>23. CASE ResetTokenUseDebouncer
    <2> DEFINE X == Retired(tokenUse)
    <2>1. /\ maintenance \in {"opened", "refused", "reopened"} /\ gate.writer = "reset"
          /\ \A f \in Flushers : actor[f].at \in {"idle", "fired"}
          /\ gate' \in [suspended : BOOLEAN, resume : BOOLEAN, writer : {None, Stopper, "reset", "resume"}]
          /\ debouncer' = [debouncer EXCEPT ![tokenUse] = X] /\ tokenUse' = tokenUse + 1
          /\ maintenance' = (IF maintenance = "opened" THEN "reset" ELSE "ready")
          /\ latest' = Empty /\ UNCHANGED <<actor, request, table, live, fallback, counters>>
      BY <1>23 DEF ResetTokenUseDebouncer, GateHeldBy, Readers
    <2>2. actor[Stopper].at = "idle"
      BY <2>1, ActorAssumption DEF GateInv
    <2>3. \A a \in Actors : actor[a].at \notin Owning
      BY <2>1, <2>2, ConstantsOK DEF Owning
    <2>4. tokenUse \in Debouncers /\ tokenUse \in Nat /\ tokenUse + 1 \in Debouncers
      <3>1. tokenUse \in Nat /\ tokenUse <= 2 * restores /\ restores \in Nat /\ restores <= MaxRestores
        BY <2>1, ConstantsOK, BoundAssumption DEF ResetInv, TypeOK
      <3> QED
        BY <3>1, BoundAssumption DEF TypeOK, Debouncers
    <2>5. X \in Debouncer /\ X.retired /\ X.pending = Empty /\ X.timer = "none"
      BY <2>4, RetiredEffect
    <2>6. debouncer[tokenUse + 1] = NewDebouncer
      BY <2>4 DEF OwnerInv
    <2> HIDE DEF X
    <2>7. TypeOK'
      BY <2>1, <2>4, <2>5, ConstantsOK DEF TypeOK, counters
    <2>8. GateInv'
      BY <2>1, <2>2 DEF GateInv
    <2>9. OwnerInv'
      <3>1. \A d \in Debouncers : d \in Nat /\ (d < tokenUse + 1 <=> d <= tokenUse) /\ (d <= tokenUse => d <= tokenUse + 1)
        BY <2>4, ConstantsOK
      <3>2. \A d \in Debouncers : debouncer'[d].retired <=> d < tokenUse'
        BY <2>1, <2>4, <2>5, <3>1, ConstantsOK DEF OwnerInv, TypeOK
      <3>3. \A d \in Debouncers : d > tokenUse' => debouncer'[d] = NewDebouncer
        BY <2>1, <2>4, ConstantsOK DEF OwnerInv, TypeOK
      <3>4. \A a \in Actors : actor[a].at # "idle" => actor[a].of <= tokenUse + 1
        BY <2>4, <3>1 DEF OwnerInv, TypeOK, Actor
      <3>5. \A q \in Requests : request[q].at # "idle" => request[q].of <= tokenUse + 1
        BY <2>4, <3>1 DEF OwnerInv, TypeOK, Request
      <3> QED
        BY <2>1, <2>3, <3>2, <3>3, <3>4, <3>5 DEF OwnerInv
    <2>10. TimerInv'
      BY <2>1, <2>4, <2>5 DEF TimerInv, TypeOK
    <2>11. ResetInv'
      BY <2>1, <2>4, BoundAssumption DEF ResetInv, TypeOK, counters
    <2>12. GenerationInv'
      <3>1. debouncer'[tokenUse'].pending = Empty
        BY <2>1, <2>4, <2>6 DEF NewDebouncer, TypeOK
      <3>2. RecordedIn(Empty, Recorded')
        BY DEF RecordedIn, Empty
      <3>3. maintenance = "opened" => live = restores + 1
        BY DEF GenerationInv
      <3> QED
        BY <2>1, <2>3, <3>1, <3>2, <3>3 DEF GenerationInv, counters
    <2> QED
      BY <2>7, <2>8, <2>9, <2>10, <2>11, <2>12
  <1>24. CASE EndMaintenance
    <2>1. TypeOK'
      BY <1>24, ConstantsOK DEF TypeOK, history, counters, database, EndMaintenance, Actor, Request, Debouncer
    <2>2. GateInv'
      BY <1>24, ConstantsOK DEF TypeOK, history, counters, database, EndMaintenance, GateInv, Actor
    <2>3. OwnerInv'
      BY <1>24, ConstantsOK DEF TypeOK, history, counters, database, EndMaintenance, OwnerInv, GateInv, Owning, Actor, Request, Debouncer
    <2>4. TimerInv'
      BY <1>24, ConstantsOK DEF TypeOK, history, counters, database, EndMaintenance, TimerInv, Actor, Debouncer
    <2>5. ResetInv'
      BY <1>24, ConstantsOK DEF TypeOK, history, counters, database, EndMaintenance, ResetInv
    <2>6. GenerationInv'
      BY <1>24, ConstantsOK DEF TypeOK, history, counters, database, EndMaintenance, GenerationInv, OwnerInv, GateInv, Owning, Recorded, RecordedIn, Actor, Request
    <2> QED
      BY <2>1, <2>2, <2>3, <2>4, <2>5, <2>6
  <1> QED
    BY <1>1, <1>2, <1>3, <1>4, <1>5, <1>6, <1>7, <1>8, <1>9, <1>10, <1>11, <1>12, <1>13, <1>14, <1>15, <1>16, <1>17, <1>18, <1>19, <1>20, <1>21, <1>22, <1>23, <1>24 DEF Next, RequestStep, FlushStep, WriteStep, StopStep, ActorStep, ResumeStep, RestoreStep, Actors
(* The invariant holds when the panel starts. *)
LEMMA InitEstablishes == Init => IInv
  <1> SUFFICES ASSUME Init PROVE IInv
    OBVIOUS
  <1>1. Idle.at = "idle" /\ NoRequest.at = "idle" /\ NewDebouncer.pending = Empty /\ NewDebouncer.timer = "none" /\ ~NewDebouncer.retired
    BY DEF Idle, NoRequest, NewDebouncer
  <1>2. RecordedIn(Empty, 1) /\ \A g \in Generations : RecordedIn(Empty, g)
    BY DEF RecordedIn, Empty
  <1>3. TypeOK
    BY ConstantsOK, BoundAssumption DEF Init, TypeOK
  <1>4. GateInv
    BY <1>1, ConstantsOK DEF Init, GateInv
  <1>5. OwnerInv
    BY <1>1, ConstantsOK DEF Init, OwnerInv, Owning
  <1>6. TimerInv
    BY <1>1 DEF Init, TimerInv
  <1>7. ResetInv
    BY DEF Init, ResetInv
  <1>8. GenerationInv
    BY <1>1, <1>2, ConstantsOK DEF Init, GenerationInv, Owning, Recorded
  <1> QED
    BY <1>3, <1>4, <1>5, <1>6, <1>7, <1>8 DEF IInv

(* The inductive invariant holds throughout. *)
THEOREM TokenUseInvariant == Spec => []IInv
  <1>1. IInv /\ UNCHANGED vars => IInv'
    BY DEF vars, database, counters, history, IInv, TypeOK, GateInv, OwnerInv, TimerInv, ResetInv, GenerationInv,
           Recorded
  <1> QED
    BY InitEstablishes, NextKeeps, <1>1, PTL DEF Spec

(* Debouncers, gate, flushers and requests keep to their types. *)
THEOREM TokenUseTypeOK == Spec => []TypeOK
  <1>1. IInv => TypeOK
    BY DEF IInv
  <1> QED
    BY <1>1, TokenUseInvariant, PTL

(* flushTimer, requeueAfterWriteError, closeFailureCircuit, flushNow and    *)
(* retire move the epoch or drop the timer; no use is left without a timer. *)
THEOREM TokenUseIsScheduled == Spec => []PendingIsScheduled
  <1>1. IInv => PendingIsScheduled
    BY DEF IInv, TimerInv, PendingIsScheduled
  <1> QED
    BY <1>1, TokenUseInvariant, PTL

(* resetTokenUseDebouncerContext: no use recorded, queued, fired or in      *)
(* flight under one database is written to the one that replaces it.        *)
THEOREM TokenUseStaysInItsGeneration == Spec => []OldUseNeverReachesCandidate
  <1>1. IInv => OldUseNeverReachesCandidate
    BY DEF IInv, GenerationInv, RecordedIn, OldUseNeverReachesCandidate
  <1> QED
    BY <1>1, TokenUseInvariant, PTL

-----------------------------------------------------------------------------
(* Who holds a batch that is neither written nor requeued yet. *)
Carrying == {"writing", "leased", "failed"}
Carries(Y, t, u) == Y.at \in Carrying /\ Covers(Y.batch, t, u)

(* The use, or a newer one, was written, waits in memory, or is on its way. *)
Held(t, u) ==
  \/ Saved(t, u)
  \/ Covers(debouncer[tokenUse].pending, t, u)
  \/ \E a \in Actors : Carries(actor[a], t, u)

(* NoUseLost, without counting on a batch that nobody writes or requeues    *)
(* any more.                                                                *)
Kept == \A t \in Tokens : latest[t] # None => Held(t, latest[t])

(* Nothing that is held moves. *)
LEMMA StillHeld ==
  ASSUME Kept, tokenUse' = tokenUse, latest' = latest, written' = written, actor' = actor,
         debouncer'[tokenUse].pending = debouncer[tokenUse].pending
  PROVE  Kept'
BY DEF Kept, Held, Saved, Covers

(* An actor that moves keeps what is held when what it takes, writes or     *)
(* gives back stays covered.                                                *)
LEMMA ActorHolds ==
  ASSUME IInv, Kept, NEW a \in Actors, NEW Y, actor' = [actor EXCEPT ![a] = Y],
         tokenUse' = tokenUse, latest' = latest, written \subseteq written',
         \A t \in Tokens : \A u \in Use :
           Covers(debouncer[tokenUse].pending, t, u) =>
             Covers(debouncer'[tokenUse].pending, t, u) \/ Carries(Y, t, u),
         \A t \in Tokens : \A u \in Use :
           Carries(actor[a], t, u) =>
             Saved(t, u)' \/ Covers(debouncer'[tokenUse].pending, t, u) \/ Carries(Y, t, u)
  PROVE  Kept'
  <1>1. actor'[a] = Y /\ \A b \in Actors : b # a => actor'[b] = actor[b]
    BY DEF IInv, TypeOK
  <1>2. ASSUME NEW t \in Tokens, NEW u \in Use, Held(t, u) PROVE Held(t, u)'
    <2>1. CASE Saved(t, u)
      BY <2>1 DEF Held, Saved
    <2>2. CASE Covers(debouncer[tokenUse].pending, t, u)
      <3>1. Covers(debouncer'[tokenUse'].pending, t, u) \/ Carries(actor'[a], t, u)
        BY <1>1, <2>2
      <3> QED
        BY <3>1 DEF Held, Covers, Carries
    <2>3. ASSUME NEW b \in Actors, Carries(actor[b], t, u) PROVE Held(t, u)'
      <3>1. CASE b # a
        <4>1. Carries(actor'[b], t, u)
          BY <1>1, <2>3, <3>1
        <4> QED
          BY <4>1 DEF Held, Covers, Carries
      <3>2. CASE b = a
        <4>1. Saved(t, u)' \/ Covers(debouncer'[tokenUse'].pending, t, u) \/ Carries(actor'[a], t, u)
          BY <1>1, <2>3, <3>2
        <4> QED
          BY <4>1 DEF Held, Covers, Carries
      <3> QED
        BY <3>1, <3>2
    <2> QED
      BY <1>2, <2>1, <2>2, <2>3 DEF Held
  <1>3. ASSUME NEW t \in Tokens, latest'[t] # None PROVE Held(t, latest[t])'
    <2>1. latest'[t] \in Use /\ Held(t, latest[t]) /\ latest'[t] = latest[t]
      BY <1>3 DEF Kept, IInv, TypeOK, Batch
    <2> QED
      BY <1>2, <2>1 DEF Held, Saved, Covers, Carries
  <1> QED
    BY <1>3 DEF Kept

(* An actor moves without a batch, or with the one it has. *)
LEMMA ActorPasses ==
  ASSUME IInv, Kept, NEW a \in Actors, NEW Y, actor' = [actor EXCEPT ![a] = Y],
         tokenUse' = tokenUse, latest' = latest, written \subseteq written',
         debouncer'[tokenUse].pending = debouncer[tokenUse].pending,
         actor[a].at \in Carrying => Y.at \in Carrying /\ Y.batch = actor[a].batch
  PROVE  Kept'
  <1>1. \A t \in Tokens : \A u \in Use : Carries(actor[a], t, u) => Carries(Y, t, u)
    BY DEF Carries
  <1>2. \A t \in Tokens : \A u \in Use :
          Covers(debouncer[tokenUse].pending, t, u) => Covers(debouncer'[tokenUse].pending, t, u)
    OBVIOUS
  <1> QED
    BY <1>1, <1>2, ActorHolds

(* mergeTokenUseUpdatesLocked keeps the newer of two uses of a generation. *)
LEMMA MergeCovers ==
  ASSUME NEW p \in Batch, NEW b \in Batch, NEW g, RecordedIn(p, g), RecordedIn(b, g),
         NEW t \in Tokens, NEW u \in Use, Covers(p, t, u) \/ Covers(b, t, u)
  PROVE  Covers(Merge(p, b), t, u)
  <1>1. u.ts \in Nat /\ (p[t] # None => p[t].ts \in Nat) /\ (b[t] # None => b[t].ts \in Nat)
    BY DEF Use, Batch
  <1>2. /\ p[t] # None => p[t].generation = g
        /\ b[t] # None => b[t].generation = g
    BY DEF RecordedIn
  <1>3. Merge(p, b)[t] = IF b[t] = None \/ (p[t] # None /\ b[t].ts <= p[t].ts) THEN p[t] ELSE b[t]
    BY DEF Merge
  <1> QED
    BY <1>1, <1>2, <1>3 DEF Covers

(* Every step keeps the last use of every token. *)
LEMMA NextHolds == IInv /\ Kept /\ Next => Kept'
  <1> SUFFICES ASSUME IInv, Kept, Next PROVE Kept'
    OBVIOUS
  <1>0. debouncer \in [Debouncers -> Debouncer] /\ actor \in [Actors -> Actor] /\ tokenUse \in Debouncers
    BY DEF IInv, TypeOK
  <1>1. ASSUME UNCHANGED <<debouncer, tokenUse, actor, latest, written>> PROVE Kept'
    BY <1>1, StillHeld
  <1>2. ASSUME NEW q \in Requests, NEW t \in Tokens, Authorize(q, t) PROVE Kept'
    BY <1>1, <1>2 DEF Authorize, history
  <1>3. ASSUME NEW q \in Requests, ReadDebouncer(q) PROVE Kept'
    BY <1>1, <1>3 DEF ReadDebouncer, history
  <1>4. ASSUME NEW q \in Requests, Record(q) PROVE Kept'
    <2> DEFINE i == request[q].of
    <2> DEFINE t == request[q].token
    <2> DEFINE use == [generation |-> request[q].generation, ts |-> request[q].ts]
    <2>1. UNCHANGED <<tokenUse, actor, written>>
      BY <1>4 DEF Record
    <2>2. CASE debouncer[i].retired
      BY <1>1, <1>4, <2>1, <2>2 DEF Record
    <2>3. CASE ~debouncer[i].retired
      <3> DEFINE r == [debouncer[i] EXCEPT !.pending[t] = use]
      <3>1. debouncer' = [debouncer EXCEPT ![i] = Schedule(r)] /\ latest' = [latest EXCEPT ![t] = use]
        BY <1>4, <2>3 DEF Record
      <3>2. request[q] \in Request /\ i \in Debouncers /\ i <= tokenUse /\ use \in Use /\ latest \in Batch
        BY <1>4 DEF IInv, TypeOK, OwnerInv, Request, Record, Use
      <3>3. i = tokenUse
        <4>1. ~(i < tokenUse) /\ i \in Nat /\ tokenUse \in Nat
          BY <1>0, <2>3, <3>2, ConstantsOK DEF IInv, OwnerInv
        <4> HIDE DEF i
        <4> QED
          BY <3>2, <4>1
      <3>4. debouncer[i] \in Debouncer /\ debouncer[i].pending \in Batch
        BY <1>0, <3>2 DEF Debouncer
      <3>5. r \in Debouncer /\ r.pending = [debouncer[i].pending EXCEPT ![t] = use]
        <4> HIDE DEF use, t
        <4> QED
          BY <3>2, <3>4 DEF Debouncer, Batch
      <3> HIDE DEF r
      <3>6. Schedule(r).pending = r.pending
        BY <3>5, ScheduleEffect
      <3>7. debouncer'[tokenUse].pending = [debouncer[tokenUse].pending EXCEPT ![t] = use]
        BY <1>0, <3>1, <3>2, <3>3, <3>5, <3>6
      <3>8. \A s \in Tokens : s # t => latest'[s] = latest[s] /\ debouncer'[tokenUse].pending[s] = debouncer[tokenUse].pending[s]
        BY <3>1, <3>2, <3>3, <3>4, <3>7 DEF Batch
      <3>9. t \in Tokens => latest'[t] = use /\ debouncer'[tokenUse].pending[t] = use
        BY <3>1, <3>2, <3>3, <3>4, <3>7 DEF Batch
      <3>10. SUFFICES ASSUME NEW s \in Tokens, latest'[s] # None PROVE Held(s, latest[s])'
        BY DEF Kept
      <3>11. CASE s = t
        <4>1. Covers(debouncer'[tokenUse].pending, s, latest'[s])
          <5>1. use.ts >= use.ts
            BY <3>2 DEF Use
          <5> HIDE DEF use, t
          <5> QED
            BY <3>9, <3>10, <3>11, <5>1 DEF Covers
        <4> QED
          BY <2>1, <4>1 DEF Held, Covers
      <3>12. CASE s # t
        <4> DEFINE p == debouncer[tokenUse].pending
        <4>1. latest'[s] = latest[s] /\ debouncer'[tokenUse'].pending[s] = p[s] /\ latest[s] # None
          BY <2>1, <3>8, <3>10, <3>12
        <4>2. Held(s, latest[s])
          BY <4>1 DEF Kept
        <4> QED
          BY <2>1, <4>1, <4>2 DEF Held, Saved, Covers
      <3> QED
        BY <3>11, <3>12
    <2> QED
      BY <2>2, <2>3
  <1>5. ASSUME NEW d \in Debouncers, CircuitElapses(d) PROVE Kept'
    <2>1. debouncer' = [debouncer EXCEPT ![d].circuit = "elapsed"] /\ UNCHANGED <<tokenUse, actor, latest, written>>
      BY <1>5 DEF CircuitElapses, history
    <2>2. debouncer'[tokenUse].pending = debouncer[tokenUse].pending
      BY <1>0, <2>1 DEF Debouncer
    <2> QED
      BY <2>1, <2>2, StillHeld
  <1>6. ASSUME NEW d \in Debouncers, NEW f \in Flushers, Fire(d, f) PROVE Kept'
    <2> DEFINE Y == [at |-> "fired", of |-> d, epoch |-> debouncer[d].due, batch |-> Empty]
    <2>1. /\ debouncer' = [debouncer EXCEPT ![d].timer = "fired"] /\ UNCHANGED <<tokenUse, latest, written>>
          /\ actor[f].at = "idle" /\ actor' = [actor EXCEPT ![f] = Y]
      BY <1>6 DEF Fire, history
    <2>2. debouncer'[tokenUse].pending = debouncer[tokenUse].pending
      BY <1>0, <2>1 DEF Debouncer
    <2> HIDE DEF Y
    <2> QED
      BY <2>1, <2>2, ActorPasses, ConstantsOK DEF Carrying
  <1>7. ASSUME NEW a \in Actors, actor[a].at \notin Carrying \union {"idle"}, NEW X \in Debouncer, NEW Y,
               X.pending = debouncer[actor[a].of].pending, Y.at \notin Carrying,
               debouncer' = [debouncer EXCEPT ![actor[a].of] = X] \/ UNCHANGED debouncer,
               actor' = [actor EXCEPT ![a] = Y], UNCHANGED <<tokenUse, latest, written>>
        PROVE  Kept'
    <2>1. debouncer'[tokenUse].pending = debouncer[tokenUse].pending
      BY <1>0, <1>7
    <2> QED
      BY <1>7, <2>1, ActorPasses
  <1>8. Idle.at = "idle"
    BY DEF Idle
  <1>9. ASSUME NEW f \in Flushers, EnterGate(f) PROVE Kept'
    <2> DEFINE i == actor[f].of
    <2> DEFINE X == ScheduleIfPending(NoTimer(debouncer[i]))
    <2> DEFINE Y == IF gate.suspended THEN Idle ELSE [actor[f] EXCEPT !.at = "admitted"]
    <2>1. f \in Actors /\ actor[f].at = "fired" /\ UNCHANGED <<tokenUse, latest, written>>
      BY <1>9, ConstantsOK DEF EnterGate, history
    <2>2. i \in Debouncers /\ debouncer[i] \in Debouncer /\ Timed(debouncer[i]) /\ actor[f] \in Actor
      BY <2>1, ActorFacts
    <2>3. X \in Debouncer /\ X.pending = debouncer[i].pending
      BY <2>2, RescheduleEffect
    <2>4. /\ debouncer' = [debouncer EXCEPT ![i] = X] \/ UNCHANGED debouncer
          /\ actor' = [actor EXCEPT ![f] = Y]
      BY <1>0, <1>9, <2>1 DEF EnterGate, PutOff, SetDebouncer, Of, End, Goto
    <2>5. Y.at \notin Carrying
      BY <1>8, <2>2 DEF Carrying, Actor
    <2> HIDE DEF X, Y
    <2> QED
      BY <1>7, <2>1, <2>3, <2>4, <2>5 DEF Carrying
  <1>10. ASSUME NEW f \in Flushers, CheckCircuit(f) PROVE Kept'
    <2> DEFINE i == actor[f].of
    <2> DEFINE X == ScheduleIfPending(NoTimer(debouncer[i]))
    <2> DEFINE Y == IF actor[f].epoch # debouncer[i].epoch \/ debouncer[i].circuit = "open" THEN Idle
                    ELSE [actor[f] EXCEPT !.at = "taking"]
    <2>1. f \in Actors /\ actor[f].at = "admitted" /\ UNCHANGED <<tokenUse, latest, written>>
      BY <1>10, ConstantsOK DEF CheckCircuit, history
    <2>2. i \in Debouncers /\ debouncer[i] \in Debouncer /\ Timed(debouncer[i]) /\ actor[f] \in Actor
      BY <2>1, ActorFacts
    <2>3. X \in Debouncer /\ X.pending = debouncer[i].pending
      BY <2>2, RescheduleEffect
    <2>4. /\ debouncer' = [debouncer EXCEPT ![i] = X] \/ UNCHANGED debouncer
          /\ actor' = [actor EXCEPT ![f] = Y]
      BY <1>0, <1>10, <2>1 DEF CheckCircuit, SetDebouncer, Of, End, Goto
    <2>5. Y.at \notin Carrying
      BY <1>8, <2>2 DEF Carrying, Actor
    <2> HIDE DEF X, Y
    <2> QED
      BY <1>7, <2>1, <2>3, <2>4, <2>5 DEF Carrying
  <1>11. ASSUME NEW a \in Actors, actor[a].at \notin Carrying, NEW X \in Debouncer, X.pending = Empty, NEW Y \in Actor,
                (Y.at \in Carrying /\ Y.batch = debouncer[tokenUse].pending) \/ debouncer[tokenUse].pending = Empty,
                debouncer' = [debouncer EXCEPT ![tokenUse] = X],
                actor' = [actor EXCEPT ![a] = Y], UNCHANGED <<tokenUse, latest, written>>
         PROVE  Kept'
    <2>1. \A t \in Tokens : \A u \in Use : ~Covers(Empty, t, u)
      BY DEF Covers, Empty
    <2>2. \A t \in Tokens : \A u \in Use : Covers(debouncer[tokenUse].pending, t, u) => Carries(Y, t, u)
      BY <1>11, <2>1 DEF Carries
    <2>3. \A t \in Tokens : \A u \in Use : ~Carries(actor[a], t, u)
      BY <1>11 DEF Carries
    <2> QED
      BY <1>11, <2>2, <2>3, ActorHolds
  <1>12. ASSUME NEW f \in Flushers, TakePending(f) PROVE Kept'
    <2> DEFINE i == actor[f].of
    <2>1. f \in Actors /\ actor[f].at = "taking" /\ UNCHANGED <<tokenUse, latest, written>>
      BY <1>12, ConstantsOK DEF TakePending, history
    <2>2. i \in Debouncers /\ i <= tokenUse /\ debouncer[i] \in Debouncer /\ actor[f] \in Actor
      BY <2>1, ActorFacts
    <2>3. CASE debouncer[i].retired \/ actor[f].epoch # debouncer[i].epoch
      <3>1. actor' = [actor EXCEPT ![f] = Idle] /\ UNCHANGED debouncer
        BY <1>12, <2>3 DEF TakePending, Of, End
      <3> QED
        BY <1>7, <1>8, <2>1, <2>2, <3>1 DEF Carrying
    <2>4. CASE ~debouncer[i].retired /\ actor[f].epoch = debouncer[i].epoch
      <3> DEFINE n == NoTimer(debouncer[i])
      <3> DEFINE X == [n EXCEPT !.pending = Empty]
      <3> DEFINE Y == IF debouncer[i].pending = Empty THEN Idle
                      ELSE [actor[f] EXCEPT !.at = "writing", !.batch = debouncer[i].pending]
      <3>1. debouncer' = [debouncer EXCEPT ![i] = X] /\ actor' = [actor EXCEPT ![f] = Y]
        BY <1>0, <1>12, <2>1, <2>4 DEF TakePending, SetDebouncer, Of, End
      <3>2. n \in Debouncer
        BY <2>2, NoTimerEffect
      <3>3. X \in Debouncer /\ X.pending = Empty
        <4> HIDE DEF n
        <4> QED
          BY <3>2, ConstantsOK DEF Debouncer
      <3>4. i = tokenUse
        <4>1. i \in Nat /\ tokenUse \in Nat /\ ~(i < tokenUse)
          BY <1>0, <2>2, <2>4, ConstantsOK DEF IInv, OwnerInv
        <4> HIDE DEF i
        <4> QED
          BY <2>2, <4>1
      <3>5. /\ Y \in Actor
            /\ \/ Y.at \in Carrying /\ Y.batch = debouncer[i].pending
               \/ debouncer[i].pending = Empty
        BY <2>2, ConstantsOK DEF Carrying, Actor, Debouncer
      <3> HIDE DEF X, Y, i
      <3> QED
        BY <1>11, <2>1, <3>1, <3>3, <3>4, <3>5 DEF Carrying
    <2> QED
      BY <2>3, <2>4
  <1>13. ASSUME NEW f \in Flushers, ScheduleRest(f) PROVE Kept'
    <2> DEFINE i == actor[f].of
    <2> DEFINE X == ScheduleIfPending(debouncer[i])
    <2>1. f \in Actors /\ actor[f].at = "written" /\ UNCHANGED <<tokenUse, latest, written>>
      BY <1>13, ConstantsOK DEF ScheduleRest, history
    <2>2. i \in Debouncers /\ debouncer[i] \in Debouncer
      BY <2>1, ActorFacts
    <2>3. X \in Debouncer /\ X.pending = debouncer[i].pending
      BY <2>2, ScheduleEffect DEF ScheduleIfPending
    <2>4. debouncer' = [debouncer EXCEPT ![i] = X] /\ actor' = [actor EXCEPT ![f] = Idle]
      BY <1>13 DEF ScheduleRest, SetDebouncer, Of, End
    <2> HIDE DEF X
    <2> QED
      BY <1>7, <1>8, <2>1, <2>3, <2>4 DEF Carrying
  <1>14. ASSUME NEW a \in Actors, AcquireLease(a) PROVE Kept'
    <2> DEFINE Y == [actor[a] EXCEPT !.at = IF maintenance = "none" THEN "leased" ELSE "failed"]
    <2>1. actor[a].at = "writing" /\ UNCHANGED <<debouncer, tokenUse, latest, written>> /\ actor[a] \in Actor
      BY <1>0, <1>14 DEF AcquireLease, history
    <2>2. actor' = [actor EXCEPT ![a] = Y]
      BY <1>0, <1>14 DEF AcquireLease, Goto
    <2>3. Y.at \in Carrying /\ Y.batch = actor[a].batch
      BY <2>1 DEF Actor, Carrying
    <2> HIDE DEF Y
    <2> QED
      BY <2>1, <2>2, <2>3, ActorPasses
  <1>15. ASSUME NEW a \in Actors, WriteBatch(a) PROVE Kept'
    <2>1. actor[a].at = "leased" /\ UNCHANGED <<debouncer, tokenUse, latest>> /\ actor[a] \in Actor /\ actor[a].batch \in Batch
      BY <1>0, <1>15 DEF WriteBatch, Actor
    <2>2. CASE Goto(a, "failed") /\ written \subseteq written'
      <3> DEFINE Y == [actor[a] EXCEPT !.at = "failed"]
      <3>1. actor' = [actor EXCEPT ![a] = Y] /\ Y.at \in Carrying /\ Y.batch = actor[a].batch
        BY <1>0, <2>1, <2>2 DEF Goto, Actor, Carrying
      <3> HIDE DEF Y
      <3> QED
        BY <2>1, <2>2, <3>1, ActorPasses
    <2>3. CASE /\ Goto(a, "closing")
               /\ written' = written \union {<<t, actor[a].batch[t]>> : t \in {v \in Tokens : actor[a].batch[v] # None}}
      <3> DEFINE Y == [actor[a] EXCEPT !.at = "closing"]
      <3>1. actor' = [actor EXCEPT ![a] = Y]
        BY <1>0, <2>3 DEF Goto
      <3>2. ASSUME NEW t \in Tokens, NEW u \in Use, Carries(actor[a], t, u) PROVE Saved(t, u)'
        <4>1. <<t, actor[a].batch[t]>> \in written'
          BY <2>3, <3>2 DEF Carries, Covers
        <4>2. <<t, actor[a].batch[t]>>[1] = t /\ <<t, actor[a].batch[t]>>[2] = actor[a].batch[t]
          OBVIOUS
        <4>3. actor[a].batch[t].generation = u.generation /\ actor[a].batch[t].ts >= u.ts
          BY <3>2 DEF Carries, Covers
        <4> QED
          BY <4>1, <4>2, <4>3 DEF Saved
      <3>3. written \subseteq written'
        BY <2>3
      <3> HIDE DEF Y
      <3> QED
        BY <2>1, <3>1, <3>2, <3>3, ActorHolds
    <2> QED
      BY <1>15, <2>2, <2>3 DEF WriteBatch, Store
  <1>16. ASSUME NEW a \in Actors, Requeue(a) PROVE Kept'
    <2> DEFINE i == actor[a].of
    <2> DEFINE X == Requeued(i, actor[a].batch)
    <2> DEFINE Y == IF a = Stopper THEN [actor[a] EXCEPT !.at = "finishing"] ELSE Idle
    <2>1. actor[a].at = "failed" /\ UNCHANGED <<tokenUse, latest, written>>
      BY <1>16 DEF Requeue, history
    <2>2. /\ actor[a] \in Actor /\ i \in Debouncers /\ i = tokenUse /\ debouncer[i] \in Debouncer
          /\ RecordedIn(debouncer[i].pending, Recorded) /\ RecordedIn(actor[a].batch, Recorded)
          /\ actor[a].batch \in Batch
      BY <2>1, ActorFacts DEF Owning
    <2>3. debouncer[i].pending \in Batch
      BY <2>2 DEF Debouncer
    <2>4. debouncer' = [debouncer EXCEPT ![i] = X] /\ actor' = [actor EXCEPT ![a] = Y]
      BY <1>0, <1>16, <2>1 DEF Requeue, SetDebouncer, Goto, End
    <2>5. X.pending = Merge(debouncer[i].pending, actor[a].batch)
      BY <2>2, <2>3, RequeuedEffect DEF IInv
    <2> HIDE DEF X, Y
    <2>6. debouncer'[tokenUse].pending = Merge(debouncer[tokenUse].pending, actor[a].batch)
      BY <1>0, <2>2, <2>4, <2>5
    <2>7. \A t \in Tokens : \A u \in Use :
            Covers(debouncer[tokenUse].pending, t, u) \/ Covers(actor[a].batch, t, u) =>
              Covers(debouncer'[tokenUse].pending, t, u)
      BY <2>2, <2>3, <2>6, MergeCovers
    <2> QED
      BY <2>1, <2>4, <2>7, ActorHolds DEF Carries
  <1>17. ASSUME NEW a \in Actors, CloseFailureCircuit(a) PROVE Kept'
    <2> DEFINE i == actor[a].of
    <2> DEFINE X == CircuitClosed(i)
    <2> DEFINE Y == [actor[a] EXCEPT !.at = IF a = Stopper THEN "finishing" ELSE "written"]
    <2>1. actor[a].at = "closing" /\ UNCHANGED <<tokenUse, latest, written>>
      BY <1>17 DEF CloseFailureCircuit, history
    <2>2. i \in Debouncers /\ debouncer[i] \in Debouncer /\ actor[a] \in Actor
      BY <2>1, ActorFacts
    <2>3. X \in Debouncer /\ X.pending = debouncer[i].pending
      BY <2>2, CircuitClosedEffect DEF IInv
    <2>4. debouncer' = [debouncer EXCEPT ![i] = X] /\ actor' = [actor EXCEPT ![a] = Y]
      BY <1>0, <1>17, <2>1 DEF CloseFailureCircuit, SetDebouncer, Goto
    <2>5. Y.at \notin Carrying
      BY <2>2 DEF Carrying, Actor
    <2> HIDE DEF X, Y
    <2> QED
      BY <1>7, <2>1, <2>3, <2>4, <2>5 DEF Carrying
  <1>18. CASE BeginStop
    <2> DEFINE Y == [Idle EXCEPT !.at = "stopping", !.of = tokenUse]
    <2>1. actor[Stopper].at = "idle" /\ UNCHANGED <<debouncer, tokenUse, latest, written>>
      BY <1>18 DEF BeginStop, history
    <2>2. UNCHANGED actor \/ actor' = [actor EXCEPT ![Stopper] = Y]
      BY <1>18, Zenon DEF BeginStop
    <2> HIDE DEF Y
    <2> QED
      BY <1>1, <2>1, <2>2, ActorPasses, ConstantsOK DEF Carrying
  <1>19. CASE FlushNow
    <2> DEFINE i == actor[Stopper].of
    <2>1. Stopper \in Actors /\ actor[Stopper].at = "stopping" /\ UNCHANGED <<tokenUse, latest, written>>
      BY <1>19, ConstantsOK DEF FlushNow, history
    <2>2. i \in Debouncers /\ i = tokenUse /\ debouncer[i] \in Debouncer /\ actor[Stopper] \in Actor
      BY <2>1, ActorFacts DEF Owning
    <2>3. CASE UNCHANGED debouncer /\ Goto(Stopper, "finishing")
      <3> DEFINE Y == [actor[Stopper] EXCEPT !.at = "finishing"]
      <3>1. actor' = [actor EXCEPT ![Stopper] = Y] /\ Y.at \notin Carrying
        BY <1>0, <2>1, <2>2, <2>3 DEF Goto, Actor, Carrying
      <3> HIDE DEF Y
      <3> QED
        BY <2>1, <2>3, <3>1, ActorPasses DEF Carrying
    <2>4. CASE ~(UNCHANGED debouncer /\ Goto(Stopper, "finishing"))
      <3> DEFINE n == NoTimer(NextEpoch(tokenUse))
      <3> DEFINE X == [n EXCEPT !.pending = Empty]
      <3> DEFINE Y == [actor[Stopper] EXCEPT !.at = IF debouncer[i].pending = Empty THEN "finishing" ELSE "writing",
                                             !.batch = debouncer[i].pending]
      <3>1. debouncer' = [debouncer EXCEPT ![i] = X] /\ actor' = [actor EXCEPT ![Stopper] = Y]
        BY <1>0, <1>19, <2>1, <2>4 DEF FlushNow, SetDebouncer, Of
      <3>2. n \in Debouncer
        BY <2>2, NextEpochType, NoTimerEffect DEF IInv
      <3>3. X \in Debouncer /\ X.pending = Empty
        <4> HIDE DEF n
        <4> QED
          BY <3>2, ConstantsOK DEF Debouncer
      <3>4. /\ Y \in Actor
            /\ \/ Y.at \in Carrying /\ Y.batch = debouncer[i].pending
               \/ debouncer[i].pending = Empty
        BY <2>2 DEF Carrying, Actor, Debouncer
      <3> HIDE DEF X, Y, i
      <3> QED
        BY <1>11, <2>1, <2>2, <3>1, <3>3, <3>4 DEF Carrying
    <2> QED
      BY <2>3, <2>4
  <1>20. CASE FinishStop
    <2>1. /\ Stopper \in Actors /\ actor[Stopper].at = "finishing" /\ actor' = [actor EXCEPT ![Stopper] = Idle]
          /\ UNCHANGED <<debouncer, tokenUse, latest, written>>
      BY <1>20, ConstantsOK DEF FinishStop, End, history
    <2> QED
      BY <2>1, ActorPasses DEF Carrying
  <1>21. ASSUME NEW w \in {"reset", "resume"}, LockGate(w) PROVE Kept'
    BY <1>1, <1>21 DEF LockGate, history
  <1>22. CASE ResumeTokenUseFlush
    BY <1>1, <1>22 DEF ResumeTokenUseFlush, history
  <1>23. CASE BeginMaintenance \/ AbandonMaintenance \/ OpenCandidate \/ ReopenFallback \/ EndMaintenance
    BY <1>1, <1>23 DEF BeginMaintenance, AbandonMaintenance, OpenCandidate, ReopenFallback, EndMaintenance, history
  <1>24. CASE ResetTokenUseDebouncer
    BY <1>24 DEF ResetTokenUseDebouncer, Kept, Empty
  <1> QED
    BY <1>2, <1>3, <1>4, <1>5, <1>6, <1>9, <1>10, <1>12, <1>13, <1>14, <1>15, <1>16, <1>17, <1>18, <1>19, <1>20,
       <1>21, <1>22, <1>23, <1>24
       DEF Next, RequestStep, FlushStep, WriteStep, StopStep, ActorStep, ResumeStep, RestoreStep, Actors

(* Failed writes, stops and races of two flushers: the last use recorded    *)
(* for a token, or a newer one, is never lost but by the reset of a restore.*)
THEOREM TokenUseIsNotLost == Spec => []NoUseLost
  <1>1. Init => Kept
    BY DEF Init, Kept, Empty
  <1>2. Kept /\ UNCHANGED vars => Kept'
    BY StillHeld DEF vars, history
  <1>3. Kept => NoUseLost
    BY DEF Kept, Held, Carries, NoUseLost
  <1> QED
    BY <1>1, <1>2, <1>3, NextHolds, TokenUseInvariant, PTL DEF Spec

=============================================================================
