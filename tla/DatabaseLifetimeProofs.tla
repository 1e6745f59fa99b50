------------------------ MODULE DatabaseLifetimeProofs ------------------------
(***************************************************************************)
(* Proofs about DatabaseLifetime: the counters the drains wait for are     *)
(* exact, the restore moves the files alone, there is one database at a    *)
(* time, an operation keeps its database and a candidate stays private,    *)
(* for every number of goroutines and generations and whatever the         *)
(* shutdown does meanwhile.                                                *)
(***************************************************************************)
EXTENDS DatabaseLifetime, FiniteSetTheorems, TLAPS

(* The value of a lease that counts as an operation of generation g. *)
Live(g) == [state |-> "live", gen |-> g]
LiveOn(l, g) == l.state = "live" /\ l.gen = g
LeaseRecords == [state : LeaseStates, gen : Gens \union {None}]

(* How many workers hold v in f. *)
Count(f, v) == Cardinality({w \in Workers : f[w] = v})

(* What w holds may differ. *)
SameBut(f, h, w) == \A u \in Workers \ {w} : h[u] = f[u]

(* CountsAreExact, in these terms. *)
Counted ==
  \A g \in Gens :
    /\ operations[g] = Count(lease, Live(g))
    /\ connections[g] = Count(conn, g) + idle[g] + leaked[g]
                        + (IF opening = g THEN 1 ELSE 0)

(* The phases in which a pool may be used. *)
OpenPhases == {"active", "draining", "private"}

(* The steps of a restore that has its journal open. *)
JournalSteps == OwnerSteps \ {"owned"}

(* The handle is the active generation; without a handle what is left of   *)
(* it is retired; only the active generation and the one being opened are  *)
(* open, and never both.                                                   *)
Handles ==
  /\ db # None => db = active /\ phase[active] \in OpenPhases
  /\ db = None /\ active # None => phase[active] = "retired"
  /\ \A g \in Gens : phase[g] \in OpenPhases => g \in {active, opening}
  /\ opening # None => active = None /\ phase[opening] \in OpenPhases

(* Connections exist only of those two, and one of that being opened. *)
Connected ==
  /\ \A g \in Gens : connections[g] > 0 => g \in {active, opening}
  /\ opening # None => connections[opening] = 1

(* A lease that counts is one of the active generation. *)
Leased ==
  \A w \in Workers : lease[w].state = "live" => active # None /\ lease[w].gen = active

(* Only restores own the maintenance, and one at a time has its journal    *)
(* open.                                                                   *)
Journal ==
  /\ \A w \in Workers : pc[w] \in OwnerSteps \union {"drain"} => w \in Restorers
  /\ \A v, w \in Workers :
       pc[v] \in JournalSteps /\ pc[w] \in JournalSteps => v = w

(* A generation is being opened exactly while an initializer is at it, and *)
(* nobody else's maintenance is in force then.                             *)
Opening ==
  /\ opening # None => \E w \in Workers : pc[w] = "opening"
  /\ \A w \in Workers : pc[w] = "opening" =>
       opening # None /\ maintenance \in {w, Nobody}

(* What a waiting actor captured is the active generation or a retired one. *)
Captured ==
  /\ \A w \in Workers : pc[w] = "drain" /\ maintenance = w =>
       active \in {None, target[w]}
  /\ \A w \in Workers : pc[w] \in {"conns", "checkpoint", "retire"} =>
       /\ target[w] # None /\ active \in {None, target[w]}
       /\ active = None => phase[target[w]] = "retired"
  /\ \A w \in Workers : pc[w] \in {"finish", "prepare"} =>
       active \in {None, target[w]}
  /\ \A w \in Workers : pc[w] = "swap" => active = None
  /\ \A p \in Actors : pc[p] \in {"finish", "prepare", "closing", "closeWait"}
       /\ target[p] # None => phase[target[p]] = "retired"

(* The maintenance is in force for a restore, which has it unless the      *)
(* shutdown took it away; one whose context lacks the capability does not. *)
Capability ==
  /\ \A w \in Workers : maintenance = w => pc[w] \in OwnerSteps \union {"drain"}
  /\ \A w \in Workers : pc[w] \in OwnerSteps \union {"drain"} =>
       maintenance = w \/ pc[App] # "idle"
  /\ \A w \in Workers : pc[w] \in OwnerSteps /\ maintenance = w => Carries(w)
  /\ \A w \in Workers : pc[w] = "owned" => goal[w] = "install"
  /\ \A w \in Workers : goal[w] = "giveup" =>
       pc[w] \notin OwnerSteps \ {"close", "closing", "closeWait", "stuck"}

(* No operation is admitted once the drain is over, and a goroutine that   *)
(* is idle has none.                                                       *)
Drained ==
  /\ \A w \in Workers : pc[w] \in OwnerSteps /\ maintenance = w =>
       \A v \in Workers : lease[v].state # "live"
  /\ \A w \in Workers : pc[w] = "idle" => lease[w].state # "live"

(* Nobody else has a connection of a candidate, or could get one. *)
Private ==
  \A w \in Workers :
    pc[w] \in {"opening", "opened", "candidate"} /\ maintenance = w =>
      /\ \A g \in Gens : phase[g] # "active"
      /\ \A v \in Workers \ {w} : conn[v] = None

(* An operation has a live database until the shutdown. *)
Served ==
  \A w \in Workers : lease[w].state = "live" =>
    phase[active] = "active" \/ pc[App] # "idle"

(* TypeOK, one conjunct for each variable. *)
Types ==
  /\ phase \in [Gens -> Phases]
  /\ active \in Gens \union {None} /\ db \in Gens \union {None}
  /\ opening \in Gens \union {None}
  /\ operations \in [Gens -> Nat] /\ connections \in [Gens -> Nat]
  /\ idle \in [Gens -> Nat] /\ leaked \in [Gens -> Nat]
  /\ maintenance \in Workers \union {Nobody}
  /\ lease \in [Workers -> LeaseRecords]
  /\ conn \in [Workers -> Gens \union {None}]
  /\ pc \in [Actors -> Steps]
  /\ goal \in [Actors -> Goals]
  /\ target \in [Actors -> Gens \union {None}]
  /\ asleep \subseteq Actors

IInv ==
  /\ Types /\ Counted /\ Handles /\ Connected /\ Leased /\ Journal
  /\ Opening /\ Captured /\ Capability /\ Drained /\ Private /\ Served
-----------------------------------------------------------------------------
(* The facts about the constants that the proofs use. *)
LEMMA ConstantFacts ==
  /\ App \in Actors /\ App \notin Workers
  /\ Nobody \notin Workers /\ Workers \subseteq Actors
  /\ None \notin Gens /\ Gens \subseteq Nat /\ 1 \in Gens
  /\ \A p \in Actors : p \in Workers \/ p = App
  BY LifetimeAssumption DEF Actors, Gens, None

(* What the counts are when one worker changes what it holds. *)
LEMMA CountChange ==
  ASSUME NEW f, NEW h, NEW w \in Workers, NEW v,
         SameBut(f, h, w)
  PROVE  /\ Count(f, v) \in Nat /\ Count(h, v) \in Nat
         /\ f[w] = v /\ h[w] # v => Count(f, v) = Count(h, v) + 1
         /\ f[w] # v /\ h[w] = v => Count(h, v) = Count(f, v) + 1
         /\ (f[w] = v <=> h[w] = v) => Count(h, v) = Count(f, v)
  <1> DEFINE S == {u \in Workers : f[u] = v}
             T == {u \in Workers : h[u] = v}
  <1>1. IsFiniteSet(S) /\ IsFiniteSet(T)
    BY FS_Subset, LifetimeAssumption
  <1>2. Cardinality(S) \in Nat /\ Cardinality(T) \in Nat
    BY <1>1, FS_CardinalityType
  <1>3. ASSUME f[w] = v, h[w] # v PROVE Cardinality(S) = Cardinality(T) + 1
    <2>1. T = S \ {w} /\ w \in S
      BY <1>3 DEF SameBut
    <2> HIDE DEF S, T
    <2>2. Cardinality(S \ {w}) = Cardinality(S) - 1
      BY <1>1, <2>1, FS_RemoveElement
    <2> QED
      BY <1>2, <2>1, <2>2
  <1>4. ASSUME f[w] # v, h[w] = v PROVE Cardinality(T) = Cardinality(S) + 1
    <2>1. S = T \ {w} /\ w \in T
      BY <1>4 DEF SameBut
    <2> HIDE DEF S, T
    <2>2. Cardinality(T \ {w}) = Cardinality(T) - 1
      BY <1>1, <2>1, FS_RemoveElement
    <2> QED
      BY <1>2, <2>1, <2>2
  <1>5. ASSUME f[w] = v <=> h[w] = v PROVE Cardinality(T) = Cardinality(S)
    <2>1. S = T
      BY <1>5 DEF SameBut
    <2> QED
      BY <2>1
  <1> QED
    BY <1>2, <1>3, <1>4, <1>5 DEF Count

(* A count is a number, and zero only if nobody is counted. *)
LEMMA CountFacts ==
  ASSUME NEW f, NEW v
  PROVE  /\ Count(f, v) \in Nat
         /\ \A w \in Workers : f[w] = v => Count(f, v) > 0
         /\ (\A w \in Workers : f[w] # v) => Count(f, v) = 0
  <1> DEFINE S == {u \in Workers : f[u] = v}
  <1>1. IsFiniteSet(S)
    BY FS_Subset, LifetimeAssumption
  <1>2. Cardinality(S) \in Nat /\ (Cardinality(S) = 0 <=> S = {})
    BY <1>1, FS_CardinalityType, FS_EmptySet
  <1> HIDE DEF S
  <1>3. ASSUME NEW w \in Workers, f[w] = v PROVE Cardinality(S) > 0
    <2>1. w \in S
      BY <1>3 DEF S
    <2> QED
      BY <1>2, <2>1
  <1>4. ASSUME \A w \in Workers : f[w] # v PROVE Cardinality(S) = 0
    <2>1. S = {}
      BY <1>4 DEF S
    <2> QED
      BY <1>2, <2>1
  <1> QED
    BY <1>2, <1>3, <1>4 DEF Count, S

LEMMA LiveFacts ==
  ASSUME NEW l \in LeaseRecords, NEW g \in Gens
  PROVE  l = Live(g) <=> l.state = "live" /\ l.gen = g
  BY DEF LeaseRecords, Live

LEMMA ZeroSum ==
  ASSUME NEW a \in Nat, NEW b \in Nat, NEW c \in Nat
  PROVE  /\ a + b + c + 0 = 0 => a = 0 /\ b = 0 /\ c = 0
         /\ ~(a + b + c + 1 = 0)
  OBVIOUS

(* The same for the leases. *)
LEMMA LeaseChange ==
  ASSUME Types, NEW w \in Workers, lease' \in [Workers -> LeaseRecords],
         \A u \in Workers \ {w} : lease'[u] = lease[u], NEW g \in Gens
  PROVE  /\ Count(lease, Live(g)) \in Nat /\ Count(lease', Live(g)) \in Nat
         /\ LiveOn(lease[w], g) /\ ~LiveOn(lease'[w], g) =>
              Count(lease, Live(g)) = Count(lease', Live(g)) + 1
         /\ ~LiveOn(lease[w], g) /\ LiveOn(lease'[w], g) =>
              Count(lease', Live(g)) = Count(lease, Live(g)) + 1
         /\ (LiveOn(lease[w], g) <=> LiveOn(lease'[w], g)) =>
              Count(lease', Live(g)) = Count(lease, Live(g))
  <1> DEFINE f == lease
             h == lease'
             v == Live(g)
  <1>1. SameBut(f, h, w)
    BY DEF SameBut
  <1>2. /\ f[w] = v <=> LiveOn(lease[w], g)
        /\ h[w] = v <=> LiveOn(lease'[w], g)
    BY LiveFacts DEF Types, LiveOn
  <1> HIDE DEF f, h, v
  <1>3. /\ Count(f, v) \in Nat /\ Count(h, v) \in Nat
        /\ f[w] = v /\ h[w] # v => Count(f, v) = Count(h, v) + 1
        /\ f[w] # v /\ h[w] = v => Count(h, v) = Count(f, v) + 1
        /\ (f[w] = v <=> h[w] = v) => Count(h, v) = Count(f, v)
    BY <1>1, CountChange
  <1> QED
    BY <1>2, <1>3 DEF f, h, v

(* A generation without operations has no live lease. *)
LEMMA NoOperations ==
  ASSUME Types, Counted, NEW g \in Gens, operations[g] = 0, NEW w \in Workers
  PROVE  ~(lease[w].state = "live" /\ lease[w].gen = g)
  <1>1. Count(lease, Live(g)) = 0
    BY DEF Counted
  <1>2. lease[w] # Live(g)
    BY <1>1, CountFacts
  <1> QED
    BY <1>2, LiveFacts DEF Types

(* One without connections has nobody connected, and no idle ones. *)
LEMMA NoConnections ==
  ASSUME Types, Counted, NEW g \in Gens, connections[g] = 0
  PROVE  /\ idle[g] = 0 /\ leaked[g] = 0 /\ opening # g /\ Count(conn, g) = 0
         /\ \A w \in Workers : conn[w] # g
  <1>1. Count(conn, g) \in Nat
    BY CountFacts
  <1>2. connections[g] = Count(conn, g) + idle[g] + leaked[g] + (IF opening = g THEN 1 ELSE 0)
    BY DEF Counted
  <1>3. idle[g] \in Nat /\ leaked[g] \in Nat
    BY DEF Types
  <1>4. idle[g] = 0 /\ leaked[g] = 0 /\ opening # g /\ Count(conn, g) = 0
    <2>1. CASE opening = g
      BY <1>1, <1>2, <1>3, <2>1, ZeroSum
    <2>2. CASE opening # g
      <3>1. Count(conn, g) + idle[g] + leaked[g] + 0 = 0
        BY <1>2, <2>2
      <3>2. Count(conn, g) = 0 /\ idle[g] = 0 /\ leaked[g] = 0
        BY <1>1, <1>3, <3>1, ZeroSum
      <3> QED
        BY <2>2, <3>2
    <2> QED
      BY <2>1, <2>2
  <1> QED
    BY <1>4, CountFacts

(* A lease that is granted on the active generation is counted. *)
LEMMA GrantEffect ==
  ASSUME IInv, NEW w \in Workers, active # None, lease[w].state # "live",
         lease' = [lease EXCEPT ![w] = [state |-> "live", gen |-> active]],
         operations' = [operations EXCEPT ![active] = @ + 1]
  PROVE  /\ lease' \in [Workers -> LeaseRecords] /\ operations' \in [Gens -> Nat]
         /\ lease'[w].state = "live" /\ lease'[w].gen = active
         /\ \A u \in Workers \ {w} : lease'[u] = lease[u]
         /\ \A g \in Gens : operations'[g] = Count(lease', Live(g))
  <1>1. active \in Gens
    BY DEF IInv, Types
  <1>2. [state |-> "live", gen |-> active] \in LeaseRecords
    BY <1>1 DEF LeaseRecords, LeaseStates
  <1>3. /\ lease' \in [Workers -> LeaseRecords] /\ operations' \in [Gens -> Nat]
        /\ lease'[w].state = "live" /\ lease'[w].gen = active
        /\ \A u \in Workers \ {w} : lease'[u] = lease[u]
    BY <1>1, <1>2 DEF IInv, Types
  <1>4. ASSUME NEW g \in Gens PROVE operations'[g] = Count(lease', Live(g))
    BY <1>1, <1>3, LeaseChange DEF LiveOn, IInv, Counted, Types
  <1> QED
    BY <1>3, <1>4

(* The end of a maintenance: the leases stay counted, the one it gives     *)
(* back is of the active generation, which is public.                      *)
LEMMA EndEffect ==
  ASSUME IInv, NEW w \in Workers, End(w)
  PROVE  /\ maintenance' = Nobody /\ asleep' = {}
         /\ phase' \in [Gens -> Phases]
         /\ \A g \in Gens : \/ phase'[g] = phase[g]
                            \/ g = active /\ phase[g] = "private" /\ phase'[g] = "active"
         /\ lease' \in [Workers -> LeaseRecords] /\ operations' \in [Gens -> Nat]
         /\ \A g \in Gens : operations'[g] = Count(lease', Live(g))
         /\ \A v \in Workers : lease'[v].state = "live" =>
              \/ lease[v].state = "live" /\ lease'[v].gen = lease[v].gen
              \/ v = w /\ active # None /\ lease'[v].gen = active /\ phase'[active] = "active"
  <1>1. maintenance' = Nobody /\ asleep' = {}
    BY DEF End, Changed
  <1>2. /\ phase' \in [Gens -> Phases]
        /\ \A g \in Gens : \/ phase'[g] = phase[g]
                           \/ g = active /\ phase[g] = "private" /\ phase'[g] = "active"
    BY DEF End, IInv, Types, Phases
  <1>3. lease[w] \in LeaseRecords /\ lease \in [Workers -> LeaseRecords]
    BY DEF IInv, Types
  <1>4. CASE UNCHANGED <<operations, lease>>
    BY <1>1, <1>2, <1>4 DEF IInv, Types, Counted
  <1>5. CASE /\ lease[w].state = "suspended" /\ active # None /\ phase'[active] = "active"
             /\ lease' = [lease EXCEPT ![w] = [state |-> "live", gen |-> active]]
             /\ operations' = [operations EXCEPT ![active] = @ + 1]
    BY <1>1, <1>2, <1>5, GrantEffect
  <1>6. CASE /\ lease[w].state = "suspended"
             /\ lease' = [lease EXCEPT ![w].state = "released"]
             /\ UNCHANGED operations
    <2>1. [lease[w] EXCEPT !.state = "released"] \in LeaseRecords
      BY <1>3 DEF LeaseRecords, LeaseStates
    <2>2. /\ lease' \in [Workers -> LeaseRecords]
          /\ lease'[w].state = "released"
          /\ \A u \in Workers \ {w} : lease'[u] = lease[u]
      BY <1>3, <1>6, <2>1 DEF LeaseRecords
    <2>3. ASSUME NEW g \in Gens PROVE operations'[g] = Count(lease', Live(g))
      BY <1>6, <2>2, LeaseChange DEF LiveOn, IInv, Counted
    <2> QED
      BY <1>1, <1>2, <1>6, <2>2, <2>3 DEF IInv, Types
  <1> QED
    BY <1>4, <1>5, <1>6 DEF End, leases

(* A lease that is released stops counting. *)
LEMMA ReleaseEffect ==
  ASSUME IInv, NEW w \in Workers, ReleaseOperation(w)
  PROVE  /\ lease' \in [Workers -> LeaseRecords] /\ operations' \in [Gens -> Nat]
         /\ \A g \in Gens : operations'[g] = Count(lease', Live(g))
         /\ lease'[w].state # "live"
         /\ \A u \in Workers \ {w} : lease'[u] = lease[u]
         /\ asleep' = {}
  <1>1. lease[w] \in LeaseRecords /\ lease \in [Workers -> LeaseRecords]
    BY DEF IInv, Types
  <1>2. [lease[w] EXCEPT !.state = "released"] \in LeaseRecords
    BY <1>1 DEF LeaseRecords, LeaseStates
  <1>3. /\ lease' \in [Workers -> LeaseRecords]
        /\ lease'[w].state = "released"
        /\ \A u \in Workers \ {w} : lease'[u] = lease[u]
    BY <1>1, <1>2 DEF ReleaseOperation, LeaseRecords
  <1>4. CASE lease[w].state = "suspended" /\ operations' = operations
    <2>1. ASSUME NEW g \in Gens PROVE operations'[g] = Count(lease', Live(g))
      BY <1>3, <1>4, LeaseChange DEF LiveOn, IInv, Counted
    <2> QED
      BY <1>3, <1>4, <2>1 DEF IInv, Types, ReleaseOperation, Changed
  <1>5. CASE /\ lease[w].state = "live"
             /\ operations' = [operations EXCEPT ![lease[w].gen] = @ - 1]
    <2>1. lease[w].gen = active /\ active \in Gens
      BY <1>5 DEF IInv, Types, Leased
    <2>2. ASSUME NEW g \in Gens
          PROVE  operations'[g] = Count(lease', Live(g)) /\ operations'[g] \in Nat
      BY <1>3, <1>5, <2>1, LeaseChange DEF LiveOn, IInv, Counted, Types
    <2>3. operations' \in [Gens -> Nat]
      BY <1>5, <2>1, <2>2 DEF IInv, Types
    <2> QED
      BY <1>3, <2>2, <2>3 DEF ReleaseOperation, Changed
  <1> QED
    BY <1>4, <1>5 DEF ReleaseOperation

(* A connection taken or given back is counted. *)
LEMMA ConnChange ==
  ASSUME NEW w \in Workers, SameBut(conn, conn', w), NEW g
  PROVE  /\ Count(conn, g) \in Nat /\ Count(conn', g) \in Nat
         /\ conn[w] = g /\ conn'[w] # g => Count(conn, g) = Count(conn', g) + 1
         /\ conn[w] # g /\ conn'[w] = g => Count(conn', g) = Count(conn, g) + 1
         /\ (conn[w] = g <=> conn'[w] = g) => Count(conn', g) = Count(conn, g)
  <1> DEFINE f == conn
             h == conn'
  <1>1. SameBut(f, h, w)
    OBVIOUS
  <1> HIDE DEF f, h
  <1>2. /\ Count(f, g) \in Nat /\ Count(h, g) \in Nat
        /\ f[w] = g /\ h[w] # g => Count(f, g) = Count(h, g) + 1
        /\ f[w] # g /\ h[w] = g => Count(h, g) = Count(f, g) + 1
        /\ (f[w] = g <=> h[w] = g) => Count(h, g) = Count(f, g)
    BY <1>1, CountChange
  <1> QED
    BY <1>2 DEF f, h

(* Closing the idle connections leaves those that are held or leaked. *)
LEMMA CloseIdleEffect ==
  ASSUME IInv, NEW g \in Gens \union {None}, CloseIdle(g)
  PROVE  /\ connections' \in [Gens -> Nat] /\ idle' \in [Gens -> Nat]
         /\ \A h \in Gens :
              /\ connections'[h] <= connections[h]
              /\ connections'[h] = Count(conn, h) + idle'[h] + leaked[h]
                                   + (IF opening = h THEN 1 ELSE 0)
  <1>1. CASE g = None
    BY <1>1 DEF CloseIdle, IInv, Types, Counted
  <1>2. CASE g # None
    <2>1. /\ connections \in [Gens -> Nat] /\ idle \in [Gens -> Nat]
          /\ leaked \in [Gens -> Nat] /\ g \in Gens
      BY <1>2 DEF IInv, Types
    <2>2. /\ connections' = [connections EXCEPT ![g] = @ - idle[g]]
          /\ idle' = [idle EXCEPT ![g] = 0]
      BY <1>2 DEF CloseIdle
    <2>3. ASSUME NEW h \in Gens
          PROVE  /\ Count(conn, h) \in Nat
                 /\ connections[h] = Count(conn, h) + idle[h] + leaked[h]
                                     + (IF opening = h THEN 1 ELSE 0)
      BY CountFacts DEF IInv, Counted
    <2>4. ASSUME NEW h \in Gens
          PROVE  /\ connections'[h] <= connections[h] /\ connections'[h] \in Nat
                 /\ connections'[h] = Count(conn, h) + idle'[h] + leaked[h]
                                      + (IF opening = h THEN 1 ELSE 0)
      BY <2>1, <2>2, <2>3
    <2> QED
      BY <2>1, <2>2, <2>4
  <1> QED
    BY <1>1, <1>2

(* A generation is forgotten only when nothing of it is left. *)
Forgotten(g) ==
  /\ active' \in {active, None} /\ (active = g => active' = None)
  /\ active' # active =>
       /\ active' = None /\ active = g /\ phase[active] = "retired"
       /\ connections[active] = 0
       /\ \A w \in Workers : ~(lease[w].state = "live" /\ lease[w].gen = active)

LEMMA ForgetEffect ==
  ASSUME IInv, NEW g \in Gens \union {None}, Forget(g), Ended(g),
         g # None => phase[g] = "retired"
  PROVE  Forgotten(g)
  <1>1. CASE active # g
    BY <1>1 DEF Forget, Forgotten
  <1>2. CASE g = None
    BY <1>2 DEF Forget, Forgotten
  <1>3. CASE active = g /\ g \in Gens /\ g # None
    <2>1. connections[g] = 0 /\ operations[g] = 0
      BY <1>3 DEF Ended, ConnectionsEnded, OperationsEnded
    <2>2. \A w \in Workers : ~(lease[w].state = "live" /\ lease[w].gen = g)
      BY <1>3, <2>1, NoOperations DEF IInv
    <2> QED
      BY <1>3, <2>1, <2>2 DEF Forget, Forgotten
  <1> QED
    BY <1>1, <1>2, <1>3


(* A goroutine starts without a lease. *)
LEMMA StartBareKeeps ==
  ASSUME IInv, NEW w \in Workers, StartBare(w)
  PROVE  IInv'
  <1>1. Counted' /\ Handles' /\ Connected' /\ Leased'
    BY DEF IInv, Counted, Handles, Connected, Leased, StartBare, handles, pools, leases,
       scripts, Goto, Changed, Wake, Awake
  <1>2. Types'
    BY ConstantFacts DEF IInv, Types, Phases, Steps, OwnerSteps, Goals, StartBare,
       handles, pools, leases, scripts, Goto, Changed, Wake, Awake
  <1>3. Journal'
    BY ConstantFacts DEF IInv, Journal, JournalSteps, OwnerSteps, Types, Steps, StartBare,
       handles, pools, leases, scripts, Goto, Changed, Wake, Awake
  <1>4. Opening'
    BY ConstantFacts DEF IInv, Opening, Types, Handles, StartBare, handles, pools, leases,
       scripts, Goto, Changed, Wake, Awake
  <1>5. Captured'
    BY ConstantFacts DEF IInv, Captured, Handles, Types, Steps, Journal, JournalSteps,
       OwnerSteps, StartBare, handles, pools, leases, scripts, Goto, Changed, Wake, Awake
  <1>6. Capability'
    BY ConstantFacts DEF IInv, Capability, Carries, Types, OwnerSteps, StartBare, handles,
       pools, leases, scripts, Goto, Changed, Wake, Awake
  <1>7. Drained'
    BY ConstantFacts DEF IInv, Drained, Types, OwnerSteps, Captured, Leased, StartBare,
       handles, pools, leases, scripts, Goto, Changed, Wake, Awake
  <1>8. Private'
    BY ConstantFacts DEF IInv, Private, Types, OwnerSteps, StartBare, handles, pools,
       leases, scripts, Goto, Changed, Wake, Awake
  <1>9. Served'
    BY ConstantFacts DEF IInv, Served, Types, Leased, Drained, Capability, OwnerSteps,
       Handles, StartBare, handles, pools, leases, scripts, Goto, Changed, Wake, Awake
  <1> QED
    BY <1>1, <1>2, <1>3, <1>4, <1>5, <1>6, <1>7, <1>8, <1>9 DEF IInv

(* The drain ends when no operation is left. *)
LEMMA FinishDrainKeeps ==
  ASSUME IInv, NEW w \in Workers, FinishDrain(w)
  PROVE  IInv'
  <1>1. Counted' /\ Handles' /\ Connected' /\ Leased'
    BY DEF IInv, Counted, Handles, Connected, Leased, FinishDrain, OperationsEnded,
       handles, pools, leases, scripts, Goto, Changed, Wake, Awake
  <1>2. Types'
    BY ConstantFacts DEF IInv, Types, Phases, Steps, OwnerSteps, Goals, OperationsEnded,
       FinishDrain, handles, pools, leases, scripts, Goto, Changed, Wake, Awake
  <1>3. Journal'
    BY ConstantFacts DEF IInv, Journal, JournalSteps, OwnerSteps, Types, Steps,
       OperationsEnded, FinishDrain, handles, pools, leases, scripts, Goto, Changed, Wake,
       Awake
  <1>4. Opening'
    BY ConstantFacts DEF IInv, Opening, Types, Handles, OperationsEnded, FinishDrain,
       handles, pools, leases, scripts, Goto, Changed, Wake, Awake
  <1>5. Captured'
    BY ConstantFacts DEF IInv, Captured, Handles, Types, Steps, Journal, JournalSteps,
       OwnerSteps, OperationsEnded, FinishDrain, handles, pools, leases, scripts, Goto,
       Changed, Wake, Awake
  <1>6. Capability'
    BY ConstantFacts DEF IInv, Capability, Carries, Types, OwnerSteps, OperationsEnded,
       FinishDrain, handles, pools, leases, scripts, Goto, Changed, Wake, Awake
  <1>7. Drained'
    <2>1. /\ pc[w] = "drain" /\ operations[target[w]] = 0 /\ pc'[w] = "owned"
          /\ \A q \in Workers : q # w => pc'[q] = pc[q]
          /\ UNCHANGED <<lease, maintenance>>
      BY ConstantFacts DEF IInv, Types, FinishDrain, OperationsEnded, Awake, Goto, leases
    <2>2. ASSUME NEW v \in Workers, maintenance = w, lease[v].state = "live"
          PROVE  FALSE
      <3>1. active # None /\ lease[v].gen = active /\ active = target[w] /\ active \in Gens
        BY <2>1, <2>2 DEF IInv, Types, Leased, Captured
      <3> QED
        BY <2>1, <2>2, <3>1, NoOperations DEF IInv
    <2> QED
      BY <2>1, <2>2 DEF IInv, Drained, OwnerSteps
  <1>8. Private'
    BY ConstantFacts DEF IInv, Private, Types, OwnerSteps, OperationsEnded, FinishDrain,
       handles, pools, leases, scripts, Goto, Changed, Wake, Awake
  <1>9. Served'
    BY ConstantFacts DEF IInv, Served, Types, Leased, Drained, Capability, OwnerSteps,
       Handles, OperationsEnded, FinishDrain, handles, pools, leases, scripts, Goto,
       Changed, Wake, Awake
  <1> QED
    BY <1>1, <1>2, <1>3, <1>4, <1>5, <1>6, <1>7, <1>8, <1>9 DEF IInv

(* The connections are closed. *)
LEMMA StartCheckpointKeeps ==
  ASSUME IInv, NEW w \in Workers, StartCheckpoint(w)
  PROVE  IInv'
  <1>1. Counted' /\ Handles' /\ Connected' /\ Leased'
    BY DEF IInv, Counted, Handles, Connected, Leased, StartCheckpoint, handles, pools,
       leases, scripts, Goto, Changed, Wake, Awake
  <1>2. Types'
    BY ConstantFacts DEF IInv, Types, Phases, Steps, OwnerSteps, Goals, StartCheckpoint,
       handles, pools, leases, scripts, Goto, Changed, Wake, Awake
  <1>3. Journal'
    BY ConstantFacts DEF IInv, Journal, JournalSteps, OwnerSteps, Types, Steps,
       StartCheckpoint, handles, pools, leases, scripts, Goto, Changed, Wake, Awake
  <1>4. Opening'
    BY ConstantFacts DEF IInv, Opening, Types, Handles, StartCheckpoint, handles, pools,
       leases, scripts, Goto, Changed, Wake, Awake
  <1>5. Captured'
    BY ConstantFacts DEF IInv, Captured, Handles, Types, Steps, Journal, JournalSteps,
       OwnerSteps, StartCheckpoint, handles, pools, leases, scripts, Goto, Changed, Wake,
       Awake
  <1>6. Capability'
    BY ConstantFacts DEF IInv, Capability, Carries, Types, OwnerSteps, StartCheckpoint,
       handles, pools, leases, scripts, Goto, Changed, Wake, Awake
  <1>7. Drained'
    BY ConstantFacts DEF IInv, Drained, Types, OwnerSteps, Captured, Leased,
       StartCheckpoint, handles, pools, leases, scripts, Goto, Changed, Wake, Awake
  <1>8. Private'
    BY ConstantFacts DEF IInv, Private, Types, OwnerSteps, StartCheckpoint, handles,
       pools, leases, scripts, Goto, Changed, Wake, Awake
  <1>9. Served'
    BY ConstantFacts DEF IInv, Served, Types, Leased, Drained, Capability, OwnerSteps,
       Handles, StartCheckpoint, handles, pools, leases, scripts, Goto, Changed, Wake,
       Awake
  <1> QED
    BY <1>1, <1>2, <1>3, <1>4, <1>5, <1>6, <1>7, <1>8, <1>9 DEF IInv

(* The checkpoint is done. *)
LEMMA FinishCheckpointKeeps ==
  ASSUME IInv, NEW w \in Workers, FinishCheckpoint(w)
  PROVE  IInv'
  <1>1. Counted' /\ Handles' /\ Connected' /\ Leased'
    BY DEF IInv, Counted, Handles, Connected, Leased, FinishCheckpoint, handles, pools,
       leases, scripts, Goto, Changed, Wake, Awake
  <1>2. Types'
    BY ConstantFacts DEF IInv, Types, Phases, Steps, OwnerSteps, Goals, FinishCheckpoint,
       handles, pools, leases, scripts, Goto, Changed, Wake, Awake
  <1>3. Journal'
    BY ConstantFacts DEF IInv, Journal, JournalSteps, OwnerSteps, Types, Steps,
       FinishCheckpoint, handles, pools, leases, scripts, Goto, Changed, Wake, Awake
  <1>4. Opening'
    BY ConstantFacts DEF IInv, Opening, Types, Handles, FinishCheckpoint, handles, pools,
       leases, scripts, Goto, Changed, Wake, Awake
  <1>5. Captured'
    BY ConstantFacts DEF IInv, Captured, Handles, Types, Steps, Journal, JournalSteps,
       OwnerSteps, FinishCheckpoint, handles, pools, leases, scripts, Goto, Changed, Wake,
       Awake
  <1>6. Capability'
    BY ConstantFacts DEF IInv, Capability, Carries, Types, OwnerSteps, FinishCheckpoint,
       handles, pools, leases, scripts, Goto, Changed, Wake, Awake
  <1>7. Drained'
    BY ConstantFacts DEF IInv, Drained, Types, OwnerSteps, Captured, Leased,
       FinishCheckpoint, handles, pools, leases, scripts, Goto, Changed, Wake, Awake
  <1>8. Private'
    BY ConstantFacts DEF IInv, Private, Types, OwnerSteps, FinishCheckpoint, handles,
       pools, leases, scripts, Goto, Changed, Wake, Awake
  <1>9. Served'
    BY ConstantFacts DEF IInv, Served, Types, Leased, Drained, Capability, OwnerSteps,
       Handles, FinishCheckpoint, handles, pools, leases, scripts, Goto, Changed, Wake,
       Awake
  <1> QED
    BY <1>1, <1>2, <1>3, <1>4, <1>5, <1>6, <1>7, <1>8, <1>9 DEF IInv

(* A candidate is rejected. *)
LEMMA RejectKeeps ==
  ASSUME IInv, NEW w \in Workers, Reject(w)
  PROVE  IInv'
  <1>1. Counted' /\ Handles' /\ Connected' /\ Leased'
    BY DEF IInv, Counted, Handles, Connected, Leased, Reject, RecoveryGoal, handles,
       pools, leases, scripts, Goto, Changed, Wake, Awake
  <1>2. Types'
    BY ConstantFacts DEF IInv, Types, Phases, Steps, OwnerSteps, Goals, RecoveryGoal,
       Reject, handles, pools, leases, scripts, Goto, Changed, Wake, Awake
  <1>3. Journal'
    BY ConstantFacts DEF IInv, Journal, JournalSteps, OwnerSteps, Types, Steps,
       RecoveryGoal, Reject, handles, pools, leases, scripts, Goto, Changed, Wake, Awake
  <1>4. Opening'
    BY ConstantFacts DEF IInv, Opening, Types, Handles, RecoveryGoal, Reject, handles,
       pools, leases, scripts, Goto, Changed, Wake, Awake
  <1>5. Captured'
    BY ConstantFacts DEF IInv, Captured, Handles, Types, Steps, Journal, JournalSteps,
       OwnerSteps, RecoveryGoal, Reject, handles, pools, leases, scripts, Goto, Changed,
       Wake, Awake
  <1>6. Capability'
    BY ConstantFacts DEF IInv, Capability, Carries, Types, OwnerSteps, RecoveryGoal,
       Reject, handles, pools, leases, scripts, Goto, Changed, Wake, Awake
  <1>7. Drained'
    BY ConstantFacts DEF IInv, Drained, Types, OwnerSteps, Captured, Leased, RecoveryGoal,
       Reject, handles, pools, leases, scripts, Goto, Changed, Wake, Awake
  <1>8. Private'
    BY ConstantFacts DEF IInv, Private, Types, OwnerSteps, RecoveryGoal, Reject, handles,
       pools, leases, scripts, Goto, Changed, Wake, Awake
  <1>9. Served'
    BY ConstantFacts DEF IInv, Served, Types, Leased, Drained, Capability, OwnerSteps,
       Handles, RecoveryGoal, Reject, handles, pools, leases, scripts, Goto, Changed,
       Wake, Awake
  <1> QED
    BY <1>1, <1>2, <1>3, <1>4, <1>5, <1>6, <1>7, <1>8, <1>9 DEF IInv

(* The maintenance is kept. *)
LEMMA KeepPrivateKeeps ==
  ASSUME IInv, NEW w \in Workers, KeepPrivate(w)
  PROVE  IInv'
  <1>1. Counted' /\ Handles' /\ Connected' /\ Leased'
    BY DEF IInv, Counted, Handles, Connected, Leased, KeepPrivate, handles, pools, leases,
       scripts, Goto, Changed, Wake, Awake
  <1>2. Types'
    BY ConstantFacts DEF IInv, Types, Phases, Steps, OwnerSteps, Goals, KeepPrivate,
       handles, pools, leases, scripts, Goto, Changed, Wake, Awake
  <1>3. Journal'
    BY ConstantFacts DEF IInv, Journal, JournalSteps, OwnerSteps, Types, Steps,
       KeepPrivate, handles, pools, leases, scripts, Goto, Changed, Wake, Awake
  <1>4. Opening'
    BY ConstantFacts DEF IInv, Opening, Types, Handles, KeepPrivate, handles, pools,
       leases, scripts, Goto, Changed, Wake, Awake
  <1>5. Captured'
    BY ConstantFacts DEF IInv, Captured, Handles, Types, Steps, Journal, JournalSteps,
       OwnerSteps, KeepPrivate, handles, pools, leases, scripts, Goto, Changed, Wake,
       Awake
  <1>6. Capability'
    BY ConstantFacts DEF IInv, Capability, Carries, Types, OwnerSteps, KeepPrivate,
       handles, pools, leases, scripts, Goto, Changed, Wake, Awake
  <1>7. Drained'
    BY ConstantFacts DEF IInv, Drained, Types, OwnerSteps, Captured, Leased, KeepPrivate,
       handles, pools, leases, scripts, Goto, Changed, Wake, Awake
  <1>8. Private'
    BY ConstantFacts DEF IInv, Private, Types, OwnerSteps, KeepPrivate, handles, pools,
       leases, scripts, Goto, Changed, Wake, Awake
  <1>9. Served'
    BY ConstantFacts DEF IInv, Served, Types, Leased, Drained, Capability, OwnerSteps,
       Handles, KeepPrivate, handles, pools, leases, scripts, Goto, Changed, Wake, Awake
  <1> QED
    BY <1>1, <1>2, <1>3, <1>4, <1>5, <1>6, <1>7, <1>8, <1>9 DEF IInv

(* The files have been moved. *)
LEMMA SwapFilesKeeps ==
  ASSUME IInv, NEW w \in Workers, SwapFiles(w)
  PROVE  IInv'
  <1>1. Counted' /\ Handles' /\ Connected' /\ Leased'
    BY DEF IInv, Counted, Handles, Connected, Leased, SwapFiles, Reopen, RecoveryGoal,
       handles, pools, leases, scripts, Goto, Changed, Wake, Awake
  <1>2. Types'
    BY ConstantFacts DEF IInv, Types, Phases, Steps, OwnerSteps, Goals, Reopen,
       RecoveryGoal, SwapFiles, handles, pools, leases, scripts, Goto, Changed, Wake,
       Awake
  <1>3. Journal'
    BY ConstantFacts DEF IInv, Journal, JournalSteps, OwnerSteps, Types, Steps, Reopen,
       RecoveryGoal, SwapFiles, handles, pools, leases, scripts, Goto, Changed, Wake,
       Awake
  <1>4. Opening'
    BY ConstantFacts DEF IInv, Opening, Types, Handles, Reopen, RecoveryGoal, SwapFiles,
       handles, pools, leases, scripts, Goto, Changed, Wake, Awake
  <1>5. Captured'
    BY ConstantFacts DEF IInv, Captured, Handles, Types, Steps, Journal, JournalSteps,
       OwnerSteps, Reopen, RecoveryGoal, SwapFiles, handles, pools, leases, scripts, Goto,
       Changed, Wake, Awake
  <1>6. Capability'
    BY ConstantFacts DEF IInv, Capability, Carries, Types, OwnerSteps, Reopen,
       RecoveryGoal, SwapFiles, handles, pools, leases, scripts, Goto, Changed, Wake,
       Awake
  <1>7. Drained'
    BY ConstantFacts DEF IInv, Drained, Types, OwnerSteps, Captured, Leased, Reopen,
       RecoveryGoal, SwapFiles, handles, pools, leases, scripts, Goto, Changed, Wake,
       Awake
  <1>8. Private'
    BY ConstantFacts DEF IInv, Private, Types, OwnerSteps, Reopen, RecoveryGoal,
       SwapFiles, handles, pools, leases, scripts, Goto, Changed, Wake, Awake
  <1>9. Served'
    BY ConstantFacts DEF IInv, Served, Types, Leased, Drained, Capability, OwnerSteps,
       Handles, Reopen, RecoveryGoal, SwapFiles, handles, pools, leases, scripts, Goto,
       Changed, Wake, Awake
  <1> QED
    BY <1>1, <1>2, <1>3, <1>4, <1>5, <1>6, <1>7, <1>8, <1>9 DEF IInv

(* An initializer captures what is left of the last database. *)
LEMMA PrepareForInitKeeps ==
  ASSUME IInv, NEW w \in Workers, PrepareForInit(w)
  PROVE  IInv'
  <1>1. Counted' /\ Handles' /\ Connected' /\ Leased'
    BY DEF IInv, Counted, Handles, Connected, Leased, PrepareForInit, InitSteps, handles,
       pools, leases, scripts, Goto, Changed, Wake, Awake
  <1>2. Types'
    BY ConstantFacts DEF IInv, Types, Phases, Steps, OwnerSteps, Goals, InitSteps,
       PrepareForInit, handles, pools, leases, scripts, Goto, Changed, Wake, Awake
  <1>3. Journal'
    BY ConstantFacts DEF IInv, Journal, JournalSteps, OwnerSteps, Types, Steps, InitSteps,
       PrepareForInit, handles, pools, leases, scripts, Goto, Changed, Wake, Awake
  <1>4. Opening'
    BY ConstantFacts DEF IInv, Opening, Types, Handles, InitSteps, PrepareForInit,
       handles, pools, leases, scripts, Goto, Changed, Wake, Awake
  <1>5. Captured'
    BY ConstantFacts DEF IInv, Captured, Handles, Types, Steps, Journal, JournalSteps,
       OwnerSteps, InitSteps, PrepareForInit, handles, pools, leases, scripts, Goto,
       Changed, Wake, Awake
  <1>6. Capability'
    BY ConstantFacts DEF IInv, Capability, Carries, Types, OwnerSteps, InitSteps,
       PrepareForInit, handles, pools, leases, scripts, Goto, Changed, Wake, Awake
  <1>7. Drained'
    BY ConstantFacts DEF IInv, Drained, Types, OwnerSteps, Captured, Leased, InitSteps,
       PrepareForInit, handles, pools, leases, scripts, Goto, Changed, Wake, Awake
  <1>8. Private'
    BY ConstantFacts DEF IInv, Private, Types, OwnerSteps, InitSteps, PrepareForInit,
       handles, pools, leases, scripts, Goto, Changed, Wake, Awake
  <1>9. Served'
    BY ConstantFacts DEF IInv, Served, Types, Leased, Drained, Capability, OwnerSteps,
       Handles, InitSteps, PrepareForInit, handles, pools, leases, scripts, Goto, Changed,
       Wake, Awake
  <1> QED
    BY <1>1, <1>2, <1>3, <1>4, <1>5, <1>6, <1>7, <1>8, <1>9 DEF IInv

(* The shutdown starts. *)
LEMMA ShutdownKeeps ==
  ASSUME IInv, Shutdown
  PROVE  IInv'
  <1>1. Counted' /\ Handles' /\ Connected' /\ Leased'
    BY DEF IInv, Counted, Handles, Connected, Leased, Shutdown, handles, pools, leases,
       scripts, Goto, Changed, Wake, Awake
  <1>2. Types'
    BY ConstantFacts DEF IInv, Types, Phases, Steps, OwnerSteps, Goals, Shutdown, handles,
       pools, leases, scripts, Goto, Changed, Wake, Awake
  <1>3. Journal'
    BY ConstantFacts DEF IInv, Journal, JournalSteps, OwnerSteps, Types, Steps, Shutdown,
       handles, pools, leases, scripts, Goto, Changed, Wake, Awake
  <1>4. Opening'
    BY ConstantFacts DEF IInv, Opening, Types, Handles, Shutdown, handles, pools, leases,
       scripts, Goto, Changed, Wake, Awake
  <1>5. Captured'
    BY ConstantFacts DEF IInv, Captured, Handles, Types, Steps, Journal, JournalSteps,
       OwnerSteps, Shutdown, handles, pools, leases, scripts, Goto, Changed, Wake, Awake
  <1>6. Capability'
    BY ConstantFacts DEF IInv, Capability, Carries, Types, OwnerSteps, Shutdown, handles,
       pools, leases, scripts, Goto, Changed, Wake, Awake
  <1>7. Drained'
    BY ConstantFacts DEF IInv, Drained, Types, OwnerSteps, Captured, Leased, Shutdown,
       handles, pools, leases, scripts, Goto, Changed, Wake, Awake
  <1>8. Private'
    BY ConstantFacts DEF IInv, Private, Types, OwnerSteps, Shutdown, handles, pools,
       leases, scripts, Goto, Changed, Wake, Awake
  <1>9. Served'
    BY ConstantFacts DEF IInv, Served, Types, Leased, Drained, Capability, OwnerSteps,
       Handles, Shutdown, handles, pools, leases, scripts, Goto, Changed, Wake, Awake
  <1> QED
    BY <1>1, <1>2, <1>3, <1>4, <1>5, <1>6, <1>7, <1>8, <1>9 DEF IInv

(* A close gives up. *)
LEMMA FailCloseKeeps ==
  ASSUME IInv, NEW p \in Actors, FailClose(p)
  PROVE  IInv'
  <1>1. Counted' /\ Handles' /\ Connected' /\ Leased'
    BY DEF IInv, Counted, Handles, Connected, Leased, FailClose, handles, pools, leases,
       scripts, Goto, Changed, Wake, Awake
  <1>2. Types'
    BY ConstantFacts DEF IInv, Types, Phases, Steps, OwnerSteps, Goals, FailClose,
       handles, pools, leases, scripts, Goto, Changed, Wake, Awake
  <1>3. Journal'
    BY ConstantFacts DEF IInv, Journal, JournalSteps, OwnerSteps, Types, Steps, FailClose,
       handles, pools, leases, scripts, Goto, Changed, Wake, Awake
  <1>4. Opening'
    BY ConstantFacts DEF IInv, Opening, Types, Handles, FailClose, handles, pools, leases,
       scripts, Goto, Changed, Wake, Awake
  <1>5. Captured'
    BY ConstantFacts DEF IInv, Captured, Handles, Types, Steps, Journal, JournalSteps,
       OwnerSteps, FailClose, handles, pools, leases, scripts, Goto, Changed, Wake, Awake
  <1>6. Capability'
    BY ConstantFacts DEF IInv, Capability, Carries, Types, OwnerSteps, FailClose, handles,
       pools, leases, scripts, Goto, Changed, Wake, Awake
  <1>7. Drained'
    BY ConstantFacts DEF IInv, Drained, Types, OwnerSteps, Captured, Leased, FailClose,
       handles, pools, leases, scripts, Goto, Changed, Wake, Awake
  <1>8. Private'
    BY ConstantFacts DEF IInv, Private, Types, OwnerSteps, FailClose, handles, pools,
       leases, scripts, Goto, Changed, Wake, Awake
  <1>9. Served'
    BY ConstantFacts DEF IInv, Served, Types, Leased, Drained, Capability, OwnerSteps,
       Handles, FailClose, handles, pools, leases, scripts, Goto, Changed, Wake, Awake
  <1> QED
    BY <1>1, <1>2, <1>3, <1>4, <1>5, <1>6, <1>7, <1>8, <1>9 DEF IInv

(* An actor waits. *)
LEMMA SleepKeeps ==
  ASSUME IInv, NEW p \in Actors, Sleep(p)
  PROVE  IInv'
  <1>1. Counted' /\ Handles' /\ Connected' /\ Leased' /\ Journal' /\ Opening' /\ Captured' /\ Capability' /\ Drained' /\ Private' /\ Served'
    BY DEF IInv, Counted, Handles, Connected, Leased, Journal, Opening, Captured,
       Capability, Drained, Private, Served, Carries, Sleep, handles, pools, leases,
       scripts, Goto, Changed, Wake, Awake
  <1>2. Types'
    BY ConstantFacts DEF IInv, Types, Phases, Steps, OwnerSteps, Goals, Sleep, handles,
       pools, leases, scripts, Goto, Changed, Wake, Awake
  <1> QED
    BY <1>1, <1>2 DEF IInv

(* An operation is over. *)
LEMMA EndOperationKeeps ==
  ASSUME IInv, NEW w \in Workers, EndOperation(w)
  PROVE  IInv'
  <1>1. /\ pc[w] = "working" /\ pc' \in [Actors -> Steps] /\ pc'[w] = "idle"
        /\ \A q \in Actors : q # w => pc'[q] = pc[q]
    BY ConstantFacts DEF EndOperation, Goto, IInv, Types, Steps
  <1>2. /\ lease' \in [Workers -> LeaseRecords]
        /\ lease[w].state # "live" /\ lease'[w].state # "live"
        /\ \A u \in Workers \ {w} : lease'[u] = lease[u]
    BY DEF EndOperation, NoLease, LeaseRecords, LeaseStates, IInv, Types
  <1>3. \A g \in Gens : operations[g] = Count(lease', Live(g))
    BY <1>2, LeaseChange DEF LiveOn, IInv, Counted
  <1>4. UNCHANGED <<phase, active, db, operations, connections, idle, leaked, opening, maintenance, conn, goal, target, asleep>>
    BY DEF EndOperation, handles, pools, scripts
  <1>5. Handles' /\ Connected'
    BY <1>1, <1>2, <1>3, <1>4 DEF IInv, Handles, Connected
  <1>6. Types'
    BY <1>1, <1>2, <1>3, <1>4, ConstantFacts DEF IInv, Types, Phases, Steps, OwnerSteps,
       Goals
  <1>7. Counted'
    BY <1>1, <1>2, <1>3, <1>4, ConstantFacts DEF IInv, Counted
  <1>8. Leased'
    BY <1>1, <1>2, <1>3, <1>4, ConstantFacts DEF IInv, Leased, Types
  <1>9. Journal'
    BY <1>1, <1>2, <1>3, <1>4, ConstantFacts DEF IInv, Journal, JournalSteps, OwnerSteps,
       Types, Steps
  <1>10. Opening'
    BY <1>1, <1>2, <1>3, <1>4, ConstantFacts DEF IInv, Opening, Types, Handles
  <1>11. Captured'
    BY <1>1, <1>2, <1>3, <1>4, ConstantFacts DEF IInv, Captured, Handles, Types, Steps,
       Journal, JournalSteps, OwnerSteps
  <1>12. Capability'
    BY <1>1, <1>2, <1>3, <1>4, ConstantFacts DEF IInv, Capability, Carries, Types,
       OwnerSteps
  <1>13. Drained'
    BY <1>1, <1>2, <1>3, <1>4, ConstantFacts DEF IInv, Drained, Types, OwnerSteps,
       Captured, Leased
  <1>14. Private'
    BY <1>1, <1>2, <1>3, <1>4, ConstantFacts DEF IInv, Private, Types, OwnerSteps
  <1>15. Served'
    BY <1>1, <1>2, <1>3, <1>4, ConstantFacts DEF IInv, Served, Types, Leased, Drained,
       Capability, OwnerSteps, Handles
  <1> QED
    BY <1>5, <1>6, <1>7, <1>8, <1>9, <1>10, <1>11, <1>12, <1>13, <1>14, <1>15 DEF IInv

(* An operation is admitted. *)
LEMMA AcquireOperationKeeps ==
  ASSUME IInv, NEW w \in Workers, AcquireOperation(w)
  PROVE  IInv'
  <1>1. /\ pc[w] = "idle" /\ pc' \in [Actors -> Steps] /\ pc'[w] = "working"
        /\ \A q \in Actors : q # w => pc'[q] = pc[q]
        /\ maintenance = Nobody /\ asleep' \in {asleep, {}}
    BY ConstantFacts DEF AcquireOperation, Goto, Changed, IInv, Types, Steps
  <1>2. UNCHANGED <<phase, active, db, connections, idle, leaked, opening, maintenance, conn, goal, target>>
    BY DEF AcquireOperation, handles, pools, scripts
  <1>3. /\ lease' \in [Workers -> LeaseRecords] /\ operations' \in [Gens -> Nat]
        /\ \A g \in Gens : operations'[g] = Count(lease', Live(g))
        /\ lease'[w] = lease[w] \/ (/\ active # None /\ phase[active] = "active"
                                    /\ lease'[w].state = "live" /\ lease'[w].gen = active)
        /\ \A u \in Workers \ {w} : lease'[u] = lease[u]
    <2>1. CASE UNCHANGED leases
      BY <2>1 DEF leases, IInv, Types, Counted
    <2>2. CASE /\ active # None /\ phase[active] = "active"
               /\ lease' = [lease EXCEPT ![w] = [state |-> "live", gen |-> active]]
               /\ operations' = [operations EXCEPT ![active] = @ + 1]
      <3>1. lease[w].state # "live"
        BY <1>1 DEF IInv, Drained
      <3> QED
        BY <2>2, <3>1, GrantEffect
    <2> QED
      BY <2>1, <2>2 DEF AcquireOperation
  <1>4. Handles' /\ Connected'
    BY <1>1, <1>2, <1>3 DEF IInv, Handles, Connected
  <1>5. Types'
    BY <1>1, <1>2, <1>3, ConstantFacts DEF IInv, Types, Phases, Steps, OwnerSteps, Goals
  <1>6. Counted'
    BY <1>1, <1>2, <1>3, ConstantFacts DEF IInv, Counted
  <1>7. Leased'
    BY <1>1, <1>2, <1>3, ConstantFacts DEF IInv, Leased, Types
  <1>8. Journal'
    BY <1>1, <1>2, <1>3, ConstantFacts DEF IInv, Journal, JournalSteps, OwnerSteps, Types,
       Steps
  <1>9. Opening'
    BY <1>1, <1>2, <1>3, ConstantFacts DEF IInv, Opening, Types, Handles
  <1>10. Captured'
    BY <1>1, <1>2, <1>3, ConstantFacts DEF IInv, Captured, Handles, Types, Steps, Journal,
       JournalSteps, OwnerSteps
  <1>11. Capability'
    BY <1>1, <1>2, <1>3, ConstantFacts DEF IInv, Capability, Carries, Types, OwnerSteps
  <1>12. Drained'
    BY <1>1, <1>2, <1>3, ConstantFacts DEF IInv, Drained, Types, OwnerSteps, Captured,
       Leased
  <1>13. Private'
    BY <1>1, <1>2, <1>3, ConstantFacts DEF IInv, Private, Types, OwnerSteps
  <1>14. Served'
    BY <1>1, <1>2, <1>3, ConstantFacts DEF IInv, Served, Types, Leased, Drained,
       Capability, OwnerSteps, Handles
  <1> QED
    BY <1>4, <1>5, <1>6, <1>7, <1>8, <1>9, <1>10, <1>11, <1>12, <1>13, <1>14 DEF IInv

(* A lease is given up before its operation is over. *)
LEMMA ReleaseEarlyKeeps ==
  ASSUME IInv, NEW w \in Workers, ReleaseEarly(w)
  PROVE  IInv'
  <1>1. UNCHANGED <<phase, active, db, connections, idle, leaked, opening, maintenance, conn, pc, goal, target>>
    BY DEF ReleaseEarly, handles, pools, scripts
  <1>2. /\ lease' \in [Workers -> LeaseRecords] /\ operations' \in [Gens -> Nat]
        /\ \A g \in Gens : operations'[g] = Count(lease', Live(g))
        /\ lease'[w].state # "live"
        /\ \A u \in Workers \ {w} : lease'[u] = lease[u]
        /\ asleep' = {}
    BY ReleaseEffect DEF ReleaseEarly
  <1>3. Handles' /\ Connected' /\ Journal' /\ Opening' /\ Captured' /\ Capability' /\ Private'
    BY <1>1, <1>2 DEF IInv, Handles, Connected, Journal, Opening, Captured, Capability,
       Private, Carries
  <1>4. Types'
    BY <1>1, <1>2, ConstantFacts DEF IInv, Types, Phases, Steps, OwnerSteps, Goals
  <1>5. Counted'
    BY <1>1, <1>2, ConstantFacts DEF IInv, Counted
  <1>6. Leased'
    BY <1>1, <1>2, ConstantFacts DEF IInv, Leased, Types
  <1>7. Drained'
    BY <1>1, <1>2, ConstantFacts DEF IInv, Drained, Types, OwnerSteps, Captured, Leased
  <1>8. Served'
    BY <1>1, <1>2, ConstantFacts DEF IInv, Served, Types, Leased, Drained, Capability,
       OwnerSteps, Handles
  <1> QED
    BY <1>3, <1>4, <1>5, <1>6, <1>7, <1>8 DEF IInv

(* A connection is taken from the pool or opened. *)
LEMMA ConnectKeeps ==
  ASSUME IInv, NEW w \in Workers, NEW g \in Gens, Connect(w, g)
  PROVE  IInv'
  <1>1. UNCHANGED <<phase, active, db, operations, leaked, opening, maintenance, lease, pc, goal, target>>
    BY DEF Connect, handles, leases, scripts
  <1>2. /\ conn' \in [Workers -> Gens \union {None}] /\ conn'[w] = g /\ conn[w] = None
        /\ SameBut(conn, conn', w)
    BY DEF Connect, IInv, Types, SameBut
  <1>3. g = active /\ g # opening /\ g # None
    BY ConstantFacts DEF Connect, Permitted, IInv, Types, Handles, OpenPhases, Phases
  <1>4. /\ connections' \in [Gens -> Nat] /\ idle' \in [Gens -> Nat]
        /\ asleep' \in {asleep, {}}
        /\ \A h \in Gens : h # g => connections'[h] = connections[h] /\ idle'[h] = idle[h]
        /\ connections'[g] - idle'[g] = connections[g] - idle[g] + 1
    BY DEF Connect, Changed, IInv, Types
  <1>5. ASSUME NEW v \in Workers \ {w}, pc[v] \in {"opening", "opened", "candidate"}, maintenance = v
        PROVE  FALSE
    BY <1>3, <1>5, ConstantFacts DEF Connect, Permitted, Carries, IInv, Private,
       Capability, Journal, JournalSteps, OwnerSteps
  <1>6. Handles' /\ Leased' /\ Journal' /\ Opening' /\ Captured' /\ Capability' /\ Drained' /\ Served'
    BY <1>1, <1>2, <1>3, <1>4, <1>5 DEF IInv, Handles, Leased, Journal, Opening, Captured,
       Capability, Drained, Served, Carries
  <1>7. Types'
    BY <1>1, <1>2, <1>3, <1>4, <1>5, ConstantFacts DEF IInv, Types, Phases, Steps,
       OwnerSteps, Goals
  <1>8. Counted'
    <2>1. ASSUME NEW h \in Gens
          PROVE  connections'[h] = Count(conn', h) + idle'[h] + leaked[h]
                                   + (IF opening = h THEN 1 ELSE 0)
      <3>1. /\ Count(conn, h) \in Nat /\ Count(conn', h) \in Nat
            /\ h = g => Count(conn', h) = Count(conn, h) + 1
            /\ h # g => Count(conn', h) = Count(conn, h)
        BY <1>2, ConnChange, ConstantFacts
      <3>2. /\ connections[h] = Count(conn, h) + idle[h] + leaked[h]
                                + (IF opening = h THEN 1 ELSE 0)
            /\ leaked[h] \in Nat /\ idle[h] \in Nat /\ connections[h] \in Nat
            /\ idle'[h] \in Nat /\ connections'[h] \in Nat
        BY <1>4 DEF IInv, Counted, Types
      <3> QED
        BY <1>3, <1>4, <3>1, <3>2
    <2> QED
      BY <1>1, <2>1 DEF IInv, Counted
  <1>9. Connected'
    BY <1>1, <1>3, <1>4 DEF IInv, Connected, Types
  <1>10. Private'
    BY <1>1, <1>2, <1>5 DEF IInv, Private, SameBut
  <1> QED
    BY <1>6, <1>7, <1>8, <1>9, <1>10 DEF IInv

(* A connection goes back to the pool, is closed, or fails to close. *)
LEMMA DisconnectKeeps ==
  ASSUME IInv, NEW w \in Workers, Disconnect(w)
  PROVE  IInv'
  <1>1. UNCHANGED <<phase, active, db, operations, opening, maintenance, lease, pc, goal, target>>
    BY DEF Disconnect, handles, leases, scripts
  <1>2. /\ conn' \in [Workers -> Gens \union {None}] /\ conn'[w] = None /\ conn[w] \in Gens
        /\ SameBut(conn, conn', w)
    BY DEF Disconnect, IInv, Types, SameBut
  <1>3. connections[conn[w]] \in Nat /\ connections[conn[w]] > 0 /\ Count(conn, conn[w]) > 0
    <2>1. Count(conn, conn[w]) > 0 /\ Count(conn, conn[w]) \in Nat
      BY CountFacts
    <2> QED
      BY <1>2, <2>1 DEF IInv, Types, Counted
  <1>4. /\ connections' \in [Gens -> Nat] /\ idle' \in [Gens -> Nat] /\ leaked' \in [Gens -> Nat]
        /\ asleep' \in {asleep, {}}
        /\ \A h \in Gens : h # conn[w] =>
             connections'[h] = connections[h] /\ idle'[h] = idle[h] /\ leaked'[h] = leaked[h]
        /\ connections'[conn[w]] <= connections[conn[w]]
        /\ connections'[conn[w]] - idle'[conn[w]] - leaked'[conn[w]]
             = connections[conn[w]] - idle[conn[w]] - leaked[conn[w]] - 1
    BY <1>2, <1>3 DEF Disconnect, Changed, IInv, Types
  <1>5. Handles' /\ Leased' /\ Journal' /\ Opening' /\ Captured' /\ Capability' /\ Drained' /\ Served'
    BY <1>1, <1>2, <1>3, <1>4 DEF IInv, Handles, Leased, Journal, Opening, Captured,
       Capability, Drained, Served, Carries
  <1>6. Types'
    BY <1>1, <1>2, <1>3, <1>4, ConstantFacts DEF IInv, Types, Phases, Steps, OwnerSteps,
       Goals
  <1>7. Counted'
    <2>1. ASSUME NEW h \in Gens
          PROVE  connections'[h] = Count(conn', h) + idle'[h] + leaked'[h]
                                   + (IF opening = h THEN 1 ELSE 0)
      <3>1. /\ Count(conn, h) \in Nat /\ Count(conn', h) \in Nat
            /\ h = conn[w] => Count(conn, h) = Count(conn', h) + 1
            /\ h # conn[w] => Count(conn', h) = Count(conn, h)
        BY <1>2, ConnChange, ConstantFacts
      <3>2. /\ connections[h] = Count(conn, h) + idle[h] + leaked[h]
                                + (IF opening = h THEN 1 ELSE 0)
            /\ leaked[h] \in Nat /\ idle[h] \in Nat /\ connections[h] \in Nat
            /\ leaked'[h] \in Nat /\ idle'[h] \in Nat /\ connections'[h] \in Nat
        BY <1>4 DEF IInv, Counted, Types
      <3> QED
        BY <1>4, <3>1, <3>2
    <2> QED
      BY <1>1, <2>1 DEF IInv, Counted
  <1>8. Connected'
    <2>1. opening # None => opening \in Gens /\ conn[w] # opening
      <3>1. ASSUME opening # None, conn[w] = opening PROVE FALSE
        <4>1. /\ opening \in Gens /\ connections[opening] = 1
              /\ Count(conn, opening) \in Nat /\ Count(conn, opening) > 0
              /\ connections[opening] = Count(conn, opening) + idle[opening] + leaked[opening] + 1
              /\ idle[opening] \in Nat /\ leaked[opening] \in Nat
          BY <1>2, <1>3, <3>1, CountFacts DEF IInv, Types, Connected, Counted
        <4> QED
          BY <4>1
      <3> QED
        BY <3>1 DEF IInv, Types
    <2> QED
      BY <1>1, <1>2, <1>3, <1>4, <2>1 DEF IInv, Connected, Types
  <1>9. Private'
    BY <1>1, <1>2 DEF IInv, Private, SameBut
  <1> QED
    BY <1>5, <1>6, <1>7, <1>8, <1>9 DEF IInv

(* The maintenance begins, and the lease of the request no longer counts. *)
LEMMA BeginMaintenanceKeeps ==
  ASSUME IInv, NEW w \in Workers, BeginMaintenance(w)
  PROVE  IInv'
  <1>1. /\ w \in Restorers /\ pc[w] = "working" /\ pc' \in [Actors -> Steps] /\ pc'[w] = "drain"
        /\ \A q \in Actors : q # w => pc'[q] = pc[q]
        /\ target' \in [Actors -> Gens \union {None}] /\ target'[w] = active
        /\ \A q \in Actors : q # w => target'[q] = target[q]
        /\ maintenance = Nobody /\ maintenance' = w /\ asleep' = {}
        /\ db # None /\ active # None /\ active \in Gens
    BY ConstantFacts DEF BeginMaintenance, Goto, Changed, IInv, Types, Steps
  <1>2. UNCHANGED <<phase, active, db, connections, idle, leaked, opening, conn, goal>>
    BY DEF BeginMaintenance, handles, pools
  <1>3. /\ lease' \in [Workers -> LeaseRecords] /\ operations' \in [Gens -> Nat]
        /\ \A g \in Gens : operations'[g] = Count(lease', Live(g))
        /\ lease'[w].state # "live"
        /\ \A u \in Workers \ {w} : lease'[u] = lease[u]
    <2>1. CASE lease[w] = NoLease /\ UNCHANGED leases
      BY <2>1 DEF leases, NoLease, IInv, Types, Counted
    <2>2. CASE /\ lease[w] = [state |-> "live", gen |-> active]
               /\ lease' = [lease EXCEPT ![w].state = "suspended"]
               /\ operations' = [operations EXCEPT ![active] = @ - 1]
      <3>1. lease[w].state = "live" /\ lease[w].gen = active
        BY <2>2
      <3>2. lease[w] \in LeaseRecords /\ lease \in [Workers -> LeaseRecords]
        BY DEF IInv, Types
      <3>3. [lease[w] EXCEPT !.state = "suspended"] \in LeaseRecords
        BY <3>2 DEF LeaseRecords, LeaseStates
      <3>4. /\ lease' \in [Workers -> LeaseRecords]
            /\ lease'[w].state = "suspended"
            /\ \A u \in Workers \ {w} : lease'[u] = lease[u]
        BY <2>2, <3>2, <3>3 DEF LeaseRecords
      <3>5. ASSUME NEW g \in Gens
            PROVE  operations'[g] = Count(lease', Live(g)) /\ operations'[g] \in Nat
        <4>1. operations' = [operations EXCEPT ![active] = @ - 1]
          BY <2>2
        <4> QED
          BY <1>1, <3>1, <3>4, <4>1, LeaseChange DEF LiveOn, IInv, Counted, Types
      <3>6. operations' \in [Gens -> Nat]
        BY <1>1, <2>2, <3>5 DEF IInv, Types
      <3> QED
        BY <3>4, <3>5, <3>6
    <2> QED
      BY <2>1, <2>2 DEF BeginMaintenance
  <1>4. Handles' /\ Connected'
    BY <1>1, <1>2, <1>3 DEF IInv, Handles, Connected
  <1>5. Types'
    BY <1>1, <1>2, <1>3, ConstantFacts DEF IInv, Types, Phases, Steps, OwnerSteps, Goals
  <1>6. Counted'
    BY <1>1, <1>2, <1>3, ConstantFacts DEF IInv, Counted
  <1>7. Leased'
    BY <1>1, <1>2, <1>3, ConstantFacts DEF IInv, Leased, Types
  <1>8. Journal'
    BY <1>1, <1>2, <1>3, ConstantFacts DEF IInv, Journal, JournalSteps, OwnerSteps, Types,
       Steps
  <1>9. Opening'
    BY <1>1, <1>2, <1>3, ConstantFacts DEF IInv, Opening, Types, Handles
  <1>10. Captured'
    BY <1>1, <1>2, <1>3, ConstantFacts DEF IInv, Captured, Handles, Types, Steps, Journal,
       JournalSteps, OwnerSteps
  <1>11. Capability'
    BY <1>1, <1>2, <1>3, ConstantFacts DEF IInv, Capability, Carries, Types, OwnerSteps
  <1>12. Drained'
    BY <1>1, <1>2, <1>3, ConstantFacts DEF IInv, Drained, Types, OwnerSteps, Captured,
       Leased
  <1>13. Private'
    BY <1>1, <1>2, <1>3, ConstantFacts DEF IInv, Private, Types, OwnerSteps
  <1>14. Served'
    BY <1>1, <1>2, <1>3, ConstantFacts DEF IInv, Served, Types, Leased, Drained,
       Capability, OwnerSteps, Handles
  <1> QED
    BY <1>4, <1>5, <1>6, <1>7, <1>8, <1>9, <1>10, <1>11, <1>12, <1>13, <1>14 DEF IInv

(* A restore that resigns leaves a public database or none. *)
LEMMA ResignKeeps ==
  ASSUME IInv, NEW w \in Workers, Resign(w),
         pc[w] \in {"drain", "owned", "resumed", "opened", "candidate"}
  PROVE  IInv'
  <1>1. /\ pc' \in [Actors -> Steps] /\ pc'[w] = "working"
        /\ \A q \in Actors : q # w => pc'[q] = pc[q]
        /\ UNCHANGED <<active, db, opening, connections, idle, leaked, conn, goal, target>>
    BY ConstantFacts DEF Resign, Goto, handles, pools, scripts, IInv, Types, Steps
  <1>2. CASE maintenance = w /\ End(w)
    <2>1. /\ maintenance' = Nobody /\ asleep' = {}
          /\ phase' \in [Gens -> Phases]
          /\ \A g \in Gens : \/ phase'[g] = phase[g]
                             \/ g = active /\ phase[g] = "private" /\ phase'[g] = "active"
          /\ lease' \in [Workers -> LeaseRecords] /\ operations' \in [Gens -> Nat]
          /\ \A g \in Gens : operations'[g] = Count(lease', Live(g))
          /\ \A v \in Workers : lease'[v].state = "live" =>
               \/ lease[v].state = "live" /\ lease'[v].gen = lease[v].gen
               \/ v = w /\ active # None /\ lease'[v].gen = active /\ phase'[active] = "active"
      BY <1>2, EndEffect
    <2>2. Types'
      BY <1>1, <1>2, <2>1, ConstantFacts DEF IInv, Types, Phases, Steps, OwnerSteps, Goals
    <2>3. Counted'
      BY <1>1, <1>2, <2>1, ConstantFacts DEF IInv, Counted
    <2>4. Handles'
      BY <1>1, <1>2, <2>1, ConstantFacts DEF IInv, Handles, OpenPhases, Types, Captured
    <2>5. Connected'
      BY <1>1, <1>2, <2>1, ConstantFacts DEF IInv, Connected, Types, Handles, Captured
    <2>6. Leased'
      BY <1>1, <1>2, <2>1, ConstantFacts DEF IInv, Leased, Types
    <2>7. Journal'
      BY <1>1, <1>2, <2>1, ConstantFacts DEF IInv, Journal, JournalSteps, OwnerSteps,
         Types, Steps
    <2>8. Opening'
      BY <1>1, <1>2, <2>1, ConstantFacts DEF IInv, Opening, Types, Handles
    <2>9. Captured'
      <3>1. \A g \in Gens : phase[g] = "retired" => phase'[g] = "retired"
        BY <2>1
      <3>2. \A v \in Workers : maintenance' # v
        BY <2>1, ConstantFacts
      <3>3. \A p \in Actors : target[p] # None => target[p] \in Gens
        BY DEF IInv, Types
      <3> QED
        BY <1>1, <3>1, <3>2, <3>3, ConstantFacts DEF IInv, Captured
    <2>10. Capability'
      BY <1>1, <1>2, <2>1, ConstantFacts DEF IInv, Capability, Carries, Types, OwnerSteps
    <2>11. Drained'
      BY <1>1, <1>2, <2>1, ConstantFacts DEF IInv, Drained, Types, OwnerSteps, Captured,
         Leased
    <2>12. Private'
      BY <1>1, <1>2, <2>1, ConstantFacts DEF IInv, Private, Types, OwnerSteps
    <2>13. Served'
      BY <1>1, <1>2, <2>1, ConstantFacts DEF IInv, Served, Types, Leased, Drained,
         Capability, OwnerSteps, Handles
    <2> QED
      BY <2>2, <2>3, <2>4, <2>5, <2>6, <2>7, <2>8, <2>9, <2>10, <2>11, <2>12, <2>13 DEF IInv
  <1>3. CASE maintenance # w /\ Wake(w) /\ UNCHANGED << maintenance, phase, leases >>
    <2>1. UNCHANGED <<phase, maintenance, operations, lease>> /\ asleep' \subseteq asleep
      BY <1>3 DEF leases, Wake
    <2>2. Counted' /\ Handles' /\ Connected' /\ Leased'
      BY <1>1, <2>1 DEF IInv, Counted, Handles, Connected, Leased
    <2>3. Types'
      BY <1>1, <1>3, <2>1, ConstantFacts DEF IInv, Types, Phases, Steps, OwnerSteps, Goals
    <2>4. Journal'
      BY <1>1, <1>3, <2>1, ConstantFacts DEF IInv, Journal, JournalSteps, OwnerSteps,
         Types, Steps
    <2>5. Opening'
      BY <1>1, <1>3, <2>1, ConstantFacts DEF IInv, Opening, Types, Handles
    <2>6. Captured'
      BY <1>1, <1>3, <2>1, ConstantFacts DEF IInv, Captured, Types
    <2>7. Capability'
      BY <1>1, <1>3, <2>1, ConstantFacts DEF IInv, Capability, Carries, Types, OwnerSteps
    <2>8. Drained'
      BY <1>1, <1>3, <2>1, ConstantFacts DEF IInv, Drained, Types, OwnerSteps, Captured,
         Leased
    <2>9. Private'
      BY <1>1, <1>3, <2>1, ConstantFacts DEF IInv, Private, Types, OwnerSteps
    <2>10. Served'
      BY <1>1, <1>3, <2>1, ConstantFacts DEF IInv, Served, Types, Leased, Drained,
         Capability, OwnerSteps, Handles
    <2> QED
      BY <2>2, <2>3, <2>4, <2>5, <2>6, <2>7, <2>8, <2>9, <2>10 DEF IInv
  <1> QED
    BY <1>2, <1>3 DEF Resign

(* The steps that resign and do nothing else. *)
LEMMA ResigningKeeps ==
  ASSUME IInv, NEW w \in Workers, FailDrain(w) \/ FailStaging(w) \/ Accept(w)
  PROVE  IInv'
  BY ResignKeeps DEF FailDrain, FailStaging, Accept

(* A restore that goes on to open the live file again. *)
ReopenStep(w) ==
  /\ Reopen(w)
  /\ asleep' \in {asleep, asleep \ {w}}
  /\ UNCHANGED << phase, handles, pools, leases, maintenance, target >>

LEMMA ReopenKeeps ==
  ASSUME IInv, NEW w \in Workers, ReopenStep(w),
         \/ pc[w] \in {"finish", "resumed"}
         \/ pc[w] = "owned" /\ Idle(w)
  PROVE  IInv'
  <1>1. /\ pc' \in [Actors -> Steps] /\ pc'[w] = "init"
        /\ \A q \in Actors : q # w => pc'[q] = pc[q]
        /\ goal' \in [Actors -> Goals]
        /\ goal'[w] = IF maintenance = w THEN "recover" ELSE "recoverBare"
        /\ \A q \in Actors : q # w => goal'[q] = goal[q]
        /\ asleep' \subseteq asleep
        /\ UNCHANGED <<phase, active, db, operations, connections, idle, leaked, opening,
                       maintenance, lease, conn, target>>
    BY ConstantFacts DEF ReopenStep, Reopen, RecoveryGoal, Goto, handles, pools, leases, scripts,
       IInv, Types, Steps, OwnerSteps, Goals
  <1>2. Counted' /\ Handles' /\ Connected' /\ Leased'
    BY <1>1 DEF IInv, Counted, Handles, Connected, Leased
  <1>3. Types'
    BY <1>1, ConstantFacts DEF IInv, Types, Phases, Steps, OwnerSteps, Goals
  <1>4. Journal'
    BY <1>1, ConstantFacts DEF IInv, Journal, JournalSteps, OwnerSteps, Types, Steps, Idle
  <1>5. Opening'
    BY <1>1, ConstantFacts DEF IInv, Opening, Types, Handles
  <1>6. Captured'
    BY <1>1, ConstantFacts DEF IInv, Captured, Types
  <1>7. Capability'
    BY <1>1, ConstantFacts DEF IInv, Capability, Carries, Types, OwnerSteps
  <1>8. Drained'
    BY <1>1, ConstantFacts DEF IInv, Drained, Types, OwnerSteps, Captured, Leased
  <1>9. Private'
    BY <1>1, ConstantFacts DEF IInv, Private, Types, OwnerSteps
  <1>10. Served'
    BY <1>1, ConstantFacts DEF IInv, Served, Types, Leased, Drained, Capability,
       OwnerSteps, Handles
  <1> QED
    BY <1>2, <1>3, <1>4, <1>5, <1>6, <1>7, <1>8, <1>9, <1>10 DEF IInv

(* A close for the swap failed: the restore resigns, or opens the live     *)
(* file again.                                                             *)
LEMMA FailSwapCloseKeeps ==
  ASSUME IInv, NEW w \in Workers, FailSwapClose(w)
  PROVE  IInv'
  <1>1. CASE pc[w] = "resumed" /\ Resign(w)
    BY <1>1, ResignKeeps
  <1>2. CASE pc[w] \in {"finish", "resumed"} /\ ReopenStep(w)
    BY <1>2, ReopenKeeps
  <1> QED
    BY <1>1, <1>2 DEF FailSwapClose, ReopenStep, Wake

(* InitContext succeeded: a candidate waits, a fallback is published. *)
LEMMA FinishInitKeeps ==
  ASSUME IInv, NEW w \in Workers, FinishInit(w)
  PROVE  IInv'
  <1>1. CASE pc[w] = "opened" /\ Resign(w)
    BY <1>1, ResignKeeps
  <1>2. CASE pc[w] = "opened" /\ Goto(w, "candidate") /\ UNCHANGED << phase, handles, pools, leases, maintenance, scripts, asleep >>
    <2>1. /\ pc' \in [Actors -> Steps] /\ pc'[w] = "candidate"
          /\ \A q \in Actors : q # w => pc'[q] = pc[q]
          /\ UNCHANGED <<phase, active, db, operations, connections, idle, leaked, opening,
                         maintenance, lease, conn, goal, target, asleep>>
      BY <1>2, ConstantFacts DEF Goto, handles, pools, leases, scripts, IInv, Types, Steps, OwnerSteps
    <2>2. Counted' /\ Handles' /\ Connected' /\ Leased'
      BY <2>1 DEF IInv, Counted, Handles, Connected, Leased
    <2>3. Types'
      BY <1>2, <2>1, ConstantFacts DEF IInv, Types, Phases, Steps, OwnerSteps, Goals
    <2>4. Journal'
      BY <1>2, <2>1, ConstantFacts DEF IInv, Journal, JournalSteps, OwnerSteps, Types,
         Steps
    <2>5. Opening'
      BY <1>2, <2>1, ConstantFacts DEF IInv, Opening, Types, Handles
    <2>6. Captured'
      BY <1>2, <2>1, ConstantFacts DEF IInv, Captured, Types
    <2>7. Capability'
      BY <1>2, <2>1, ConstantFacts DEF IInv, Capability, Carries, Types, OwnerSteps
    <2>8. Drained'
      BY <1>2, <2>1, ConstantFacts DEF IInv, Drained, Types, OwnerSteps, Captured, Leased
    <2>9. Private'
      BY <1>2, <2>1, ConstantFacts DEF IInv, Private, Types, OwnerSteps
    <2>10. Served'
      BY <1>2, <2>1, ConstantFacts DEF IInv, Served, Types, Leased, Drained, Capability,
         OwnerSteps, Handles
    <2> QED
      BY <2>2, <2>3, <2>4, <2>5, <2>6, <2>7, <2>8, <2>9, <2>10 DEF IInv
  <1> QED
    BY <1>1, <1>2 DEF FinishInit

(* The generation is retired and the handle taken away. *)
LEMMA RetireKeeps ==
  ASSUME IInv, NEW w \in Workers, Retire(w)
  PROVE  IInv'
  <1>1. Counted' /\ Connected' /\ Leased'
    BY DEF IInv, Counted, Connected, Leased, Retire, handles, pools, leases, scripts,
       Goto, Changed, Wake, Awake
  <1>2. Types'
    BY ConstantFacts DEF IInv, Types, Phases, Steps, OwnerSteps, Goals, Retire, handles,
       pools, leases, scripts, Goto, Changed, Wake, Awake
  <1>3. Handles'
    BY ConstantFacts DEF IInv, Handles, OpenPhases, Types, Captured, Retire, handles,
       pools, leases, scripts, Goto, Changed, Wake, Awake
  <1>4. Journal'
    BY ConstantFacts DEF IInv, Journal, JournalSteps, OwnerSteps, Types, Steps, Retire,
       handles, pools, leases, scripts, Goto, Changed, Wake, Awake
  <1>5. Opening'
    BY ConstantFacts DEF IInv, Opening, Types, Handles, Retire, handles, pools, leases,
       scripts, Goto, Changed, Wake, Awake
  <1>6. Captured'
    BY ConstantFacts DEF IInv, Captured, Handles, Types, Steps, Journal, JournalSteps,
       OwnerSteps, Retire, handles, pools, leases, scripts, Goto, Changed, Wake, Awake
  <1>7. Capability'
    BY ConstantFacts DEF IInv, Capability, Carries, Types, OwnerSteps, Retire, handles,
       pools, leases, scripts, Goto, Changed, Wake, Awake
  <1>8. Drained'
    BY ConstantFacts DEF IInv, Drained, Types, OwnerSteps, Captured, Leased, Retire,
       handles, pools, leases, scripts, Goto, Changed, Wake, Awake
  <1>9. Private'
    BY ConstantFacts DEF IInv, Private, Types, OwnerSteps, Retire, handles, pools, leases,
       scripts, Goto, Changed, Wake, Awake
  <1>10. Served'
    BY ConstantFacts DEF IInv, Served, Types, Leased, Drained, Capability, OwnerSteps,
       Handles, Retire, handles, pools, leases, scripts, Goto, Changed, Wake, Awake
  <1> QED
    BY <1>1, <1>2, <1>3, <1>4, <1>5, <1>6, <1>7, <1>8, <1>9, <1>10 DEF IInv

(* A close for the swap failed and the generation is live again. *)
LEMMA ResumeGenerationKeeps ==
  ASSUME IInv, NEW w \in Workers, ResumeGeneration(w)
  PROVE  IInv'
  <1>1. /\ pc[w] \in {"conns", "checkpoint", "retire"} /\ pc' \in [Actors -> Steps]
        /\ pc'[w] = "resumed" /\ \A q \in Actors : q # w => pc'[q] = pc[q]
    BY ConstantFacts DEF ResumeGeneration, Goto, IInv, Types, Steps, OwnerSteps
  <1>2. UNCHANGED <<active, db, operations, connections, idle, leaked, opening, maintenance, lease, conn, goal, target>> /\ asleep' \subseteq asleep
    BY DEF ResumeGeneration, handles, pools, leases, scripts, Changed, Wake
  <1>3. /\ phase' \in [Gens -> Phases]
        /\ \A g \in Gens : \/ phase'[g] = phase[g]
                           \/ g = active /\ phase[g] \in OpenPhases /\ phase'[g] = "active"
    <2>1. CASE UNCHANGED phase
      BY <2>1 DEF IInv, Types
    <2>2. CASE active = target[w] /\ phase[active] # "retired" /\ phase' = [phase EXCEPT ![active] = "active"]
      <3>1. active \in Gens
        BY <1>1, <2>2, ConstantFacts DEF IInv, Types, Captured
      <3>2. phase[active] \in OpenPhases
        BY <2>2, <3>1, ConstantFacts DEF IInv, Types, Handles
      <3> QED
        BY <2>2, <3>1, <3>2 DEF IInv, Types, Phases
    <2> QED
      BY <2>1, <2>2 DEF ResumeGeneration
  <1>4. \A g \in Gens : phase[g] = "retired" => phase'[g] = "retired"
    BY <1>3 DEF OpenPhases
  <1>5. Counted' /\ Connected' /\ Leased'
    BY <1>1, <1>2, <1>3, <1>4 DEF IInv, Counted, Connected, Leased
  <1>6. Types'
    BY <1>1, <1>2, <1>3, <1>4, ConstantFacts DEF IInv, Types, Phases, Steps, OwnerSteps,
       Goals
  <1>7. Handles'
    BY <1>1, <1>2, <1>3, ConstantFacts DEF IInv, Handles, OpenPhases, Types
  <1>8. Journal'
    BY <1>1, <1>2, <1>3, <1>4, ConstantFacts DEF IInv, Journal, JournalSteps, OwnerSteps,
       Types, Steps
  <1>9. Opening'
    BY <1>1, <1>2, <1>3, <1>4, ConstantFacts DEF IInv, Opening, Types, Handles
  <1>10. Captured'
    <2>1. \A p \in Actors : target[p] # None => target[p] \in Gens
      BY DEF IInv, Types
    <2> QED
      BY <1>1, <1>2, <1>4, <2>1, ConstantFacts DEF IInv, Captured
  <1>11. Capability'
    BY <1>1, <1>2, <1>3, <1>4, ConstantFacts DEF IInv, Capability, Carries, Types,
       OwnerSteps
  <1>12. Drained'
    BY <1>1, <1>2, <1>3, <1>4, ConstantFacts DEF IInv, Drained, Types, OwnerSteps,
       Captured, Leased
  <1>13. Private'
    BY <1>1, <1>2, ConstantFacts DEF IInv, Private, Journal, JournalSteps, OwnerSteps
  <1>14. Served'
    BY <1>1, <1>2, <1>3, <1>4, ConstantFacts DEF IInv, Served, Types, Leased, Drained,
       Capability, OwnerSteps, Handles
  <1> QED
    BY <1>5, <1>6, <1>7, <1>8, <1>9, <1>10, <1>11, <1>12, <1>13, <1>14 DEF IInv

(* The retired generation has ended and is forgotten. *)
LEMMA FinishSwapCloseKeeps ==
  ASSUME IInv, NEW w \in Workers, FinishSwapClose(w)
  PROVE  IInv'
  <1>1. /\ pc[w] = "finish" /\ pc' \in [Actors -> Steps]
        /\ pc'[w] = "swap" /\ \A q \in Actors : q # w => pc'[q] = pc[q]
    BY ConstantFacts DEF FinishSwapClose, Awake, Goto, IInv, Types, Steps, OwnerSteps
  <1>2. UNCHANGED <<phase, db, operations, connections, idle, leaked, opening, maintenance, lease, conn, goal, target>> /\ asleep' = {}
    BY DEF FinishSwapClose, pools, leases, scripts, Changed
  <1>3. Forgotten(target[w]) /\ active' = None
    BY <1>1, ForgetEffect, ConstantFacts DEF FinishSwapClose, IInv, Types, Captured,
       Forget
  <1>4. Types'
    BY <1>1, <1>2, <1>3, ConstantFacts DEF IInv, Types, Phases, Steps, OwnerSteps, Goals
  <1>5. Counted'
    BY <1>1, <1>2, <1>3, ConstantFacts DEF IInv, Counted
  <1>6. Handles'
    BY <1>1, <1>2, <1>3, ConstantFacts DEF IInv, Forgotten, Handles, OpenPhases, Types,
       Captured
  <1>7. Connected'
    BY <1>1, <1>2, <1>3, ConstantFacts DEF IInv, Forgotten, Connected, Types, Handles,
       Captured
  <1>8. Leased'
    BY <1>1, <1>2, <1>3, ConstantFacts DEF IInv, Forgotten, Leased, Types
  <1>9. Journal'
    BY <1>1, <1>2, <1>3, ConstantFacts DEF IInv, Journal, JournalSteps, OwnerSteps, Types,
       Steps
  <1>10. Opening'
    BY <1>1, <1>2, <1>3, ConstantFacts DEF IInv, Opening, Types, Handles
  <1>11. Captured'
    BY <1>1, <1>2, <1>3, ConstantFacts DEF IInv, Captured, Handles, Types, Steps, Journal,
       JournalSteps, OwnerSteps
  <1>12. Capability'
    BY <1>1, <1>2, <1>3, ConstantFacts DEF IInv, Capability, Carries, Types, OwnerSteps
  <1>13. Drained'
    BY <1>1, <1>2, <1>3, ConstantFacts DEF IInv, Drained, Types, OwnerSteps, Captured,
       Leased
  <1>14. Private'
    BY <1>1, <1>2, <1>3, ConstantFacts DEF IInv, Private, Types, OwnerSteps
  <1>15. Served'
    BY <1>1, <1>2, <1>3, ConstantFacts DEF IInv, Forgotten, Served, Types, Leased,
       Drained, Capability, OwnerSteps, Handles
  <1> QED
    BY <1>4, <1>5, <1>6, <1>7, <1>8, <1>9, <1>10, <1>11, <1>12, <1>13, <1>14, <1>15 DEF IInv

(* A close is done. *)
LEMMA FinishCloseKeeps ==
  ASSUME IInv, NEW p \in Actors, FinishClose(p)
  PROVE  IInv'
  <1>1. /\ pc[p] = "closeWait" /\ pc' \in [Actors -> Steps]
        /\ pc'[p] \in {"closed", "init", "stuck"} /\ \A q \in Actors : q # p => pc'[q] = pc[q]
        /\ p \in Workers => pc'[p] # "closed"
        /\ pc'[p] = "init" => goal[p] # "giveup"
    BY ConstantFacts DEF FinishClose, Awake, AfterClose, Goto, IInv, Types, Steps,
       OwnerSteps
  <1>2. UNCHANGED <<phase, db, operations, connections, idle, leaked, opening, maintenance, lease, conn, goal, target>> /\ asleep' = {}
    BY DEF FinishClose, pools, leases, scripts, Changed
  <1>3. Forgotten(target[p])
    BY <1>1, ForgetEffect, ConstantFacts DEF FinishClose, IInv, Types, Captured
  <1>4. Types'
    BY <1>1, <1>2, <1>3, ConstantFacts DEF IInv, Forgotten, Types, Phases, Steps,
       OwnerSteps, Goals
  <1>5. Counted'
    BY <1>1, <1>2, <1>3, ConstantFacts DEF IInv, Counted
  <1>6. Handles'
    BY <1>1, <1>2, <1>3, ConstantFacts DEF IInv, Forgotten, Handles, OpenPhases, Types,
       Captured
  <1>7. Connected'
    BY <1>1, <1>2, <1>3, ConstantFacts DEF IInv, Forgotten, Connected, Types, Handles,
       Captured
  <1>8. Leased'
    BY <1>1, <1>2, <1>3, ConstantFacts DEF IInv, Forgotten, Leased, Types
  <1>9. Journal'
    BY <1>1, <1>2, <1>3, ConstantFacts DEF IInv, Journal, JournalSteps, OwnerSteps, Types,
       Steps
  <1>10. Opening'
    BY <1>1, <1>2, <1>3, ConstantFacts DEF IInv, Forgotten, Opening, Types, Handles
  <1>11. Captured'
    BY <1>1, <1>2, <1>3, ConstantFacts DEF IInv, Forgotten, Captured, Handles, Types,
       Steps, Journal, JournalSteps, OwnerSteps
  <1>12. Capability'
    BY <1>1, <1>2, <1>3, ConstantFacts DEF IInv, Capability, Carries, Types, OwnerSteps
  <1>13. Drained'
    BY <1>1, <1>2, <1>3, ConstantFacts DEF IInv, Drained, Types, OwnerSteps, Captured,
       Leased
  <1>14. Private'
    BY <1>1, <1>2, <1>3, ConstantFacts DEF IInv, Private, Types, OwnerSteps
  <1>15. Served'
    BY <1>1, <1>2, <1>3, ConstantFacts DEF IInv, Forgotten, Served, Types, Leased,
       Drained, Capability, OwnerSteps, Handles
  <1> QED
    BY <1>4, <1>5, <1>6, <1>7, <1>8, <1>9, <1>10, <1>11, <1>12, <1>13, <1>14, <1>15 DEF IInv

(* The handle is taken away and the generation retired. *)
LEMMA CloseContextKeeps ==
  ASSUME IInv, NEW p \in Actors, CloseContext(p)
  PROVE  IInv'
  <1>1. pc[p] = "close" /\ UNCHANGED <<active, operations, connections, idle, leaked, opening, maintenance, lease, conn, goal>> /\ asleep' \subseteq asleep
    BY DEF CloseContext, pools, leases, Changed
  <1>2. /\ pc' \in [Actors -> Steps] /\ \A q \in Actors : q # p => pc'[q] = pc[q]
        /\ target' \in [Actors -> Gens \union {None}] /\ phase' \in [Gens -> Phases]
        /\ \A q \in Actors : q # p => target'[q] = target[q]
        /\ \A g \in Gens : phase'[g] \in {phase[g], "retired"}
        /\ \/ pc'[p] = "stuck" /\ UNCHANGED <<phase, db, target>>
           \/ /\ pc'[p] = "closing" /\ target'[p] = active /\ db' = None
              /\ \A g \in Gens : g # active => phase'[g] = phase[g]
              /\ active # None => phase'[active] = "retired"
    BY ConstantFacts DEF CloseContext, Goto, IInv, Types, Steps, OwnerSteps, Phases
  <1>3. \A g \in Gens : phase[g] = "retired" => phase'[g] = "retired"
    BY <1>2
  <1>4. Counted' /\ Connected' /\ Leased'
    BY <1>1, <1>2, <1>3 DEF IInv, Counted, Connected, Leased
  <1>5. Types'
    BY <1>1, <1>2, <1>3, ConstantFacts DEF IInv, Types, Phases, Steps, OwnerSteps, Goals
  <1>6. Handles'
    BY <1>1, <1>2, <1>3, ConstantFacts DEF IInv, Handles, OpenPhases, Types, Captured
  <1>7. Journal'
    BY <1>1, <1>2, <1>3, ConstantFacts DEF IInv, Journal, JournalSteps, OwnerSteps, Types,
       Steps
  <1>8. Opening'
    BY <1>1, <1>2, <1>3, ConstantFacts DEF IInv, Opening, Types, Handles
  <1>9. Captured'
    <2>1. \A q \in Actors : target[q] # None => target[q] \in Gens
      BY DEF IInv, Types
    <2>2. CASE pc'[p] = "stuck" /\ UNCHANGED <<phase, db, target>>
      BY <1>1, <1>2, <2>2, ConstantFacts DEF IInv, Captured
    <2>3. CASE pc'[p] = "closing" /\ target'[p] = active
      <3>1. \A q \in Actors : pc'[q] # "closing" => pc'[q] = pc[q] /\ target'[q] = target[q]
        BY <1>2, <2>3
      <3>2. \A q \in Workers : pc'[q] \in {"conns", "checkpoint", "retire"} =>
              /\ target'[q] # None /\ active \in {None, target'[q]}
              /\ active = None => phase'[target'[q]] = "retired"
        BY <1>3, <2>1, <3>1, ConstantFacts DEF IInv, Captured
      <3>3. \A q \in Actors : pc'[q] \in {"finish", "prepare", "closing", "closeWait"}
              /\ target'[q] # None => phase'[target'[q]] = "retired"
        BY <1>2, <1>3, <2>1, <2>3, ConstantFacts DEF IInv, Captured
      <3> QED
        BY <1>1, <3>1, <3>2, <3>3, ConstantFacts DEF IInv, Captured
    <2> QED
      BY <1>2, <2>2, <2>3
  <1>10. Capability'
    BY <1>1, <1>2, <1>3, ConstantFacts DEF IInv, Capability, Carries, Types, OwnerSteps
  <1>11. Drained'
    BY <1>1, <1>2, <1>3, ConstantFacts DEF IInv, Drained, Types, OwnerSteps, Captured,
       Leased
  <1>12. Private'
    BY <1>1, <1>2, <1>3, ConstantFacts DEF IInv, Private, Types, OwnerSteps
  <1>13. Served'
    BY <1>1, <1>2, <1>3, ConstantFacts DEF IInv, Served, Types, Leased, Drained,
       Capability, OwnerSteps, Handles
  <1> QED
    BY <1>4, <1>5, <1>6, <1>7, <1>8, <1>9, <1>10, <1>11, <1>12, <1>13 DEF IInv

(* The new generation becomes the active one. *)
LEMMA PublishHandleKeeps ==
  ASSUME IInv, NEW w \in Workers, PublishHandle(w)
  PROVE  IInv'
  <1>1. /\ pc[w] = "opening" /\ pc' \in [Actors -> Steps] /\ pc'[w] = "opened"
        /\ \A q \in Actors : q # w => pc'[q] = pc[q]
    BY ConstantFacts DEF PublishHandle, Goto, IInv, Types, Steps, OwnerSteps
  <1>2. UNCHANGED <<phase, operations, idle, leaked, maintenance, lease, conn, goal, target>> /\ asleep' = {}
    BY DEF PublishHandle, pools, leases, scripts, Changed
  <1>3. /\ opening \in Gens /\ active = None /\ db = None /\ phase[opening] \in OpenPhases
        /\ db' = opening /\ active' = opening /\ opening' = None
        /\ connections' = [connections EXCEPT ![opening] = @ - 1]
    BY <1>1, ConstantFacts DEF PublishHandle, IInv, Types, Handles, Opening
  <1>4. /\ connections' \in [Gens -> Nat]
        /\ \A g \in Gens : /\ connections'[g] <= connections[g]
                           /\ connections'[g] = Count(conn, g) + idle[g] + leaked[g]
    <2>1. ASSUME NEW g \in Gens
          PROVE  /\ connections'[g] \in Nat /\ connections'[g] <= connections[g]
                 /\ connections'[g] = Count(conn, g) + idle[g] + leaked[g]
      <3>1. /\ Count(conn, g) \in Nat
            /\ connections[g] = Count(conn, g) + idle[g] + leaked[g]
                                + (IF opening = g THEN 1 ELSE 0)
            /\ idle[g] \in Nat /\ leaked[g] \in Nat /\ connections[g] \in Nat
        BY CountFacts DEF IInv, Counted, Types
      <3>2. connections'[g] = IF opening = g THEN connections[g] - 1 ELSE connections[g]
        BY <1>3 DEF IInv, Types
      <3> QED
        BY <3>1, <3>2
    <2> QED
      BY <1>3, <2>1 DEF IInv, Types
  <1>5. \A u \in Workers : lease[u].state # "live"
    BY <1>3 DEF IInv, Leased
  <1>6. \A v \in Workers : v # w => pc[v] \notin JournalSteps
    BY <1>1 DEF IInv, Journal, JournalSteps, OwnerSteps
  <1>7. Types'
    BY <1>1, <1>2, <1>3, <1>4, <1>5, <1>6, ConstantFacts DEF IInv, Types, Phases, Steps,
       OwnerSteps, Goals
  <1>8. Counted'
    <2>1. ASSUME NEW g \in Gens
          PROVE  connections'[g] = Count(conn, g) + idle[g] + leaked[g] + (IF opening' = g THEN 1 ELSE 0)
      <3>1. opening' # g /\ Count(conn, g) \in Nat /\ idle[g] \in Nat /\ leaked[g] \in Nat
        BY <1>3, CountFacts, ConstantFacts DEF IInv, Types
      <3> QED
        BY <1>4, <3>1
    <2> QED
      BY <1>2, <2>1 DEF IInv, Counted
  <1>9. Handles'
    BY <1>2, <1>3, ConstantFacts DEF IInv, Handles
  <1>10. Connected'
    BY <1>3, <1>4, ConstantFacts DEF IInv, Connected, Types
  <1>11. Leased'
    BY <1>2, <1>5 DEF Leased
  <1>12. Journal'
    BY <1>1, <1>2, <1>3, <1>4, <1>5, <1>6, ConstantFacts DEF IInv, Journal, JournalSteps,
       OwnerSteps, Types, Steps
  <1>13. Opening'
    BY <1>1, <1>2, <1>3, <1>6, ConstantFacts DEF IInv, Opening, JournalSteps, OwnerSteps
  <1>14. Captured'
    BY <1>1, <1>2, <1>3, <1>6, ConstantFacts DEF IInv, Captured, Opening, JournalSteps,
       OwnerSteps
  <1>15. Capability'
    BY <1>1, <1>2, <1>3, <1>4, <1>5, <1>6, ConstantFacts DEF IInv, Capability, Carries,
       Types, OwnerSteps
  <1>16. Drained'
    BY <1>1, <1>2, <1>3, <1>4, <1>5, <1>6, ConstantFacts DEF IInv, Drained, Types,
       OwnerSteps, Captured, Leased
  <1>17. Private'
    BY <1>1, <1>2, <1>3, <1>4, <1>5, <1>6, ConstantFacts DEF IInv, Private, Types,
       OwnerSteps
  <1>18. Served'
    BY <1>2, <1>5 DEF Served
  <1> QED
    BY <1>7, <1>8, <1>9, <1>10, <1>11, <1>12, <1>13, <1>14, <1>15, <1>16, <1>17, <1>18 DEF IInv

(* CloseForFileSwap: the active generation drains; or the shutdown was     *)
(* there first.                                                            *)
LEMMA CloseForFileSwapKeeps ==
  ASSUME IInv, NEW w \in Workers, CloseForFileSwap(w)
  PROVE  IInv'
  <1>1. CASE db = None /\ ReopenStep(w)
    BY <1>1, ReopenKeeps DEF CloseForFileSwap
  <1>2. CASE Resign(w)
    BY <1>2, ResignKeeps DEF CloseForFileSwap
  <1>3. CASE /\ maintenance = w /\ db # None
             /\ phase' = [phase EXCEPT ![active] = "draining"]
             /\ target' = [target EXCEPT ![w] = active]
             /\ CloseIdle(active) /\ Changed /\ Goto(w, "conns")
             /\ UNCHANGED << handles, leaked, conn, leases, maintenance, goal >>
    <2>1. /\ pc[w] = "owned" /\ Idle(w) /\ pc' \in [Actors -> Steps] /\ pc'[w] = "conns"
          /\ \A q \in Actors : q # w => pc'[q] = pc[q]
          /\ target' \in [Actors -> Gens \union {None}] /\ target'[w] = active
          /\ \A q \in Actors : q # w => target'[q] = target[q]
          /\ asleep' = {}
      BY <1>3, ConstantFacts DEF CloseForFileSwap, Goto, Changed, IInv, Types, Steps, OwnerSteps
    <2>2. UNCHANGED <<active, db, operations, leaked, opening, maintenance, lease, conn, goal>>
      BY <1>3 DEF handles, leases
    <2>3. /\ active \in Gens /\ active # None /\ phase[active] \in OpenPhases
          /\ phase' \in [Gens -> Phases] /\ phase'[active] = "draining"
          /\ \A g \in Gens : g # active => phase'[g] = phase[g]
      BY <1>3, ConstantFacts DEF IInv, Types, Handles, OpenPhases, Phases
    <2>4. /\ connections' \in [Gens -> Nat] /\ idle' \in [Gens -> Nat]
          /\ \A h \in Gens :
               /\ connections'[h] <= connections[h]
               /\ connections'[h] = Count(conn, h) + idle'[h] + leaked[h]
                                    + (IF opening = h THEN 1 ELSE 0)
      BY <1>3, <2>3, CloseIdleEffect
    <2>5. \A v \in Workers : lease[v].state # "live"
      BY <1>3, <2>1 DEF IInv, Drained, OwnerSteps
    <2>6. \A v \in Workers : v # w => pc[v] \notin JournalSteps
      BY <2>1 DEF IInv, Idle, Journal, JournalSteps
    <2>7. Types'
      BY <2>1, <2>2, <2>3, <2>4 DEF IInv, Types
    <2>8. Counted' /\ Leased'
      BY <2>2, <2>4 DEF IInv, Counted, Leased
    <2>9. Handles'
      BY <2>2, <2>3, ConstantFacts DEF IInv, Handles, OpenPhases, Types
    <2>10. Connected'
      BY <2>2, <2>3, <2>4 DEF IInv, Connected, Types, Handles
    <2>11. Journal'
      BY <2>1, <2>6, ConstantFacts DEF IInv, Journal, JournalSteps, OwnerSteps
    <2>12. Opening' /\ Private'
      BY <2>1, <2>2, <2>3, <2>6, ConstantFacts DEF IInv, Opening, Private, JournalSteps, OwnerSteps
    <2>13. Captured'
      <3>1. \A g \in Gens : phase[g] = "retired" => phase'[g] = "retired"
        BY <2>3 DEF OpenPhases
      <3>2. \A q \in Actors : target[q] # None => target[q] \in Gens
        BY DEF IInv, Types
      <3>3. \A q \in Workers : pc'[q] \in {"conns", "checkpoint", "retire"} =>
              /\ target'[q] # None /\ active \in {None, target'[q]}
              /\ active = None => phase'[target'[q]] = "retired"
        BY <2>1, <2>3, <2>6, ConstantFacts DEF JournalSteps, OwnerSteps
      <3>4. \A q \in Actors : pc'[q] \in {"finish", "prepare", "closing", "closeWait"}
              /\ target'[q] # None => phase'[target'[q]] = "retired"
        BY <2>1, <3>1, <3>2 DEF IInv, Captured
      <3> QED
        BY <2>1, <2>2, <2>3, <3>3, <3>4, ConstantFacts DEF IInv, Captured
    <2>14. Capability'
      BY <2>1, <2>2, ConstantFacts DEF IInv, Capability, Carries, OwnerSteps
    <2>15. Drained' /\ Served'
      BY <2>1, <2>2, <2>5, ConstantFacts DEF Drained, Served
    <2> QED
      BY <2>7, <2>8, <2>9, <2>10, <2>11, <2>12, <2>13, <2>14, <2>15 DEF IInv
  <1> QED
    BY <1>1, <1>2, <1>3 DEF CloseForFileSwap, ReopenStep

(* An initialization fails; what was being opened is retired. *)
LEMMA FailInitKeeps ==
  ASSUME IInv, NEW w \in Workers, FailInit(w)
  PROVE  IInv'
  <1>1. /\ pc[w] \in {"init", "prepare", "opening", "opened"} /\ pc' \in [Actors -> Steps]
        /\ pc'[w] \in {"close", "stuck"} /\ \A q \in Actors : q # w => pc'[q] = pc[q]
    BY ConstantFacts DEF FailInit, InitSteps, Goto, IInv, Types, Steps, OwnerSteps
  <1>2. /\ goal' \in [Actors -> Goals] /\ \A q \in Actors : q # w => goal'[q] = goal[q]
        /\ maintenance = w => goal'[w] \in {"install", "recover", "giveup"}
    BY <1>1, ConstantFacts DEF FailInit, RecoveryGoal, IInv, Types, Goals, Capability,
       Carries, OwnerSteps
  <1>3. UNCHANGED <<active, db, operations, idle, leaked, maintenance, lease, conn, target>> /\ asleep' \subseteq asleep
    BY DEF FailInit, leases, Changed, Wake
  <1>4. \A v \in Workers : v # w => pc[v] \notin JournalSteps
    BY <1>1 DEF IInv, Journal, JournalSteps, OwnerSteps
  <1>5. /\ phase' \in [Gens -> Phases] /\ connections' \in [Gens -> Nat]
        /\ \A g \in Gens : connections'[g] <= connections[g]
        /\ \A g \in Gens : connections'[g] = Count(conn, g) + idle[g] + leaked[g]
                                             + (IF opening' = g THEN 1 ELSE 0)
        /\ \/ pc[w] # "opening" /\ UNCHANGED <<opening, phase>>
           \/ /\ pc[w] = "opening" /\ opening \in Gens /\ opening' = None /\ active = None
              /\ phase'[opening] = "retired" /\ connections'[opening] = 0
              /\ \A g \in Gens : g # opening => phase'[g] = phase[g]
    <2>1. CASE pc[w] # "opening" /\ UNCHANGED <<connections, opening, phase>>
      BY <2>1 DEF IInv, Types, Counted
    <2>2. CASE /\ pc[w] = "opening" /\ opening' = None
               /\ connections' = [connections EXCEPT ![opening] = @ - 1]
               /\ phase' = [phase EXCEPT ![opening] = "retired"]
      <3>1. opening \in Gens /\ active = None
        BY <2>2 DEF IInv, Types, Handles, Opening
      <3>2. ASSUME NEW g \in Gens
            PROVE  /\ connections'[g] \in Nat /\ connections'[g] <= connections[g]
                   /\ connections'[g] = Count(conn, g) + idle[g] + leaked[g]
                                        + (IF opening' = g THEN 1 ELSE 0)
        <4>1. /\ Count(conn, g) \in Nat /\ opening' # g
              /\ connections[g] = Count(conn, g) + idle[g] + leaked[g]
                                  + (IF opening = g THEN 1 ELSE 0)
              /\ idle[g] \in Nat /\ leaked[g] \in Nat /\ connections[g] \in Nat
          BY <2>2, CountFacts, ConstantFacts DEF IInv, Counted, Types
        <4>2. connections'[g] = IF opening = g THEN connections[g] - 1 ELSE connections[g]
          BY <2>2, <3>1 DEF IInv, Types
        <4> QED
          BY <4>1, <4>2
      <3>3. connections'[opening] = 0
        BY <2>2, <3>1, ConstantFacts DEF IInv, Types, Connected
      <3> QED
        BY <2>2, <3>1, <3>2, <3>3 DEF IInv, Types, Phases
    <2> QED
      BY <2>1, <2>2 DEF FailInit
  <1>6. Types'
    BY <1>1, <1>2, <1>3, <1>4, <1>5, ConstantFacts DEF IInv, Types, Phases, Steps,
       OwnerSteps, Goals
  <1>7. Counted'
    BY <1>1, <1>2, <1>3, <1>4, <1>5, ConstantFacts DEF IInv, Counted
  <1>8. Handles'
    BY <1>1, <1>2, <1>3, <1>4, <1>5, ConstantFacts DEF IInv, Handles, OpenPhases, Types,
       Captured
  <1>9. Connected'
    <2>1. CASE pc[w] # "opening" /\ UNCHANGED <<opening, phase>>
      <3>1. opening = None
        BY <1>1, <1>4, <2>1 DEF IInv, Opening, JournalSteps, OwnerSteps
      <3> QED
        BY <1>3, <1>5, <2>1, <3>1 DEF IInv, Connected, Types
    <2>2. CASE /\ pc[w] = "opening" /\ opening \in Gens /\ opening' = None
               /\ connections'[opening] = 0
      BY <1>3, <1>5, <2>2 DEF IInv, Connected, Types
    <2> QED
      BY <1>5, <2>1, <2>2
  <1>10. Leased'
    BY <1>1, <1>2, <1>3, <1>4, <1>5, ConstantFacts DEF IInv, Leased, Types
  <1>11. Journal'
    BY <1>1, <1>2, <1>3, <1>4, <1>5, ConstantFacts DEF IInv, Journal, JournalSteps,
       OwnerSteps, Types, Steps
  <1>12. Opening'
    BY <1>1, <1>3, <1>4, <1>5, ConstantFacts DEF IInv, Opening, JournalSteps, OwnerSteps
  <1>13. Captured'
    <2>1. \A g \in Gens : phase[g] = "retired" => phase'[g] = "retired"
      BY <1>5
    <2>2. \A q \in Actors : target[q] # None => target[q] \in Gens
      BY DEF IInv, Types
    <2>3. \A q \in Workers : q # w => pc'[q] \notin {"conns", "checkpoint", "retire"}
      BY <1>1, <1>4, ConstantFacts DEF JournalSteps, OwnerSteps
    <2>4. \A q \in Actors : pc'[q] \in {"finish", "prepare", "closing", "closeWait"}
              /\ target[q] # None => phase'[target[q]] = "retired"
      BY <1>1, <2>1, <2>2 DEF IInv, Captured
    <2> QED
      BY <1>1, <1>3, <2>3, <2>4, ConstantFacts DEF IInv, Captured
  <1>14. Capability'
    BY <1>1, <1>2, <1>3, <1>4, <1>5, ConstantFacts DEF IInv, Capability, Carries, Types,
       OwnerSteps
  <1>15. Drained'
    BY <1>1, <1>2, <1>3, <1>4, <1>5, ConstantFacts DEF IInv, Drained, Types, OwnerSteps,
       Captured, Leased
  <1>16. Private'
    BY <1>1, <1>2, <1>3, <1>4, <1>5, ConstantFacts DEF IInv, Private, Types, OwnerSteps
  <1>17. Served'
    BY <1>1, <1>2, <1>3, <1>4, <1>5, ConstantFacts DEF IInv, Served, Types, Leased,
       Drained, Capability, OwnerSteps, Handles
  <1> QED
    BY <1>6, <1>7, <1>8, <1>9, <1>10, <1>11, <1>12, <1>13, <1>14, <1>15, <1>16, <1>17 DEF IInv

(* The next generation is opened, once nothing is left of the last one. *)
LEMMA OpenContextKeeps ==
  ASSUME IInv, NEW w \in Workers, OpenContext(w)
  PROVE  IInv'
  <1>1. /\ pc[w] = "prepare" /\ pc' \in [Actors -> Steps] /\ pc'[w] = "opening"
        /\ \A q \in Actors : q # w => pc'[q] = pc[q]
        /\ maintenance = Nobody \/ maintenance = w
    BY ConstantFacts DEF OpenContext, Awake, Goto, IInv, Types, Steps, OwnerSteps
  <1>2. UNCHANGED <<db, operations, idle, leaked, maintenance, lease, conn, goal, target>> /\ asleep' = {}
    BY DEF OpenContext, leases, scripts, Changed
  <1>3. \A v \in Workers : v # w => pc[v] \notin JournalSteps
    BY <1>1 DEF IInv, Journal, JournalSteps, OwnerSteps
  <1>4. Forgotten(target[w]) /\ active' = None
    BY <1>1, ForgetEffect, ConstantFacts DEF OpenContext, IInv, Types, Captured, Forget
  <1>5. opening = None /\ db = None
    BY <1>1, <1>3, ConstantFacts DEF IInv, Opening, JournalSteps, OwnerSteps, Captured,
       Handles, OpenPhases, Types
  <1>6. PICK g \in Gens : /\ \A h \in Gens : phase[h] = "unused" <=> h >= g
                         /\ opening' = g
                         /\ phase' = [phase EXCEPT ![g] = IF maintenance = Nobody
                                                          THEN "active" ELSE "private"]
                         /\ connections' = [connections EXCEPT ![g] = 1]
    BY DEF OpenContext
  <1>7. /\ phase[g] = "unused" /\ phase' \in [Gens -> Phases] /\ phase'[g] \in OpenPhases
        /\ \A h \in Gens : h # g => phase'[h] = phase[h]
        /\ maintenance # Nobody => phase'[g] = "private"
    BY <1>6, ConstantFacts DEF IInv, Types, Phases, OpenPhases
  <1>8. \A h \in Gens : connections[h] = 0 /\ phase[h] \notin OpenPhases
    <2>1. active # None => active \in Gens /\ connections[active] = 0 /\ phase[active] = "retired"
      BY <1>4 DEF IInv, Types, Forgotten
    <2>2. ASSUME NEW h \in Gens PROVE connections[h] = 0 /\ phase[h] \notin OpenPhases
      <3>1. connections[h] \in Nat
        BY DEF IInv, Types
      <3>2. connections[h] > 0 \/ phase[h] \in OpenPhases => h = active
        BY <1>5, ConstantFacts DEF IInv, Connected, Handles
      <3> QED
        BY <2>1, <3>1, <3>2, ConstantFacts DEF OpenPhases
    <2> QED
      BY <2>2
  <1>9. /\ connections' \in [Gens -> Nat] /\ connections'[g] = 1
        /\ \A h \in Gens : h # g => connections'[h] = 0
    BY <1>6, <1>8 DEF IInv, Types
  <1>10. \A u \in Workers : conn[u] = None /\ lease[u].state # "live"
    <2>1. ASSUME NEW u \in Workers PROVE conn[u] = None
      BY <1>8, NoConnections DEF IInv, Types
    <2>2. ASSUME NEW u \in Workers, lease[u].state = "live" PROVE FALSE
      BY <1>4, <2>2 DEF Forgotten, IInv, Leased
    <2> QED
      BY <2>1, <2>2
  <1>11. Types'
    BY <1>1, <1>2, <1>4, <1>6, <1>7, <1>9 DEF IInv, Types
  <1>12. Counted'
    <2>1. ASSUME NEW h \in Gens
          PROVE  connections'[h] = Count(conn, h) + idle[h] + leaked[h]
                                   + (IF opening' = h THEN 1 ELSE 0)
      <3>1. Count(conn, h) = 0 /\ idle[h] = 0 /\ leaked[h] = 0
        BY <1>8, NoConnections DEF IInv
      <3>2. connections'[h] = IF opening' = h THEN 1 ELSE 0
        BY <1>6, <1>9
      <3> QED
        BY <3>1, <3>2
    <2> QED
      BY <1>2, <2>1 DEF IInv, Counted
  <1>13. Handles'
    BY <1>2, <1>4, <1>5, <1>6, <1>7, <1>8, ConstantFacts DEF Handles
  <1>14. Connected'
    BY <1>6, <1>9 DEF Connected
  <1>15. Leased'
    BY <1>2, <1>10 DEF Leased
  <1>16. Journal'
    BY <1>1, <1>3, ConstantFacts DEF IInv, Journal, JournalSteps, OwnerSteps
  <1>17. Opening'
    BY <1>1, <1>2, <1>3, <1>6, ConstantFacts DEF Opening, JournalSteps, OwnerSteps
  <1>18. Captured'
    <2>1. \A h \in Gens : phase[h] = "retired" => phase'[h] = "retired"
      BY <1>7
    <2>2. \A q \in Actors : target[q] # None => target[q] \in Gens
      BY DEF IInv, Types
    <2>3. \A q \in Actors : pc'[q] \in {"finish", "prepare", "closing", "closeWait"}
            /\ target[q] # None => phase'[target[q]] = "retired"
      BY <1>1, <2>1, <2>2 DEF IInv, Captured
    <2>4. \A q \in Workers : pc'[q] \notin {"conns", "checkpoint", "retire"}
      BY <1>1, <1>3, ConstantFacts DEF JournalSteps, OwnerSteps
    <2> QED
      BY <1>1, <1>2, <1>4, <2>3, <2>4, ConstantFacts DEF Captured
  <1>19. Capability'
    BY <1>1, <1>2, ConstantFacts DEF IInv, Capability, Carries, OwnerSteps
  <1>20. Drained'
    BY <1>2, <1>10 DEF Drained
  <1>21. Private'
    <2>1. maintenance = w => \A h \in Gens : phase'[h] # "active"
      BY <1>7, <1>8, ConstantFacts DEF OpenPhases
    <2>2. \A v \in Workers : pc'[v] \in {"opening", "opened", "candidate"} => v = w
      BY <1>1, <1>3, ConstantFacts DEF JournalSteps, OwnerSteps
    <2> QED
      BY <1>2, <1>10, <2>1, <2>2 DEF Private
  <1>22. Served'
    BY <1>2, <1>10 DEF Served
  <1> QED
    BY <1>11, <1>12, <1>13, <1>14, <1>15, <1>16, <1>17, <1>18, <1>19, <1>20, <1>21, <1>22 DEF IInv

(* The pool is closed, and the maintenance of anybody else ends. *)
LEMMA ClosePoolKeeps ==
  ASSUME IInv, NEW p \in Actors, ClosePool(p)
  PROVE  IInv'
  <1>1. /\ pc[p] = "closing" /\ pc' \in [Actors -> Steps] /\ pc'[p] = "closeWait"
        /\ \A q \in Actors : q # p => pc'[q] = pc[q]
    BY ConstantFacts DEF ClosePool, Goto, IInv, Types, Steps, OwnerSteps
  <1>2. UNCHANGED <<active, db, leaked, opening, conn, goal, target>>
    BY DEF ClosePool, handles, scripts
  <1>3. /\ connections' \in [Gens -> Nat] /\ idle' \in [Gens -> Nat]
        /\ \A h \in Gens :
             /\ connections'[h] <= connections[h]
             /\ connections'[h] = Count(conn, h) + idle'[h] + leaked[h]
                                  + (IF opening = h THEN 1 ELSE 0)
    BY CloseIdleEffect DEF ClosePool, IInv, Types
  <1>4. Connected'
    <2>1. ASSUME opening # None PROVE connections'[opening] = 1
      <3>1. /\ opening \in Gens /\ connections[opening] = 1
            /\ Count(conn, opening) \in Nat /\ leaked[opening] \in Nat
        BY <2>1, CountFacts DEF IInv, Types, Connected
      <3>2. /\ connections'[opening] \in Nat /\ idle'[opening] \in Nat
            /\ connections'[opening] <= 1
            /\ connections'[opening] = Count(conn, opening) + idle'[opening] + leaked[opening] + 1
        BY <1>3, <3>1
      <3> QED
        BY <3>1, <3>2
    <2>2. ASSUME NEW h \in Gens, connections'[h] > 0 PROVE connections[h] > 0
      BY <1>3, <2>2 DEF IInv, Types
    <2> QED
      BY <1>2, <2>1, <2>2 DEF IInv, Connected
  <1>5. CASE UNCHANGED <<phase, leases, maintenance>> /\ Changed
    <2>1. UNCHANGED <<phase, operations, lease, maintenance>> /\ asleep' = {}
      BY <1>5 DEF leases, Changed
    <2>2. Counted' /\ Handles' /\ Leased'
      BY <1>2, <1>3, <2>1 DEF IInv, Counted, Handles, Leased
    <2>3. Types'
      BY <1>1, <1>2, <1>3, <2>1, ConstantFacts DEF IInv, Types, Phases, Steps, OwnerSteps,
         Goals
    <2>4. Journal'
      BY <1>1, <1>2, <2>1, ConstantFacts DEF IInv, Journal, JournalSteps, OwnerSteps,
         Types, Steps
    <2>5. Opening'
      BY <1>1, <1>2, <2>1, ConstantFacts DEF IInv, Opening, Types, Handles
    <2>6. Captured'
      BY <1>1, <1>2, <2>1, ConstantFacts DEF IInv, Captured
    <2>7. Capability'
      BY <1>1, <1>2, <2>1, ConstantFacts DEF IInv, Capability, Carries, Types, OwnerSteps
    <2>8. Drained'
      BY <1>1, <1>2, <2>1, ConstantFacts DEF IInv, Drained, Types, OwnerSteps, Captured,
         Leased
    <2>9. Private'
      BY <1>1, <1>2, <2>1, ConstantFacts DEF IInv, Private, Types, OwnerSteps
    <2>10. Served'
      BY <1>1, <1>2, <2>1, ConstantFacts DEF IInv, Served, Types, Leased, Drained,
         Capability, OwnerSteps, Handles
    <2> QED
      BY <1>4, <2>2, <2>3, <2>4, <2>5, <2>6, <2>7, <2>8, <2>9, <2>10 DEF IInv
  <1>6. CASE /\ maintenance # Nobody /\ ~(Carries(p) /\ maintenance = p)
             /\ End(maintenance)
    <2> DEFINE m == maintenance
    <2>1. /\ m \in Workers /\ maintenance' = Nobody /\ asleep' = {}
          /\ phase' \in [Gens -> Phases]
          /\ \A g \in Gens : \/ phase'[g] = phase[g]
                             \/ g = active /\ phase[g] = "private" /\ phase'[g] = "active"
          /\ lease' \in [Workers -> LeaseRecords] /\ operations' \in [Gens -> Nat]
          /\ \A g \in Gens : operations'[g] = Count(lease', Live(g))
          /\ \A v \in Workers : lease'[v].state = "live" =>
               \/ lease[v].state = "live" /\ lease'[v].gen = lease[v].gen
               \/ v = m /\ active # None /\ lease'[v].gen = active /\ phase'[active] = "active"
      BY <1>6, EndEffect DEF IInv, Types
    <2>2. pc[App] # "idle" /\ pc'[App] # "idle"
      BY <1>1, <1>6, ConstantFacts DEF IInv, Capability, OwnerSteps
    <2>3. pc[m] \in OwnerSteps \union {"drain"}
      BY <2>1 DEF IInv, Capability
    <2> HIDE DEF m
    <2>4. Types'
      BY <1>1, <1>2, <1>3, <2>1 DEF IInv, Types
    <2>5. Counted'
      BY <1>2, <1>3, <2>1 DEF Counted
    <2>6. Handles'
      BY <1>2, <2>1, ConstantFacts DEF IInv, Handles, OpenPhases, Types
    <2>7. Leased'
      BY <1>2, <2>1 DEF IInv, Leased
    <2>8. Journal'
      BY <1>1, ConstantFacts DEF IInv, Journal, JournalSteps, OwnerSteps
    <2>9. Opening'
      BY <1>1, <1>2, <2>1, ConstantFacts DEF IInv, Opening
    <2>10. Captured'
      <3>1. \A g \in Gens : phase[g] = "retired" => phase'[g] = "retired"
        BY <2>1
      <3>2. \A v \in Workers : maintenance' # v
        BY <2>1, ConstantFacts
      <3>3. \A q \in Actors : target[q] # None => target[q] \in Gens
        BY DEF IInv, Types
      <3> QED
        BY <1>1, <1>2, <3>1, <3>2, <3>3, ConstantFacts DEF IInv, Captured
    <2>11. Capability'
      BY <1>1, <1>2, <2>1, <2>2, ConstantFacts DEF IInv, Capability, Carries, OwnerSteps
    <2>12. Drained'
      BY <1>1, <2>1, <2>3, ConstantFacts DEF IInv, Drained, OwnerSteps
    <2>13. Private'
      BY <2>1, ConstantFacts DEF Private
    <2>14. Served'
      BY <2>2 DEF Served
    <2> QED
      BY <1>4, <2>4, <2>5, <2>6, <2>7, <2>8, <2>9, <2>10, <2>11, <2>12, <2>13, <2>14 DEF IInv
  <1> QED
    BY <1>5, <1>6 DEF ClosePool

-----------------------------------------------------------------------------
LEMMA InitEstablishes == Init => IInv
  <1> SUFFICES ASSUME Init PROVE IInv
    OBVIOUS
  <1>1. NoLease \in LeaseRecords /\ NoLease.state = "none"
    BY DEF NoLease, LeaseRecords, LeaseStates
  <1>2. Types
    BY <1>1, ConstantFacts DEF Init, Types, Phases, Steps, Goals
  <1>3. Counted
    <2>1. ASSUME NEW g \in Gens PROVE Count(lease, Live(g)) = 0 /\ Count(conn, g) = 0
      <3>1. \A w \in Workers : lease[w] # Live(g)
        BY <1>1, LiveFacts DEF Init
      <3>2. \A w \in Workers : conn[w] # g
        BY ConstantFacts DEF Init
      <3> QED
        BY <3>1, <3>2, CountFacts
    <2> QED
      BY <2>1, ConstantFacts DEF Init, Counted
  <1>4. Handles /\ Connected
    BY ConstantFacts DEF Init, Handles, Connected, OpenPhases
  <1>5. Leased /\ Drained /\ Served
    BY <1>1, ConstantFacts DEF Init, Leased, Drained, Served, OwnerSteps
  <1>6. \A p \in Actors : pc[p] = "idle"
    BY DEF Init
  <1>7. Journal /\ Captured /\ Private
    BY <1>6, ConstantFacts DEF Journal, JournalSteps, OwnerSteps, Captured, Private
  <1>8. Opening /\ Capability
    BY <1>6, ConstantFacts DEF Init, Opening, Capability, OwnerSteps
  <1> QED
    BY <1>2, <1>3, <1>4, <1>5, <1>7, <1>8 DEF IInv

(* Every step keeps the invariant. *)
LEMMA NextKeeps == IInv /\ [Next]_vars => IInv'
  <1> SUFFICES ASSUME IInv, [Next]_vars PROVE IInv'
    OBVIOUS
  <1>1. ASSUME NEW w \in Workers, OperationStep(w) PROVE IInv'
    BY <1>1, StartBareKeeps, AcquireOperationKeeps, ReleaseEarlyKeeps, EndOperationKeeps,
       ConnectKeeps, DisconnectKeeps DEF OperationStep
  <1>2. ASSUME NEW w \in Workers, SwapStep(w) PROVE IInv'
    BY <1>2, BeginMaintenanceKeeps, FinishDrainKeeps, ResigningKeeps, CloseForFileSwapKeeps,
       StartCheckpointKeeps, FinishCheckpointKeeps, RetireKeeps, ResumeGenerationKeeps,
       FailSwapCloseKeeps, FinishSwapCloseKeeps, SwapFilesKeeps DEF SwapStep
  <1>3. ASSUME NEW w \in Workers, InitStep(w) PROVE IInv'
    BY <1>3, FailInitKeeps, PrepareForInitKeeps, OpenContextKeeps, PublishHandleKeeps,
       FinishInitKeeps, ResigningKeeps, RejectKeeps, KeepPrivateKeeps DEF InitStep
  <1>4. ASSUME NEW p \in Actors, CloseStep(p) \/ Sleep(p) PROVE IInv'
    BY <1>4, CloseContextKeeps, ClosePoolKeeps, FinishCloseKeeps, FailCloseKeeps, SleepKeeps
       DEF CloseStep
  <1>5. CASE Shutdown
    BY <1>5, ShutdownKeeps
  <1>6. CASE UNCHANGED vars
    BY <1>6 DEF vars, IInv, Types, Counted, Handles, Connected, Leased, Journal, Opening,
       Captured, Capability, Carries, Drained, Private, Served
  <1> QED
    BY <1>1, <1>2, <1>3, <1>4, <1>5, <1>6 DEF Next

(* The inductive invariant: the counts, the one open generation, and who   *)
(* may do what with it, at every step of every restore and of the shutdown. *)
THEOREM LifetimeInvariant == Spec => []IInv
  BY InitEstablishes, NextKeeps, PTL DEF Spec

(* The variables keep their types. *)
THEOREM LifetimeTypeOK == Spec => []TypeOK
  <1>1. IInv => TypeOK
    BY DEF IInv, Types, TypeOK, LeaseRecords
  <1> QED
    BY <1>1, LifetimeInvariant, PTL

(* The counters that waitGeneration looks at say how many leases and       *)
(* connections there are, for any number of goroutines: through suspension,*)
(* rebinding to another generation, early release and failed closes.       *)
THEOREM LeasesAreCounted == Spec => []CountsAreExact
  <1>1. IInv => CountsAreExact
    BY DEF IInv, Counted, Count, Live, CountsAreExact
  <1> QED
    BY <1>1, LifetimeInvariant, PTL

(* No driver connection is open while a restore moves the database files.  *)
THEOREM FilesMoveAlone == Spec => []SwapIsAlone
  <1>1. IInv => SwapIsAlone
    <2> SUFFICES ASSUME IInv, NEW r \in Restorers, pc[r] = "swap"
                 PROVE  opening = None /\ \A g \in Gens : connections[g] = 0
      BY DEF SwapIsAlone
    <2>1. r \in Workers
      BY LifetimeAssumption
    <2>2. active = None
      BY <2>1 DEF IInv, Captured
    <2>3. opening = None
      BY <2>1 DEF IInv, Opening, Journal, JournalSteps, OwnerSteps
    <2>4. \A g \in Gens : connections[g] \in Nat /\ ~(connections[g] > 0)
      BY <2>2, <2>3, ConstantFacts DEF IInv, Types, Connected
    <2> QED
      BY <2>3, <2>4
  <1> QED
    BY <1>1, LifetimeInvariant, PTL

(* Two generations never have connections at once.                         *)
THEOREM DatabasesDoNotOverlap == Spec => []OneDatabase
  <1>1. IInv => OneDatabase
    BY ConstantFacts DEF IInv, Connected, Handles, OneDatabase
  <1> QED
    BY <1>1, LifetimeInvariant, PTL

(* The database does not change under an admitted operation.               *)
THEOREM DatabaseStaysWithOperation == Spec => []OperationKeepsItsDatabase
  <1>1. IInv => OperationKeepsItsDatabase
    BY DEF IInv, Leased, Served, OperationKeepsItsDatabase
  <1> QED
    BY <1>1, LifetimeInvariant, PTL

(* Nobody but the restore has a connection or a lease while a candidate    *)
(* has not been accepted.                                                  *)
THEOREM CandidateStaysPrivate == Spec => []CandidateIsPrivate
  <1>1. IInv => CandidateIsPrivate
    BY LifetimeAssumption DEF IInv, Private, Drained, OwnerSteps, CandidateIsPrivate
  <1> QED
    BY <1>1, LifetimeInvariant, PTL
=============================================================================
