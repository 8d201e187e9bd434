---------------------------- MODULE SettleProofs -----------------------------
(***************************************************************************)
(* Proofs about what must end, as its run checks it: the gate before the   *)
(* Claude login, for every number of callers, attempts, slots and lapses,  *)
(* and a run's narration with its viewer, for every number of events,      *)
(* polls, lost emissions and network failures.                             *)
(***************************************************************************)
EXTENDS MCSettle, FiniteSetTheorems, Integers, WellFoundedInduction, TLAPS

USE DEF bridgeVars

\* A caller only ever posts a request nobody made before.
BridgeFresh ==
  \A c \in Callers, k \in 1 .. MaxAttempts :
    \/ k > caller[c].attempt
    \/ k = caller[c].attempt /\ caller[c].state = "backoff"
    => request[<<c, k>>] = "none"

\* The writer of a warm-up is the only one, holds the gate while it drains and runs, and
\* runs without readers.
BridgeWriting(r) == request[r] \in {"draining", "exclusive"}
BridgeWriter ==
  /\ \A r, s \in Bridge!Requests : BridgeWriting(r) /\ BridgeWriting(s) => r = s
  /\ warming <=> \E r \in Bridge!Requests : BridgeWriting(r)
  /\ \A r, s \in Bridge!Requests :
       request[r] = "exclusive" => request[s] \notin {"admitted", "running"}
  /\ Concurrency = 1 => ~warming /\ \A r \in Bridge!Requests : request[r] # "held"

\* Only a call refreshes.  Under the gate's premises readers only ever find a good token,
\* since they pass the gate in a warm window, and so only the writer refreshes.
BridgeRefresh ==
  /\ \A r \in refreshing : request[r] \in {"running", "exclusive"}
  /\ sure /\ Concurrency # 1 =>
       /\ \A r \in refreshing : request[r] = "exclusive"
       /\ warming => window # "warm"
       /\ window = "warm" => token = "good"
       /\ \A r \in Bridge!Requests :
            /\ request[r] = "exclusive" /\ r \notin refreshing => token = "good"
            /\ request[r] = "held" => warming \/ window = "warm"
            /\ request[r] = "admitted" => window = "warm"

BridgeInv ==
  /\ Bridge!TypeOK
  /\ BridgeFresh
  /\ BridgeWriter
  /\ Bridge!Cardinality(Bridge!In({"running"})) <= Concurrency
  /\ BridgeRefresh

-----------------------------------------------------------------------------
BridgeStates == {"none", "arrived", "draining", "held", "admitted", "running", "exclusive",
                 "ok", "error"}

LEMMA BridgeCardinality == \A S : Bridge!Cardinality(S) = Cardinality(S)
BY DEF Bridge!Cardinality, Cardinality

\* Requests are finitely many, and so are those in any state.
LEMMA BridgeFinite ==
  ASSUME NEW S, S \subseteq Bridge!Requests
  PROVE  IsFiniteSet(S) /\ Cardinality(S) \in Nat
<1>1. IsFiniteSet(1 .. MaxAttempts)
  BY FS_Interval, BridgeAssumption
<1>2. IsFiniteSet(Bridge!Requests)
  BY <1>1, FS_Product, BridgeAssumption DEF Bridge!Requests
<1>3. IsFiniteSet(S)
  BY <1>2, FS_Subset
<1> QED
  BY <1>3, FS_CardinalityType

\* A request moves, and the others stay where they are.
LEMMA BridgeMove ==
  ASSUME Bridge!TypeOK, NEW r \in Bridge!Requests, NEW to \in BridgeStates, Bridge!Move(r, to)
  PROVE  /\ request' \in [Bridge!Requests -> BridgeStates]
         /\ request'[r] = to
         /\ \A s \in Bridge!Requests : s # r => request'[s] = request[s]
BY DEF Bridge!TypeOK, Bridge!Move, BridgeStates

\* Whatever moves except to run leaves the readers that run as many or fewer.
LEMMA BridgeFewer ==
  ASSUME Bridge!Cardinality(Bridge!In({"running"})) <= Concurrency,
         \A r \in Bridge!Requests : request'[r] = "running" => request[r] = "running"
  PROVE  Bridge!Cardinality(Bridge!In({"running"}))' <= Concurrency
<1> DEFINE S == {r \in Bridge!Requests : request[r] \in {"running"}}
           T == {r \in Bridge!Requests : request'[r] \in {"running"}}
<1>1. T \subseteq S /\ S \subseteq Bridge!Requests /\ T \subseteq Bridge!Requests
  OBVIOUS
<1>2. IsFiniteSet(S) /\ Cardinality(S) \in Nat /\ Cardinality(T) \in Nat
  BY <1>1, BridgeFinite
<1>3. Cardinality(T) <= Cardinality(S)
  BY <1>1, <1>2, FS_Subset
<1>4. Cardinality(S) <= Concurrency
  BY BridgeCardinality DEF Bridge!In
<1>5. Cardinality(T) <= Concurrency
  BY <1>2, <1>3, <1>4, BridgeAssumption
<1> QED
  BY <1>5, BridgeCardinality DEF Bridge!In

\* A reader starts on a free slot.
LEMMA BridgeOneMore ==
  ASSUME NEW r \in Bridge!Requests, request[r] = "admitted", request'[r] = "running",
         Bridge!Cardinality(Bridge!In({"running"})) < Concurrency,
         \A s \in Bridge!Requests : s # r => request'[s] = request[s]
  PROVE  Bridge!Cardinality(Bridge!In({"running"}))' <= Concurrency
<1> DEFINE S == {s \in Bridge!Requests : request[s] \in {"running"}}
           T == {s \in Bridge!Requests : request'[s] \in {"running"}}
<1>1. T = S \cup {r} /\ r \notin S /\ S \subseteq Bridge!Requests
  OBVIOUS
<1>2. IsFiniteSet(S) /\ Cardinality(S) \in Nat
  BY <1>1, BridgeFinite
<1>3. Cardinality(S) < Concurrency
  BY BridgeCardinality DEF Bridge!In
<1>4. Cardinality(T) = Cardinality(S) + 1
  <2> HIDE DEF S, T
  <2> QED
    BY <1>1, <1>2, FS_AddElement
<1>5. Cardinality(T) <= Concurrency
  BY <1>2, <1>3, <1>4, BridgeAssumption
<1> QED
  BY <1>5, BridgeCardinality DEF Bridge!In

LEMMA BridgeInit == Bridge!Init => BridgeInv
<1> SUFFICES ASSUME Bridge!Init PROVE BridgeInv
  OBVIOUS
<1>1. Bridge!TypeOK
  <2>1. [attempt |-> 1, state |-> "backoff"] \in Bridge!Caller
    BY BridgeAssumption DEF Bridge!Caller
  <2>2. 0 \in 0 .. MaxLapses
    BY BridgeAssumption
  <2> QED
    BY <2>1, <2>2 DEF Bridge!Init, Bridge!TypeOK
<1>2. \A r \in Bridge!Requests : request[r] = "none"
  BY DEF Bridge!Init
<1>3. BridgeFresh
  BY <1>2 DEF BridgeFresh, Bridge!Requests
<1>4. BridgeWriter
  BY <1>2 DEF Bridge!Init, BridgeWriter, BridgeWriting
<1>5. BridgeRefresh
  BY <1>2 DEF Bridge!Init, BridgeRefresh
<1>6. Bridge!Cardinality(Bridge!In({"running"})) <= Concurrency
  <2>1. Bridge!In({"running"}) = {}
    BY <1>2 DEF Bridge!In
  <2> QED
    BY <2>1, FS_EmptySet, BridgeCardinality, BridgeAssumption
<1> QED
  BY <1>1, <1>3, <1>4, <1>5, <1>6 DEF BridgeInv

\* Retries: another attempt of the caller, or its end.
LEMMA BridgeRetries ==
  ASSUME BridgeInv, NEW c \in Callers, caller[c].state = "waiting", Bridge!Retry(c)
  PROVE  /\ caller' \in [Callers -> Bridge!Caller]
         /\ \A d \in Callers : d # c => caller'[d] = caller[d]
         /\ caller'[c].attempt = caller[c].attempt => caller'[c].state # "backoff"
         /\ caller'[c].attempt \in {caller[c].attempt, caller[c].attempt + 1}
<1>1. caller \in [Callers -> Bridge!Caller]
  BY DEF BridgeInv, Bridge!TypeOK
<1> DEFINE old == caller[c]
           new == IF old.attempt < MaxAttempts
                    THEN [attempt |-> old.attempt + 1, state |-> "backoff"]
                    ELSE [old EXCEPT !.state = "failed"]
<1>2. caller' = [caller EXCEPT ![c] = new]
  BY DEF Bridge!Retry
<1>3. old \in Bridge!Caller /\ old.attempt \in 1 .. MaxAttempts
  BY <1>1 DEF Bridge!Caller
<1>4. /\ new \in Bridge!Caller
      /\ new.attempt = old.attempt => new.state # "backoff"
      /\ new.attempt \in {old.attempt, old.attempt + 1}
  <2>1. CASE old.attempt < MaxAttempts
    <3>1. old.attempt + 1 \in 1 .. MaxAttempts /\ old.attempt + 1 # old.attempt
      BY <1>3, <2>1, BridgeAssumption
    <3> QED
      BY <2>1, <3>1 DEF Bridge!Caller
  <2>2. CASE ~(old.attempt < MaxAttempts)
    BY <1>3, <2>2 DEF Bridge!Caller
  <2> QED
    BY <2>1, <2>2
<1> HIDE DEF new
<1> QED
  BY <1>1, <1>2, <1>4

\* The callers' side of a step: one caller posts, is answered, retries or gives up.
LEMMA BridgeCallerStep ==
  ASSUME BridgeInv, NEW c \in Callers, Bridge!Run(c) \/ Bridge!GiveUp(c)
  PROVE  BridgeInv'
<1>a. /\ caller \in [Callers -> Bridge!Caller] /\ request \in [Bridge!Requests -> BridgeStates]
      /\ BridgeFresh /\ BridgeWriter /\ BridgeRefresh /\ Bridge!TypeOK
      /\ Bridge!Cardinality(Bridge!In({"running"})) <= Concurrency
  BY DEF BridgeInv, Bridge!TypeOK, BridgeStates
<1>b. caller[c].attempt \in 1 .. MaxAttempts
  BY <1>a DEF Bridge!Caller
<1>1. CASE Bridge!Post(c)
  <2> DEFINE r == <<c, caller[c].attempt>>
  <2>1. /\ caller[c].state = "backoff"
        /\ caller' = [caller EXCEPT ![c].state = "waiting"]
        /\ Bridge!Move(r, "arrived") /\ UNCHANGED Bridge!gateVars
    BY <1>1 DEF Bridge!Post
  <2>2. r \in Bridge!Requests /\ request[r] = "none"
    BY <1>a, <1>b, <2>1 DEF BridgeFresh, Bridge!Requests
  <2>3. /\ request' \in [Bridge!Requests -> BridgeStates] /\ request'[r] = "arrived"
        /\ \A s \in Bridge!Requests : s # r => request'[s] = request[s]
    BY <1>a, <2>1, <2>2, BridgeMove DEF BridgeStates
  <2>4. [caller[c] EXCEPT !.state = "waiting"] \in Bridge!Caller
    BY <1>a DEF Bridge!Caller
  <2>5. /\ caller' \in [Callers -> Bridge!Caller]
        /\ \A d \in Callers : d # c => caller'[d] = caller[d]
        /\ caller'[c].attempt = caller[c].attempt /\ caller'[c].state = "waiting"
    BY <1>a, <2>1, <2>4 DEF Bridge!Caller
  <2>6. Bridge!TypeOK'
    BY <1>a, <2>1, <2>3, <2>5 DEF Bridge!TypeOK, Bridge!gateVars, BridgeStates
  <2>7. BridgeFresh'
    <3> SUFFICES ASSUME NEW d \in Callers, NEW k \in 1 .. MaxAttempts,
                        \/ k > caller'[d].attempt
                        \/ k = caller'[d].attempt /\ caller'[d].state = "backoff"
                 PROVE  request'[<<d, k>>] = "none"
      BY DEF BridgeFresh
    <3>1. <<d, k>> \in Bridge!Requests /\ <<d, k>> # r
      <4>1. CASE d # c
        BY <4>1 DEF Bridge!Requests
      <4>2. CASE d = c
        BY <1>b, <2>5, <4>2, BridgeAssumption DEF Bridge!Requests
      <4> QED
        BY <4>1, <4>2
    <3>2. request[<<d, k>>] = "none"
      <4>1. CASE d # c
        BY <1>a, <2>5, <4>1 DEF BridgeFresh
      <4>2. CASE d = c
        BY <1>a, <2>5, <4>2 DEF BridgeFresh
      <4> QED
        BY <4>1, <4>2
    <3> QED
      BY <2>3, <3>1, <3>2
  <2> HIDE DEF r
  <2>8. BridgeWriter'
    BY <1>a, <2>1, <2>2, <2>3 DEF BridgeWriter, BridgeWriting, Bridge!gateVars
  <2>9. BridgeRefresh'
    <3>1. \A s \in refreshing : s \in Bridge!Requests
      BY <1>a DEF Bridge!TypeOK
    <3> QED
      BY <1>a, <2>1, <2>2, <2>3, <3>1 DEF BridgeRefresh, Bridge!gateVars
  <2>10. Bridge!Cardinality(Bridge!In({"running"}))' <= Concurrency
    BY <1>a, <2>3, BridgeFewer
  <2> QED
    BY <2>6, <2>7, <2>8, <2>9, <2>10 DEF BridgeInv
<1>2. ASSUME caller' \in [Callers -> Bridge!Caller],
             \A d \in Callers : d # c => caller'[d] = caller[d],
             caller'[c].attempt = caller[c].attempt => caller'[c].state # "backoff",
             caller'[c].attempt \in {caller[c].attempt, caller[c].attempt + 1},
             UNCHANGED <<request, Bridge!gateVars>>
      PROVE  BridgeInv'
  <2>1. BridgeFresh'
    <3> SUFFICES ASSUME NEW d \in Callers, NEW k \in 1 .. MaxAttempts,
                        \/ k > caller'[d].attempt
                        \/ k = caller'[d].attempt /\ caller'[d].state = "backoff"
                 PROVE  request[<<d, k>>] = "none"
      BY <1>2 DEF BridgeFresh
    <3>1. CASE d # c
      BY <1>a, <1>2, <3>1 DEF BridgeFresh
    <3>2. CASE d = c
      <4>1. k > caller[c].attempt
        BY <1>b, <1>2, <3>2, BridgeAssumption
      <4> QED
        BY <1>a, <3>2, <4>1 DEF BridgeFresh
    <3> QED
      BY <3>1, <3>2
  <2>2. Bridge!TypeOK'
    BY <1>a, <1>2 DEF Bridge!TypeOK, Bridge!gateVars
  <2>3. BridgeWriter' /\ BridgeRefresh'
    BY <1>a, <1>2 DEF BridgeWriter, BridgeWriting, BridgeRefresh, Bridge!gateVars
  <2>4. Bridge!Cardinality(Bridge!In({"running"}))' <= Concurrency
    BY <1>a, <1>2, BridgeFewer
  <2> QED
    BY <2>1, <2>2, <2>3, <2>4 DEF BridgeInv
<1>3. CASE caller[c].state = "waiting" /\ caller' = [caller EXCEPT ![c].state = "answered"]
           /\ UNCHANGED <<request, Bridge!gateVars>>
  <2>1. [caller[c] EXCEPT !.state = "answered"] \in Bridge!Caller
    BY <1>a DEF Bridge!Caller
  <2>2. /\ caller' \in [Callers -> Bridge!Caller]
        /\ \A d \in Callers : d # c => caller'[d] = caller[d]
        /\ caller'[c].attempt = caller[c].attempt /\ caller'[c].state = "answered"
    BY <1>a, <1>3, <2>1 DEF Bridge!Caller
  <2> QED
    BY <1>2, <1>3, <2>2
<1>4. CASE caller[c].state = "waiting" /\ Bridge!Retry(c) /\ UNCHANGED <<request, Bridge!gateVars>>
  BY <1>2, <1>4, BridgeRetries
<1> QED
  BY <1>1, <1>3, <1>4 DEF Bridge!Run, Bridge!Answer, Bridge!GiveUp

\* The daemon moves a request that was posted.
LEMMA BridgeMoves ==
  ASSUME BridgeInv, NEW r \in Bridge!Requests, NEW to \in BridgeStates, Bridge!Move(r, to),
         request[r] # "none", to # "none", UNCHANGED <<caller, lapses, sure>>,
         refreshing' \in SUBSET Bridge!Requests, warming' \in BOOLEAN,
         window' \in {"cold", "warm", "stale"}, token' \in {"good", "expired"}
  PROVE  /\ Bridge!TypeOK' /\ BridgeFresh'
         /\ request'[r] = to
         /\ \A s \in Bridge!Requests : s # r => request'[s] = request[s]
<1>1. /\ request' \in [Bridge!Requests -> BridgeStates] /\ request'[r] = to
      /\ \A s \in Bridge!Requests : s # r => request'[s] = request[s]
  BY BridgeMove DEF BridgeInv
<1>2. Bridge!TypeOK'
  BY <1>1 DEF BridgeInv, Bridge!TypeOK, BridgeStates
<1>3. \A s \in Bridge!Requests : request[s] = "none" => request'[s] = "none"
  BY <1>1
<1>4. \A c \in Callers, k \in 1 .. MaxAttempts : <<c, k>> \in Bridge!Requests
  BY DEF Bridge!Requests
<1>5. BridgeFresh'
  BY <1>3, <1>4 DEF BridgeFresh, BridgeInv
<1> QED
  BY <1>1, <1>2, <1>5

\* The daemon's side: the gate lets requests in, calls start, refresh and end.
LEMMA BridgeServeStep ==
  ASSUME BridgeInv, NEW r \in Bridge!Requests, Bridge!Serve(r)
  PROVE  BridgeInv'
<1>a. /\ request \in [Bridge!Requests -> BridgeStates]
      /\ BridgeFresh /\ BridgeWriter /\ BridgeRefresh /\ Bridge!TypeOK
      /\ Bridge!Cardinality(Bridge!In({"running"})) <= Concurrency
      /\ refreshing \subseteq Bridge!Requests /\ warming \in BOOLEAN
      /\ window \in {"cold", "warm", "stale"} /\ token \in {"good", "expired"}
  BY DEF BridgeInv, Bridge!TypeOK, BridgeStates
<1>1. CASE Bridge!Refresh(r)
  <2>1. /\ refreshing' = refreshing \ {r} /\ token' = "good"
        /\ UNCHANGED <<caller, request, warming, window, lapses, sure>>
    BY <1>1 DEF Bridge!Refresh
  <2>2. Bridge!TypeOK' /\ BridgeFresh' /\ BridgeWriter'
    BY <1>a, <2>1 DEF Bridge!TypeOK, BridgeFresh, BridgeWriter, BridgeWriting
  <2>3. BridgeRefresh'
    BY <1>a, <2>1 DEF BridgeRefresh
  <2>4. Bridge!Cardinality(Bridge!In({"running"}))' <= Concurrency
    BY <1>a, <2>1, BridgeFewer
  <2> QED
    BY <2>2, <2>3, <2>4 DEF BridgeInv
<1>2. CASE Bridge!Claim(r)
  <2>1. /\ request[r] = "arrived" /\ UNCHANGED <<caller, refreshing, window, token, lapses, sure>>
        /\ \/ /\ Bridge!Move(r, "admitted") /\ warming' = warming
              /\ Concurrency = 1 \/ (~warming /\ window = "warm")
           \/ /\ Bridge!Move(r, "held") /\ warming' = warming
              /\ warming /\ Concurrency # 1
           \/ /\ Bridge!Move(r, "draining") /\ warming' = TRUE /\ ~warming /\ window # "warm"
              /\ Concurrency # 1
    BY <1>2 DEF Bridge!Claim, Bridge!Stale
  <2>2. PICK to \in {"admitted", "held", "draining"} :
          /\ Bridge!Move(r, to)
          /\ to = "admitted" => /\ warming' = warming
                                /\ Concurrency = 1 \/ (~warming /\ window = "warm")
          /\ to = "held" => warming' = warming /\ warming /\ Concurrency # 1
          /\ to = "draining" => /\ warming' = TRUE /\ ~warming /\ window # "warm"
                                /\ Concurrency # 1
    BY <2>1
  <2>3. /\ Bridge!TypeOK' /\ BridgeFresh' /\ request'[r] = to
        /\ \A s \in Bridge!Requests : s # r => request'[s] = request[s]
    BY <1>a, <2>1, <2>2, BridgeMoves DEF BridgeStates
  <2>4. BridgeWriter'
    BY <1>a, <2>1, <2>2, <2>3 DEF BridgeWriter, BridgeWriting
  <2>5. BridgeRefresh'
    BY <1>a, <2>1, <2>2, <2>3 DEF BridgeRefresh
  <2>6. Bridge!Cardinality(Bridge!In({"running"}))' <= Concurrency
    BY <1>a, <2>2, <2>3, BridgeFewer
  <2> QED
    BY <2>3, <2>4, <2>5, <2>6 DEF BridgeInv
<1>3. CASE Bridge!Admit(r)
  <2>1. /\ request[r] = "held" /\ ~warming /\ Bridge!Move(r, "admitted")
        /\ UNCHANGED <<caller, refreshing, warming, window, token, lapses, sure>>
    BY <1>3 DEF Bridge!Admit, Bridge!gateVars
  <2>2. /\ Bridge!TypeOK' /\ BridgeFresh' /\ request'[r] = "admitted"
        /\ \A s \in Bridge!Requests : s # r => request'[s] = request[s]
    BY <1>a, <2>1, BridgeMoves DEF BridgeStates
  <2>3. BridgeWriter'
    BY <1>a, <2>1, <2>2 DEF BridgeWriter, BridgeWriting
  <2>4. BridgeRefresh'
    BY <1>a, <2>1, <2>2 DEF BridgeRefresh
  <2>5. Bridge!Cardinality(Bridge!In({"running"}))' <= Concurrency
    BY <1>a, <2>2, BridgeFewer
  <2> QED
    BY <2>2, <2>3, <2>4, <2>5 DEF BridgeInv
<1>4. CASE Bridge!StartExclusive(r)
  <2>1. /\ request[r] = "draining" /\ Bridge!Move(r, "exclusive")
        /\ refreshing' = IF token = "expired" THEN refreshing \cup {r} ELSE refreshing
        /\ UNCHANGED <<caller, warming, window, token, lapses, sure>>
        /\ \A s \in Bridge!Requests : request[s] \notin {"admitted", "running"}
    BY <1>4 DEF Bridge!StartExclusive, Bridge!Start, Bridge!Active, Bridge!In
  <2>2. /\ Bridge!TypeOK' /\ BridgeFresh' /\ request'[r] = "exclusive"
        /\ \A s \in Bridge!Requests : s # r => request'[s] = request[s]
    BY <1>a, <2>1, BridgeMoves DEF BridgeStates
  <2>3. BridgeWriter'
    BY <1>a, <2>1, <2>2 DEF BridgeWriter, BridgeWriting
  <2>4. BridgeRefresh'
    BY <1>a, <2>1, <2>2 DEF BridgeRefresh
  <2>5. Bridge!Cardinality(Bridge!In({"running"}))' <= Concurrency
    BY <1>a, <2>2, BridgeFewer
  <2> QED
    BY <2>2, <2>3, <2>4, <2>5 DEF BridgeInv
<1>5. CASE Bridge!StartShared(r)
  <2>1. /\ request[r] = "admitted" /\ Bridge!Move(r, "running")
        /\ Bridge!Cardinality(Bridge!In({"running"})) < Concurrency
        /\ refreshing' = IF token = "expired" THEN refreshing \cup {r} ELSE refreshing
        /\ UNCHANGED <<caller, warming, window, token, lapses, sure>>
    BY <1>5 DEF Bridge!StartShared, Bridge!Start
  <2>2. /\ Bridge!TypeOK' /\ BridgeFresh' /\ request'[r] = "running"
        /\ \A s \in Bridge!Requests : s # r => request'[s] = request[s]
    BY <1>a, <2>1, BridgeMoves DEF BridgeStates
  <2>3. BridgeWriter'
    BY <1>a, <2>1, <2>2 DEF BridgeWriter, BridgeWriting
  <2>4. BridgeRefresh'
    BY <1>a, <2>1, <2>2 DEF BridgeRefresh
  <2>5. Bridge!Cardinality(Bridge!In({"running"}))' <= Concurrency
    BY <2>1, <2>2, BridgeOneMore
  <2> QED
    BY <2>2, <2>3, <2>4, <2>5 DEF BridgeInv
<1>6. ASSUME NEW how \in {"ok", "error"}, Bridge!Finish(r, how) PROVE BridgeInv'
  <2>1. /\ request[r] \in {"running", "exclusive"} /\ Bridge!Move(r, how)
        /\ sure /\ request[r] = "exclusive" => r \notin refreshing
        /\ refreshing' = refreshing \ {r}
        /\ IF request[r] = "exclusive" THEN warming' = FALSE /\ window' = "warm"
                                       ELSE UNCHANGED <<warming, window>>
        /\ UNCHANGED <<caller, token, lapses, sure>>
    BY <1>6 DEF Bridge!Finish, Bridge!Calling, Bridge!In
  <2>2. /\ Bridge!TypeOK' /\ BridgeFresh' /\ request'[r] = how
        /\ \A s \in Bridge!Requests : s # r => request'[s] = request[s]
    BY <1>a, <2>1, BridgeMoves DEF BridgeStates
  <2>3. BridgeWriter'
    BY <1>a, <2>1, <2>2 DEF BridgeWriter, BridgeWriting
  <2>4. BridgeRefresh'
    BY <1>a, <2>1, <2>2 DEF BridgeRefresh, BridgeWriter, BridgeWriting
  <2>5. Bridge!Cardinality(Bridge!In({"running"}))' <= Concurrency
    BY <1>a, <2>2, BridgeFewer
  <2> QED
    BY <2>2, <2>3, <2>4, <2>5 DEF BridgeInv
<1> QED
  BY <1>1, <1>2, <1>3, <1>4, <1>5, <1>6 DEF Bridge!Serve

\* The window ends, or the token does.
LEMMA BridgeTimeStep ==
  ASSUME BridgeInv, Bridge!Lapse \/ Bridge!Expire
  PROVE  BridgeInv'
<1>1. CASE Bridge!Lapse
  <2>1. /\ window = "warm" /\ window' = "stale" /\ lapses < MaxLapses /\ lapses' = lapses + 1
        /\ sure => \A r \in Bridge!Requests : request[r] \notin {"held", "admitted"}
        /\ UNCHANGED <<caller, request, refreshing, warming, token, sure>>
    BY <1>1 DEF Bridge!Lapse, Bridge!In
  <2>2. Bridge!TypeOK'
    BY <2>1, BridgeAssumption DEF BridgeInv, Bridge!TypeOK
  <2>3. BridgeFresh' /\ BridgeWriter'
    BY <2>1 DEF BridgeInv, BridgeFresh, BridgeWriter, BridgeWriting
  <2>4. BridgeRefresh'
    BY <2>1 DEF BridgeInv, BridgeRefresh
  <2>5. Bridge!Cardinality(Bridge!In({"running"}))' <= Concurrency
    BY <2>1, BridgeFewer DEF BridgeInv
  <2> QED
    BY <2>2, <2>3, <2>4, <2>5 DEF BridgeInv
<1>2. CASE Bridge!Expire
  <2>1. /\ token' = "expired"
        /\ sure => window = "stale" /\ \A r \in Bridge!Requests : request[r] # "exclusive"
        /\ UNCHANGED <<caller, request, refreshing, warming, window, lapses, sure>>
    BY <1>2 DEF Bridge!Expire, Bridge!In
  <2>2. Bridge!TypeOK' /\ BridgeFresh' /\ BridgeWriter'
    BY <2>1 DEF BridgeInv, Bridge!TypeOK, BridgeFresh, BridgeWriter, BridgeWriting
  <2>3. BridgeRefresh'
    BY <2>1 DEF BridgeInv, BridgeRefresh
  <2>4. Bridge!Cardinality(Bridge!In({"running"}))' <= Concurrency
    BY <2>1, BridgeFewer DEF BridgeInv
  <2> QED
    BY <2>2, <2>3, <2>4 DEF BridgeInv
<1> QED
  BY <1>1, <1>2

\* The inductive invariant: types, fresh requests, the writer's and the readers' sides of
\* the gate, and who may refresh.
THEOREM BridgeInvariantHolds == Spec => []BridgeInv
<1>1. Init => BridgeInv
  BY BridgeInit DEF Init
<1>2. BridgeInv /\ [Next]_vars => BridgeInv'
  <2> SUFFICES ASSUME BridgeInv, [Next]_vars PROVE BridgeInv'
    OBVIOUS
  <2>1. CASE Bridge!Next
    BY <2>1, BridgeCallerStep, BridgeServeStep, BridgeTimeStep DEF Bridge!Next
  <2>2. CASE UNCHANGED bridgeVars
    <3>1. Bridge!TypeOK' /\ BridgeFresh' /\ BridgeWriter' /\ BridgeRefresh'
      BY <2>2 DEF BridgeInv, Bridge!TypeOK, BridgeFresh, BridgeWriter, BridgeWriting,
                  BridgeRefresh
    <3>2. Bridge!Cardinality(Bridge!In({"running"}))' <= Concurrency
      BY <2>2, BridgeFewer DEF BridgeInv
    <3> QED
      BY <3>1, <3>2 DEF BridgeInv
  <2> QED
    BY <2>1, <2>2 DEF Next, vars, OfQueue, OfStream, OfBridge
<1> QED
  BY <1>1, <1>2, PTL DEF Spec

\* A warm-up is alone, the readers stay within the concurrency, and the token is refreshed
\* by one call at a time while the gate's premises hold (ConcurrencyGate).
THEOREM GateIsSafeHolds == Spec => []GateIsSafe
<1>1. BridgeInv => GateIsSafe
  <2> SUFFICES ASSUME BridgeInv PROVE GateIsSafe
    OBVIOUS
  <2>1. ASSUME NEW r \in Bridge!In({"exclusive"}) PROVE Bridge!Calling = {r}
    BY <2>1 DEF BridgeInv, BridgeWriter, BridgeWriting, Bridge!In, Bridge!Calling
  <2>2. ASSUME sure PROVE Bridge!RefreshIsSerial
    <3>1. refreshing \subseteq Bridge!Requests
      BY DEF BridgeInv, Bridge!TypeOK
    <3>2. IsFiniteSet(refreshing) /\ Cardinality(refreshing) \in Nat
      BY <3>1, BridgeFinite
    <3>3. CASE Concurrency # 1
      <4>1. \A r, s \in refreshing : r = s
        BY <2>2, <3>1, <3>3 DEF BridgeInv, BridgeRefresh, BridgeWriter, BridgeWriting
      <4>2. CASE refreshing = {}
        BY <4>2, FS_EmptySet, BridgeCardinality DEF Bridge!RefreshIsSerial
      <4>3. CASE refreshing # {}
        <5>1. PICK r : refreshing = {r}
          BY <4>1, <4>3
        <5>2. Cardinality({r}) = 1
          BY FS_Singleton
        <5>3. Bridge!Cardinality(refreshing) = 1
          BY <5>1, <5>2, BridgeCardinality
        <5> QED
          BY <5>3 DEF Bridge!RefreshIsSerial
      <4> QED
        BY <4>2, <4>3
    <3>4. CASE Concurrency = 1
      <4>1. refreshing \subseteq Bridge!In({"running"})
        BY <3>1, <3>4 DEF BridgeInv, BridgeRefresh, BridgeWriter, BridgeWriting, Bridge!In
      <4>2. Bridge!In({"running"}) \subseteq Bridge!Requests
        BY DEF Bridge!In
      <4>3. /\ Cardinality(refreshing) <= Cardinality(Bridge!In({"running"}))
            /\ Cardinality(Bridge!In({"running"})) \in Nat
        BY <4>1, <4>2, BridgeFinite, FS_Subset
      <4>4. Cardinality(Bridge!In({"running"})) <= 1
        BY <3>4, BridgeCardinality DEF BridgeInv
      <4> QED
        BY <3>2, <4>3, <4>4, BridgeCardinality DEF Bridge!RefreshIsSerial
    <3> QED
      BY <3>3, <3>4
  <2> QED
    BY <2>1, <2>2 DEF BridgeInv, GateIsSafe, Bridge!GateIsSafe
<1> QED
  BY <1>1, BridgeInvariantHolds, PTL

-----------------------------------------------------------------------------
(* The narration and its viewer.  Events are committed in the order of     *)
(* their seq (StreamEmitted), so a batch is a contiguous piece of the log  *)
(* past the cursor (StreamServed) and what the browser has is a prefix of  *)
(* it (StreamSeen), whichever of the replay, a stream and the reconcile    *)
(* poll it came from.                                                      *)

\* The log holds nothing at or past the emitter's counter.
StreamEmitted == \A s \in Stream!Committed : s < seq

\* A stream is served to a hook that listens.  What it read is every committed event
\* between its cursor and the last of the batch.
StreamServed ==
  /\ server # "closed" => hook = "live"
  /\ server \in {"job", "yield"} =>
       /\ polls < MaxPolls
       /\ batch \subseteq Stream!Committed
       /\ \A b \in batch : b > after
       /\ \A b \in batch, s \in Stream!Committed : after < s /\ s <= b => s \in batch
  /\ server = "yield" => batch # {}
  /\ after = -1 \/ after \in Stream!Committed

\* The frames on their way are committed events up to the cursor, in order.
StreamSent ==
  /\ \A i \in DOMAIN pipe : pipe[i] \in Stream!Committed /\ pipe[i] <= after
  /\ \A i, j \in DOMAIN pipe : i < j => pipe[i] < pipe[j]

\* What the browser has is a prefix of the committed log, and the terminal event in it
\* settles the view.
StreamSeen ==
  /\ seen \subseteq Stream!Committed
  /\ \A m \in seen, s \in Stream!Committed : s <= m => s \in seen
  /\ sawTerminal <=> \E s \in seen : log[s] = "end"
  /\ sawTerminal => hook = "done"

StreamInv ==
  /\ Stream!TypeOK
  /\ StreamEmitted
  /\ StreamServed
  /\ StreamSent
  /\ StreamSeen
  /\ Stream!CursorSkipsNothing
  /\ Stream!NeverEndsEarly

-----------------------------------------------------------------------------
\* The least and the greatest of a set of sequence numbers.
LEMMA NatLeast ==
  ASSUME NEW S, S \subseteq Nat, S # {}
  PROVE  \E x \in S : \A y \in S : x <= y
<1> DEFINE R == {ss \in Nat \X Nat : ss[1] < ss[2]}
<1>1. IsWellFoundedOn(R, Nat)
  BY NatLessThanWellFounded DEF OpToRel
<1>2. \A x, y \in Nat : y < x => <<y, x>> \in R
  OBVIOUS
<1> HIDE DEF R
<1>3. \E x \in S : \A y \in S : ~ (<<y, x>> \in R)
  BY <1>1, WFMin, ZenonT(30)
<1>4. PICK x \in S : \A y \in S : ~ (<<y, x>> \in R)
  BY <1>3
<1>5. ASSUME NEW y \in S PROVE x <= y
  <2>1. ~(y < x)
    BY <1>2, <1>4, Zenon
  <2> QED
    BY <2>1
<1> QED
  BY <1>5

LEMMA StreamMin ==
  ASSUME NEW S, S \subseteq Nat, S # {}
  PROVE  Stream!Min(S) \in S /\ \A y \in S : Stream!Min(S) <= y
BY NatLeast DEF Stream!Min

LEMMA StreamMax ==
  ASSUME NEW n \in Nat, NEW S, S \subseteq 0 .. n, S # {}
  PROVE  Stream!Max(S) \in S /\ \A y \in S : Stream!Max(S) >= y
<1> DEFINE T == {k \in Nat : n - k \in S}
<1>1. T \subseteq Nat /\ T # {}
  <2>1. PICK x : x \in S
    OBVIOUS
  <2>2. n - x \in Nat /\ n - (n - x) = x
    BY <2>1
  <2> QED
    BY <2>1, <2>2
<1>2. PICK k \in T : \A j \in T : k <= j
  BY <1>1, NatLeast
<1>3. n - k \in S /\ k \in Nat
  BY <1>2
<1>4. ASSUME NEW y \in S PROVE n - k >= y
  <2>1. n - y \in Nat /\ n - (n - y) = y
    OBVIOUS
  <2>2. k <= n - y
    BY <1>2, <2>1
  <2> QED
    BY <1>3, <2>1, <2>2
<1> QED
  BY <1>3, <1>4 DEF Stream!Max

-----------------------------------------------------------------------------
\* The types of what the properties compare.
LEMMA StreamTypes ==
  ASSUME StreamInv
  PROVE  /\ Stream!TypeOK /\ StreamEmitted /\ StreamServed /\ StreamSent /\ StreamSeen
         /\ Stream!CursorSkipsNothing /\ Stream!NeverEndsEarly
         /\ Stream!Seqs = 0 .. MaxEvents - 1 /\ MaxEvents \in Nat
         /\ Stream!Committed \subseteq Stream!Seqs /\ Stream!Committed \subseteq Nat
         /\ after \in Int /\ seq \in Nat /\ batch \subseteq Nat /\ seen \subseteq Nat
         /\ pipe \in Seq(Nat)
BY StreamBoundsAssumption DEF StreamInv, Stream!TypeOK, Stream!Seqs, Stream!Committed

\* An emission adds to the log past everything in it, or is lost.
LEMMA StreamEmitStep ==
  ASSUME StreamInv, NEW k \in {"step", "end"}, Stream!Emit(k),
         work' \in {"run", "commit", "finalize"}, job' = job,
         UNCHANGED <<server, after, polls, batch, pipe, hook, seen, sawTerminal, netFailures>>
  PROVE  StreamInv'
<1> USE StreamTypes
<1>1. seq \in Stream!Seqs /\ seq' = seq + 1 /\ log \in [Stream!Seqs -> {"none", "step", "end"}]
  BY DEF Stream!Emit, Stream!TypeOK
<1>2. Stream!TypeOK'
  <2>1. log' \in [Stream!Seqs -> {"none", "step", "end"}]
    BY <1>1 DEF Stream!Emit
  <2>2. losses' \in 0 .. MaxLosses
    BY StreamBoundsAssumption DEF Stream!TypeOK, Stream!Emit
  <2>3. seq' \in 0 .. MaxEvents
    BY <1>1
  <2> QED
    BY <2>1, <2>2, <2>3 DEF Stream!TypeOK
<1>3. \A s \in Stream!Seqs : s # seq => log'[s] = log[s]
  BY <1>1 DEF Stream!Emit
<1>4. seq \notin Stream!Committed
  BY DEF StreamEmitted
<1>5. /\ Stream!Committed \subseteq Stream!Committed'
      /\ \A s \in Stream!Committed' : s \in Stream!Committed \/ s = seq
      /\ \A s \in Stream!Committed : log'[s] = log[s] /\ s < seq
  BY <1>1, <1>3, <1>4 DEF Stream!Committed, StreamEmitted
<1>6. StreamEmitted'
  BY <1>1, <1>5 DEF StreamEmitted
<1>7. after < seq
  BY <1>5 DEF StreamServed
<1>8. StreamServed'
  BY <1>5, <1>7 DEF StreamServed
<1>9. StreamSent'
  BY <1>5 DEF StreamSent
<1>10. StreamSeen'
  BY <1>5 DEF StreamSeen
<1>11. Stream!CursorSkipsNothing'
  BY <1>5, <1>7 DEF Stream!CursorSkipsNothing, Stream!Received
<1>12. Stream!NeverEndsEarly'
  BY DEF Stream!NeverEndsEarly
<1> QED
  BY <1>2, <1>6, <1>8, <1>9, <1>10, <1>11, <1>12 DEF StreamInv

\* The job ends once.
LEMMA StreamJobStep ==
  ASSUME StreamInv, job' \in {"queued", "running"} \cup Stream!JobTerminal,
         job \in Stream!JobTerminal => job' \in Stream!JobTerminal,
         work' \in {"queued", "run", "commit", "fail", "finalize", "end"},
         UNCHANGED <<seq, log, losses, server, after, polls, batch, pipe, hook, seen,
                     sawTerminal, netFailures>>
  PROVE  StreamInv'
<1> USE StreamTypes
<1>1. Stream!TypeOK'
  BY DEF Stream!TypeOK
<1>2. Stream!Committed' = Stream!Committed
  BY DEF Stream!Committed
<1>3. StreamEmitted' /\ StreamServed' /\ StreamSent' /\ StreamSeen'
  BY <1>2 DEF StreamEmitted, StreamServed, StreamSent, StreamSeen
<1>4. Stream!CursorSkipsNothing' /\ Stream!NeverEndsEarly'
  BY <1>2 DEF Stream!CursorSkipsNothing, Stream!Received, Stream!NeverEndsEarly
<1> QED
  BY <1>1, <1>3, <1>4 DEF StreamInv

\* The worker, and what may befall the job.
LEMMA StreamWorkStep ==
  ASSUME StreamInv,
         \/ Stream!Work \/ Stream!EmitStep \/ Stream!HandlerRaises \/ Stream!Crash
         \/ Stream!Reap \/ Stream!Cancel
  PROVE  StreamInv'
<1> USE DEF Stream!JobTerminal, Stream!jobVars, Stream!logVars, Stream!serverVars,
            Stream!hookVars
<1>a. job \in {"queued", "running"} \cup Stream!JobTerminal
      /\ work \in {"queued", "run", "commit", "fail", "finalize", "end"}
  BY StreamTypes DEF Stream!TypeOK
<1>1. CASE Stream!EmitStep
  BY <1>1, StreamEmitStep DEF Stream!EmitStep
<1>2. CASE Stream!EmitTerminal
  BY <1>2, StreamEmitStep DEF Stream!EmitTerminal
<1>3. CASE Stream!EmitFailure
  BY <1>3, StreamEmitStep DEF Stream!EmitFailure
<1>4. CASE Stream!StartJob
  BY <1>4, <1>a, StreamJobStep DEF Stream!StartJob
<1>5. CASE Stream!ReturnSilently
  BY <1>5, <1>a, StreamJobStep DEF Stream!ReturnSilently
<1>6. CASE Stream!HandlerRaises
  BY <1>6, <1>a, StreamJobStep DEF Stream!HandlerRaises
<1>7. CASE Stream!Finalize
  BY <1>7, <1>a, StreamJobStep DEF Stream!Finalize
<1>8. CASE Stream!Crash
  BY <1>8, <1>a, StreamJobStep DEF Stream!Crash
<1>9. CASE Stream!Reap
  BY <1>9, <1>a, StreamJobStep DEF Stream!Reap
<1>10. CASE Stream!Cancel
  BY <1>10, <1>a, StreamJobStep DEF Stream!Cancel
<1> QED
  BY <1>1, <1>2, <1>3, <1>4, <1>5, <1>6, <1>7, <1>8, <1>9, <1>10 DEF Stream!Work

-----------------------------------------------------------------------------
\* The server: it reads on from its cursor, and sends the least of what it read.
LEMMA StreamServeStep ==
  ASSUME StreamInv, Stream!Serve
  PROVE  StreamInv'
<1> USE StreamTypes
<1> USE DEF Stream!jobVars, Stream!logVars, Stream!serverVars, Stream!hookVars
<1>1. CASE Stream!ReadEvents
  <2>1. /\ UNCHANGED <<job, work, seq, log, losses, after, polls, pipe, hook, seen,
                       sawTerminal, netFailures>>
        /\ server = "events"
        /\ \/ polls = MaxPolls /\ server' = "closed" /\ batch' = batch
           \/ polls # MaxPolls /\ server' = "job" /\ batch' = Stream!EventsAfter(after)
    BY <1>1 DEF Stream!ReadEvents
  <2>2. Stream!Committed' = Stream!Committed
    BY <2>1 DEF Stream!Committed
  <2>3. Stream!TypeOK'
    BY <2>1 DEF Stream!TypeOK, Stream!EventsAfter
  <2>4. polls # MaxPolls => polls < MaxPolls
    BY StreamBoundsAssumption DEF Stream!TypeOK
  <2>5. StreamServed'
    BY <2>1, <2>2, <2>4 DEF StreamServed, Stream!EventsAfter
  <2>6. StreamEmitted' /\ StreamSent' /\ StreamSeen'
    BY <2>1, <2>2 DEF StreamEmitted, StreamSent, StreamSeen
  <2>7. Stream!CursorSkipsNothing' /\ Stream!NeverEndsEarly'
    BY <2>1, <2>2 DEF Stream!CursorSkipsNothing, Stream!Received, Stream!NeverEndsEarly
  <2> QED
    BY <2>3, <2>5, <2>6, <2>7 DEF StreamInv
<1>2. CASE Stream!ReadJob
  <2>1. /\ UNCHANGED <<job, work, seq, log, losses, after, batch, pipe, hook, seen,
                       sawTerminal, netFailures>>
        /\ server = "job"
        /\ \/ batch # {} /\ server' = "yield" /\ polls' = polls
           \/ server' = "closed" /\ polls' = polls
           \/ server' = "events" /\ polls' = polls + 1
    BY <1>2 DEF Stream!ReadJob
  <2>2. Stream!Committed' = Stream!Committed
    BY <2>1 DEF Stream!Committed
  <2>3. Stream!TypeOK'
    BY <2>1, StreamBoundsAssumption DEF Stream!TypeOK, StreamServed
  <2>5. StreamServed'
    BY <2>1, <2>2 DEF StreamServed
  <2>6. StreamEmitted' /\ StreamSent' /\ StreamSeen'
    BY <2>1, <2>2 DEF StreamEmitted, StreamSent, StreamSeen
  <2>7. Stream!CursorSkipsNothing' /\ Stream!NeverEndsEarly'
    BY <2>1, <2>2 DEF Stream!CursorSkipsNothing, Stream!Received, Stream!NeverEndsEarly
  <2> QED
    BY <2>3, <2>5, <2>6, <2>7 DEF StreamInv
<1>3. CASE Stream!YieldFrame
  <2>1. /\ UNCHANGED <<job, work, seq, log, losses, hook, seen, sawTerminal, netFailures>>
        /\ server = "yield" /\ after' = Stream!Min(batch) /\ batch' = batch \ {after'}
        /\ pipe' = Append(pipe, after')
        /\ \/ server' = "closed" /\ polls' = polls
           \/ batch' # {} /\ server' = server /\ polls' = polls
           \/ server' = "events" /\ polls' = polls + 1
    BY <1>3 DEF Stream!YieldFrame
  <2>2. Stream!Committed' = Stream!Committed
    BY <2>1 DEF Stream!Committed
  <2>3. batch \subseteq Stream!Committed /\ batch # {} /\ hook = "live" /\ polls < MaxPolls
    BY <2>1 DEF StreamServed
  <2>4. after' \in batch /\ \A b \in batch : after' <= b
    BY <2>1, <2>3, StreamMin
  <2>5. after' \in Stream!Committed /\ after' \in Nat /\ after < after'
    BY <2>1, <2>3, <2>4 DEF StreamServed
  <2>6. /\ Len(pipe') = Len(pipe) + 1 /\ pipe'[Len(pipe) + 1] = after'
        /\ \A i \in 1 .. Len(pipe) : pipe'[i] = pipe[i]
        /\ DOMAIN pipe' = 1 .. Len(pipe) + 1 /\ DOMAIN pipe = 1 .. Len(pipe) /\ Len(pipe) \in Nat
    BY <2>1
  <2>7. Stream!TypeOK'
    <3>1. after' \in Stream!Seqs
      BY <2>5
    <3>2. pipe' \in Seq(Stream!Seqs)
      BY <2>1, <3>1 DEF Stream!TypeOK
    <3>3. after' \in -1 .. MaxEvents - 1
      BY <3>1
    <3>4. polls' \in 0 .. MaxPolls
      BY <2>1, <2>3, StreamBoundsAssumption DEF Stream!TypeOK
    <3> QED
      BY <2>1, <3>2, <3>3, <3>4 DEF Stream!TypeOK
  <2>8. StreamServed'
    <3>1. server' # "closed" => hook' = "live"
      BY <2>1, <2>3
    <3>2. ASSUME NEW b \in batch' PROVE b > after' /\ b \in batch /\ b \in Nat
      BY <2>1, <2>4, <2>5, <3>2
    <3>3. ASSUME NEW b \in batch', NEW s \in Stream!Committed', after' < s, s <= b
          PROVE  s \in batch'
      <4>1. s \in batch
        BY <2>1, <2>2, <2>5, <3>2, <3>3 DEF StreamServed
      <4> QED
        BY <2>1, <2>5, <3>3, <4>1
    <3>4. server' = "yield" => batch' # {}
      BY <2>1
    <3>5. server' \in {"job", "yield"} => polls' < MaxPolls /\ batch' \subseteq Stream!Committed'
      BY <2>1, <2>2, <2>3
    <3> QED
      BY <2>2, <2>5, <3>1, <3>2, <3>3, <3>4, <3>5 DEF StreamServed
  <2>9. StreamSent'
    <3>1. ASSUME NEW i \in DOMAIN pipe' PROVE pipe'[i] \in Stream!Committed' /\ pipe'[i] <= after'
      BY <2>2, <2>5, <2>6, <3>1 DEF StreamSent
    <3>2. ASSUME NEW i \in DOMAIN pipe', NEW j \in DOMAIN pipe', i < j
          PROVE  pipe'[i] < pipe'[j]
      <4>1. i \in 1 .. Len(pipe)
        BY <2>6, <3>2
      <4>2. pipe[i] \in Nat /\ pipe[i] <= after /\ pipe'[i] = pipe[i]
        BY <2>6, <4>1 DEF StreamSent
      <4>3. CASE j = Len(pipe) + 1
        BY <2>5, <2>6, <4>2, <4>3
      <4>4. CASE j \in 1 .. Len(pipe)
        BY <2>6, <3>2, <4>1, <4>2, <4>4 DEF StreamSent
      <4> QED
        BY <2>6, <4>3, <4>4
    <3> QED
      BY <3>1, <3>2 DEF StreamSent
  <2>10. Stream!CursorSkipsNothing'
    <3> SUFFICES ASSUME NEW s \in Stream!Committed, s <= after'
                 PROVE  s \in Stream!Received'
      BY <2>2 DEF Stream!CursorSkipsNothing
    <3>1. CASE s <= after
      <4>1. s \in Stream!Received
        BY <2>3, <3>1 DEF Stream!CursorSkipsNothing
      <4> QED
        BY <2>1, <2>6, <4>1 DEF Stream!Received
    <3>2. CASE after < s
      <4>1. s \in batch
        BY <2>1, <2>4, <3>2 DEF StreamServed
      <4>2. s = after'
        BY <2>4, <2>5, <4>1
      <4> QED
        BY <2>6, <4>2 DEF Stream!Received
    <3> QED
      BY <3>1, <3>2
  <2>11. StreamEmitted' /\ StreamSeen' /\ Stream!NeverEndsEarly'
    BY <2>1, <2>2 DEF StreamEmitted, StreamSeen, Stream!NeverEndsEarly
  <2> QED
    BY <2>7, <2>8, <2>9, <2>10, <2>11 DEF StreamInv
<1> QED
  BY <1>1, <1>2, <1>3 DEF Stream!Serve

-----------------------------------------------------------------------------
\* What the browser takes in: the whole log, or a frame, or what follows what it has.
LEMMA StreamIngestStep ==
  ASSUME StreamInv, NEW S, S \subseteq Stream!Committed,
         \A m \in S, s \in Stream!Committed : s <= m => s \in seen \cup S,
         NEW next \in {"open", "live", "settle"}, Stream!Ingest(S, next),
         ~sawTerminal, log' = log
  PROVE  /\ StreamSeen' /\ seen' \in SUBSET Stream!Seqs /\ sawTerminal' \in BOOLEAN
         /\ hook' \in {"done", next} /\ (sawTerminal' <=> hook' = "done")
<1> USE StreamTypes
<1>1. Stream!Committed' = Stream!Committed
  BY DEF Stream!Committed
<1>2. /\ seen' = seen \cup S
      /\ sawTerminal' <=> sawTerminal \/ \E s \in S : log[s] = "end"
      /\ sawTerminal' \in BOOLEAN
      /\ hook' = IF sawTerminal' THEN "done" ELSE next
  BY DEF Stream!Ingest, Stream!TypeOK
<1>3. /\ seen \subseteq Stream!Committed
      /\ \A m \in seen, s \in Stream!Committed : s <= m => s \in seen
      /\ (sawTerminal <=> \E s \in seen : log[s] = "end")
  BY DEF StreamSeen
<1>4. \A m \in seen', s \in Stream!Committed : s <= m => s \in seen'
  BY <1>2, <1>3
<1>5. sawTerminal' <=> \E s \in seen' : log[s] = "end"
  BY <1>2, <1>3
<1>6. StreamSeen'
  BY <1>1, <1>2, <1>3, <1>4, <1>5 DEF StreamSeen
<1> QED
  BY <1>2, <1>3, <1>6

\* Nothing of the stream changes but what the browser has.
LEMMA StreamViewStep ==
  ASSUME StreamInv, StreamSeen',
         hook' \in {"replay", "open", "live", "reconcile", "settle", "wait", "done", "error"},
         hook # "live", hook' # "live",
         hook' = "done" /\ ~sawTerminal' => job \in Stream!JobTerminal,
         seen' \in SUBSET Stream!Seqs, sawTerminal' \in BOOLEAN,
         netFailures' \in 0 .. MaxNetFailures,
         UNCHANGED <<job, work, seq, log, losses, server, after, polls, batch, pipe>>
  PROVE  StreamInv'
<1> USE StreamTypes
<1>1. Stream!TypeOK'
  BY DEF Stream!TypeOK
<1>2. Stream!Committed' = Stream!Committed
  BY DEF Stream!Committed
<1>3. StreamEmitted' /\ StreamServed' /\ StreamSent'
  BY <1>2 DEF StreamEmitted, StreamServed, StreamSent
<1>4. Stream!CursorSkipsNothing' /\ Stream!NeverEndsEarly'
  BY DEF Stream!CursorSkipsNothing, Stream!NeverEndsEarly
<1> QED
  BY <1>1, <1>3, <1>4 DEF StreamInv

LEMMA StreamNetFails ==
  ASSUME StreamInv, Stream!NetFails \/ netFailures' = netFailures
  PROVE  netFailures' \in 0 .. MaxNetFailures
BY StreamBoundsAssumption, StreamTypes DEF Stream!NetFails, Stream!TypeOK

\* A replay finds the whole log; a reconcile poll finds all that follows a prefix of it.
LEMMA StreamPollStep ==
  ASSUME StreamInv, Stream!Replay \/ Stream!Reconcile
  PROVE  StreamInv'
<1> USE StreamTypes
<1> USE DEF Stream!jobVars, Stream!logVars, Stream!serverVars, Stream!hookVars
<1>0. /\ Stream!EventsAfter(IF seen = {} THEN -1 ELSE Stream!Max(seen))
           \subseteq Stream!Committed
      /\ {} \subseteq Stream!Committed /\ Stream!Committed \subseteq Stream!Committed
  BY DEF Stream!EventsAfter
<1>1. PICK S \in SUBSET Stream!Committed, next \in {"open", "settle"} :
        /\ Stream!Ingest(S, next)
        /\ S = {} \/ S = Stream!Committed
           \/ S = Stream!EventsAfter(IF seen = {} THEN -1 ELSE Stream!Max(seen))
        /\ Stream!NetFails \/ netFailures' = netFailures
  <2>1. CASE Stream!Replay
    <3>1. \/ Stream!Ingest(Stream!Committed, "open") /\ netFailures' = netFailures
          \/ Stream!NetFails /\ Stream!Ingest({}, "open")
      BY <2>1 DEF Stream!Replay
    <3> QED
      BY <1>0, <3>1
  <2>2. CASE Stream!Reconcile
    <3>1. \/ /\ Stream!Ingest(Stream!EventsAfter(IF seen = {} THEN -1
                                                 ELSE Stream!Max(seen)), "settle")
             /\ netFailures' = netFailures
          \/ Stream!NetFails /\ Stream!Ingest({}, "settle")
      BY <2>2 DEF Stream!Reconcile
    <3> QED
      BY <1>0, <3>1
  <2> QED
    BY <2>1, <2>2
<1>2. /\ UNCHANGED <<job, work, seq, log, losses, server, after, polls, batch, pipe>>
      /\ hook \in {"replay", "reconcile"}
  BY DEF Stream!Replay, Stream!Reconcile
<1>3. S \subseteq Stream!Committed
  BY <1>1
<1>4. \A m \in S, s \in Stream!Committed : s <= m => s \in seen \cup S
  <2>1. CASE S = {} \/ S = Stream!Committed
    BY <2>1
  <2>2. CASE S = Stream!EventsAfter(IF seen = {} THEN -1 ELSE Stream!Max(seen))
    <3>1. CASE seen = {}
      BY <2>2, <3>1 DEF Stream!EventsAfter
    <3>2. CASE seen # {}
      <4>1. MaxEvents - 1 \in Nat /\ seen \subseteq 0 .. MaxEvents - 1
        BY StreamBoundsAssumption DEF Stream!TypeOK
      <4>2. Stream!Max(seen) \in seen
        BY <3>2, <4>1, StreamMax
      <4>3. S = {s \in Stream!Committed : s > Stream!Max(seen)}
        BY <2>2, <3>2 DEF Stream!EventsAfter
      <4>4. \A s \in Stream!Committed : s <= Stream!Max(seen) => s \in seen
        BY <4>2 DEF StreamSeen
      <4>5. Stream!Max(seen) \in Nat
        BY <4>2
      <4> QED
        BY <4>3, <4>4, <4>5
    <3> QED
      BY <3>1, <3>2
  <2> QED
    BY <1>1, <2>1, <2>2
<1>5. ~sawTerminal
  BY <1>2 DEF StreamSeen
<1>6. /\ StreamSeen' /\ seen' \in SUBSET Stream!Seqs /\ sawTerminal' \in BOOLEAN
      /\ hook' \in {"done", next} /\ (sawTerminal' <=> hook' = "done")
  BY <1>1, <1>2, <1>3, <1>4, <1>5, StreamIngestStep
<1>7. netFailures' \in 0 .. MaxNetFailures
  BY <1>1, StreamNetFails
<1> QED
  BY <1>1, <1>2, <1>6, <1>7, StreamViewStep

\* The stream starts over, and only then does the server serve.
LEMMA StreamOpenStep ==
  ASSUME StreamInv, Stream!OpenStream
  PROVE  StreamInv'
<1> USE StreamTypes
<1> USE DEF Stream!jobVars, Stream!logVars, Stream!serverVars, Stream!hookVars
<1>1. /\ hook = "open" /\ UNCHANGED <<job, work, seq, log, losses, seen, sawTerminal>>
  BY DEF Stream!OpenStream
<1>2. netFailures' \in 0 .. MaxNetFailures
  BY StreamNetFails DEF Stream!OpenStream
<1>3. Stream!Committed' = Stream!Committed /\ ~sawTerminal /\ seen' \in SUBSET Stream!Seqs
      /\ sawTerminal' \in BOOLEAN
  BY <1>1 DEF Stream!Committed, StreamSeen, Stream!TypeOK
<1>4. StreamSeen'
  BY <1>1, <1>3 DEF StreamSeen
<1>5. CASE /\ hook' = "live" /\ server' = "events" /\ after' = -1 /\ polls' = 0 /\ batch' = {}
           /\ pipe' = << >>
  <2>1. Stream!TypeOK'
    BY <1>1, <1>2, <1>3, <1>5, StreamBoundsAssumption DEF Stream!TypeOK
  <2>2. StreamEmitted' /\ StreamServed'
    BY <1>1, <1>3, <1>5 DEF StreamEmitted, StreamServed
  <2>3. StreamSent'
    BY <1>5 DEF StreamSent
  <2>4. \A s \in Stream!Committed : ~(s <= after')
    BY <1>5
  <2>5. Stream!CursorSkipsNothing' /\ Stream!NeverEndsEarly'
    BY <1>3, <1>5, <2>4 DEF Stream!CursorSkipsNothing, Stream!NeverEndsEarly
  <2> QED
    BY <1>4, <2>1, <2>2, <2>3, <2>5 DEF StreamInv
<1>6. CASE hook' = "reconcile" /\ UNCHANGED <<server, after, polls, batch, pipe>>
  BY <1>1, <1>2, <1>3, <1>4, <1>6, StreamViewStep
<1> QED
  BY <1>5, <1>6 DEF Stream!OpenStream

\* A frame arrives.  Every committed event up to it is in the browser already: it has been
\* sent, and the frames on their way are in order.
LEMMA StreamReceiveStep ==
  ASSUME StreamInv, Stream!ReceiveFrame
  PROVE  StreamInv'
<1> USE StreamTypes
<1> USE DEF Stream!jobVars, Stream!logVars, Stream!serverVars, Stream!hookVars
<1> DEFINE h == Head(pipe)
<1>1. /\ hook = "live" /\ pipe # << >> /\ pipe' = Tail(pipe) /\ Stream!Ingest({h}, "live")
      /\ UNCHANGED <<job, work, seq, log, losses, netFailures, after, polls, batch>>
      /\ IF sawTerminal' THEN server' = "closed" ELSE server' = server
  BY DEF Stream!ReceiveFrame, Stream!CloseStream
<1>2. /\ Len(pipe) \in Nat \ {0} /\ h = pipe[1] /\ DOMAIN pipe = 1 .. Len(pipe)
      /\ DOMAIN pipe' = 1 .. Len(pipe) - 1
      /\ \A i \in 1 .. Len(pipe) - 1 : pipe'[i] = pipe[i + 1]
  BY <1>1
<1> HIDE DEF h
<1>a. 1 \in DOMAIN pipe /\ \A i \in 2 .. Len(pipe) : i \in DOMAIN pipe /\ 1 < i
  BY <1>2
<1>3. h \in Stream!Committed /\ h <= after /\ h \in Nat
  BY <1>2, <1>a DEF StreamSent
<1>4. \A i \in 2 .. Len(pipe) : h < pipe[i]
  BY <1>2, <1>a DEF StreamSent
<1>5. ASSUME NEW s \in Stream!Committed, s <= h PROVE s \in seen \cup {h}
  <2>1. s <= after
    BY <1>3, <1>5
  <2>2. s \in Stream!Received
    BY <1>1, <2>1 DEF Stream!CursorSkipsNothing
  <2>3. CASE s \in seen
    BY <2>3
  <2>4. CASE s \notin seen
    <3>1. PICK i \in 1 .. Len(pipe) : s = pipe[i]
      BY <1>2, <2>2, <2>4 DEF Stream!Received
    <3>2. i = 1
      BY <1>3, <1>4, <1>5, <3>1
    <3> QED
      BY <1>2, <3>1, <3>2
  <2> QED
    BY <2>3, <2>4
<1>6. ~sawTerminal
  BY <1>1 DEF StreamSeen
<1>7. /\ StreamSeen' /\ seen' \in SUBSET Stream!Seqs /\ sawTerminal' \in BOOLEAN
      /\ hook' \in {"done", "live"} /\ (sawTerminal' <=> hook' = "done")
  BY <1>1, <1>3, <1>5, <1>6, StreamIngestStep
<1>8. Stream!Committed' = Stream!Committed
  BY <1>1 DEF Stream!Committed
<1>9. Stream!TypeOK'
  <2>1. pipe' \in Seq(Stream!Seqs)
    BY <1>1 DEF Stream!TypeOK
  <2> QED
    BY <1>1, <1>7, <2>1 DEF Stream!TypeOK
<1>10. StreamEmitted' /\ StreamServed'
  BY <1>1, <1>7, <1>8 DEF StreamEmitted, StreamServed
<1>11. StreamSent'
  <2>1. ASSUME NEW i \in DOMAIN pipe' PROVE pipe'[i] \in Stream!Committed' /\ pipe'[i] <= after'
    <3>1. i + 1 \in DOMAIN pipe /\ pipe'[i] = pipe[i + 1]
      BY <1>2, <2>1
    <3> QED
      BY <1>1, <1>8, <3>1 DEF StreamSent
  <2>2. ASSUME NEW i \in DOMAIN pipe', NEW j \in DOMAIN pipe', i < j
        PROVE  pipe'[i] < pipe'[j]
    <3>1. /\ i + 1 \in DOMAIN pipe /\ j + 1 \in DOMAIN pipe /\ i + 1 < j + 1
          /\ pipe'[i] = pipe[i + 1] /\ pipe'[j] = pipe[j + 1]
      BY <1>2, <2>2
    <3> QED
      BY <3>1 DEF StreamSent
  <2> QED
    BY <2>1, <2>2 DEF StreamSent
<1>12. Stream!CursorSkipsNothing'
  <2> SUFFICES ASSUME NEW s \in Stream!Committed, s <= after
               PROVE  s \in Stream!Received'
    BY <1>1, <1>8 DEF Stream!CursorSkipsNothing
  <2>1. s \in Stream!Received
    BY <1>1 DEF Stream!CursorSkipsNothing
  <2>2. seen' = seen \cup {h}
    BY <1>1 DEF Stream!Ingest
  <2>3. CASE s \in seen
    BY <2>2, <2>3 DEF Stream!Received
  <2>4. CASE s \notin seen
    <3>1. PICK i \in 1 .. Len(pipe) : s = pipe[i]
      BY <1>2, <2>1, <2>4 DEF Stream!Received
    <3>2. CASE i = 1
      BY <1>2, <2>2, <3>1, <3>2 DEF Stream!Received
    <3>3. CASE i # 1
      <4>1. i - 1 \in DOMAIN pipe' /\ pipe'[i - 1] = s
        BY <1>2, <3>1, <3>3
      <4> QED
        BY <4>1 DEF Stream!Received
    <3> QED
      BY <3>2, <3>3
  <2> QED
    BY <2>3, <2>4
<1>13. Stream!NeverEndsEarly'
  BY <1>7 DEF Stream!NeverEndsEarly
<1> QED
  BY <1>7, <1>9, <1>10, <1>11, <1>12, <1>13 DEF StreamInv

\* The stream ends or breaks, the view settles or starts again.
LEMMA StreamEndStep ==
  ASSUME StreamInv,
         \/ Stream!StreamEnds \/ Stream!StreamBreaks \/ Stream!Settle \/ Stream!Reconnect
  PROVE  StreamInv'
<1> USE StreamTypes
<1> USE DEF Stream!jobVars, Stream!logVars, Stream!serverVars, Stream!hookVars
<1>1. CASE Stream!StreamEnds \/ Stream!StreamBreaks
  <2>1. /\ hook = "live" /\ hook' \in {"settle", "reconcile"} /\ server' = "closed"
        /\ UNCHANGED <<job, work, seq, log, losses, after, polls, batch, seen, sawTerminal>>
        /\ pipe' = << >>
        /\ Stream!NetFails \/ netFailures' = netFailures
    BY <1>1 DEF Stream!StreamEnds, Stream!StreamBreaks, Stream!CloseStream
  <2>2. netFailures' \in 0 .. MaxNetFailures
    BY <2>1, StreamNetFails
  <2>3. Stream!Committed' = Stream!Committed
    BY <2>1 DEF Stream!Committed
  <2>4. Stream!TypeOK'
    BY <2>1, <2>2 DEF Stream!TypeOK
  <2>5. StreamEmitted' /\ StreamServed' /\ StreamSeen'
    BY <2>1, <2>3 DEF StreamEmitted, StreamServed, StreamSeen
  <2>6. StreamSent'
    BY <2>1 DEF StreamSent
  <2>7. Stream!CursorSkipsNothing' /\ Stream!NeverEndsEarly'
    BY <2>1 DEF Stream!CursorSkipsNothing, Stream!NeverEndsEarly
  <2> QED
    BY <2>4, <2>5, <2>6, <2>7 DEF StreamInv
<1>2. CASE Stream!Settle
  <2>1. /\ hook = "settle" /\ hook' \in {"done", "wait", "error"}
        /\ hook' = "done" => job \in Stream!JobTerminal
        /\ UNCHANGED <<job, work, seq, log, losses, server, after, polls, batch, pipe, seen,
                       sawTerminal>>
        /\ Stream!NetFails \/ netFailures' = netFailures
    BY <1>2 DEF Stream!Settle
  <2>2. netFailures' \in 0 .. MaxNetFailures
    BY <2>1, StreamNetFails
  <2>3. Stream!Committed' = Stream!Committed /\ ~sawTerminal
    BY <2>1 DEF Stream!Committed, StreamSeen
  <2>4. StreamSeen' /\ seen' \in SUBSET Stream!Seqs /\ sawTerminal' \in BOOLEAN
    BY <2>1, <2>3 DEF StreamSeen, Stream!TypeOK
  <2> QED
    BY <2>1, <2>2, <2>4, StreamViewStep
<1>3. CASE Stream!Reconnect
  <2>1. /\ hook \in {"wait", "error"} /\ hook' = "replay" /\ seen' = {} /\ sawTerminal' = FALSE
        /\ UNCHANGED <<job, work, seq, log, losses, server, after, polls, batch, pipe,
                       netFailures>>
    BY <1>3 DEF Stream!Reconnect
  <2>2. netFailures' \in 0 .. MaxNetFailures
    BY <2>1, StreamNetFails
  <2>3. StreamSeen' /\ seen' \in SUBSET Stream!Seqs /\ sawTerminal' \in BOOLEAN
    BY <2>1 DEF StreamSeen
  <2> QED
    BY <2>1, <2>2, <2>3, StreamViewStep
<1> QED
  BY <1>1, <1>2, <1>3

-----------------------------------------------------------------------------
\* The invariant of the stream holds: steps of the others leave it alone.
THEOREM StreamInvariantHolds == Spec => []StreamInv
<1>1. Init => StreamInv
  <2> SUFFICES ASSUME Init PROVE StreamInv
    OBVIOUS
  <2>1. Stream!Init
    BY DEF Init
  <2>2. Stream!Committed = {}
    BY <2>1 DEF Stream!Init, Stream!Committed
  <2>3. Stream!TypeOK
    <3>1. log \in [Stream!Seqs -> {"none", "step", "end"}]
      BY <2>1 DEF Stream!Init
    <3>2. pipe \in Seq(Stream!Seqs) /\ batch \in SUBSET Stream!Seqs /\ seen \in SUBSET Stream!Seqs
      BY <2>1 DEF Stream!Init
    <3>3. /\ seq \in 0 .. MaxEvents /\ after \in -1 .. MaxEvents - 1 /\ polls \in 0 .. MaxPolls
          /\ losses \in 0 .. MaxLosses /\ netFailures \in 0 .. MaxNetFailures
      BY <2>1, StreamBoundsAssumption DEF Stream!Init
    <3> QED
      BY <2>1, <3>1, <3>2, <3>3 DEF Stream!Init, Stream!TypeOK
  <2>4. StreamEmitted /\ StreamServed
    BY <2>1, <2>2 DEF Stream!Init, StreamEmitted, StreamServed
  <2>5. StreamSent /\ StreamSeen
    BY <2>1, <2>2 DEF Stream!Init, StreamSent, StreamSeen
  <2>6. Stream!CursorSkipsNothing /\ Stream!NeverEndsEarly
    BY <2>1 DEF Stream!Init, Stream!CursorSkipsNothing, Stream!NeverEndsEarly
  <2> QED
    BY <2>3, <2>4, <2>5, <2>6 DEF StreamInv
<1>2. StreamInv /\ UNCHANGED streamVars => StreamInv'
  BY DEF streamVars, StreamInv, StreamEmitted, StreamServed, StreamSent, StreamSeen,
     Stream!TypeOK, Stream!CursorSkipsNothing, Stream!NeverEndsEarly, Stream!Committed,
     Stream!Received
<1>3. StreamInv /\ [Next]_vars => StreamInv'
  <2> SUFFICES ASSUME StreamInv, [Next]_vars PROVE StreamInv'
    OBVIOUS
  <2>1. CASE UNCHANGED streamVars
    BY <1>2, <2>1
  <2>2. CASE Stream!Next
    BY <2>2, StreamWorkStep, StreamServeStep, StreamPollStep, StreamOpenStep,
       StreamReceiveStep, StreamEndStep DEF Stream!Next, Stream!View
  <2> QED
    BY <2>1, <2>2 DEF Next, OfQueue, OfStream, OfBridge, vars
<1> QED
  BY <1>1, <1>3, PTL DEF Spec

\* The view of a run is faithful (api/runs.py _run_event_sse, useRunEvents.ts): the cursor
\* skips nothing, a finished view is the whole journey, and no view ends before its run.
THEOREM ViewIsFaithfulHolds == Spec => []ViewIsFaithful
<1>1. StreamInv => ViewIsFaithful
  <2> SUFFICES ASSUME StreamInv PROVE Stream!FinishedViewIsComplete
    BY DEF StreamInv, ViewIsFaithful, Stream!ViewIsFaithful
  <2>1. StreamSeen
    BY DEF StreamInv
  <2> QED
    BY <2>1 DEF StreamSeen, Stream!FinishedViewIsComplete
<1> QED
  BY <1>1, StreamInvariantHolds, PTL

-----------------------------------------------------------------------------
\* The queue of this run is one of those JobWorkerProofs speaks of: unfolded, both are the
\* same formula.
Proven == INSTANCE JobWorkerProofs WITH Handlers <- MCHandlers, DispatchKinds <- {},
            Dispatchers <- {}, MaxAttempts <- 1, MaxDbLosses <- 0, losses <- dbLosses

LEMMA QueueSteps == Queue!Next = Proven!Next
BY DEF
    Queue!Kinds, Queue!Workers, Queue!jobVars, Queue!apiVars, Queue!workerVars,
    Queue!faultVars, Queue!Active, Queue!Terminal, Queue!Finished, Queue!Executing,
    Queue!PC, Queue!BecomeDue, Queue!LeaveQueue, Queue!Locked, Queue!Insert, Queue!Enqueue,
    Queue!Requeue, Queue!CancelRead, Queue!CancelWrite, Queue!BackoffElapses,
    Queue!LeaseExpires, Queue!SelectForUpdate, Queue!ClaimNext, Queue!DispatchJob,
    Queue!HasHandler, Queue!ClaimCommit, Queue!Step, Queue!SetRun, Queue!Release,
    Queue!StartRun, Queue!HandleWithoutRow, Queue!ScriptsDone, Queue!HandlerReturns,
    Queue!MayTimeOut, Queue!EnterFailure, Queue!HandlerRaises, Queue!ScriptsRaise,
    Queue!MarkSucceeded, Queue!Interrupt, Queue!ReconcileRun, Queue!Finalize, Queue!Restart,
    Queue!SweepRuns, Queue!Reclaim, Queue!RunningJobs, Queue!ReapAtStartup, Queue!ReapStale,
    Queue!ReconcileReaped, Queue!EndReap, Queue!LoseTransaction, Queue!LoseBestEffort,
    Queue!LoseReconcile, Queue!Crash, Queue!ApiCrash, Queue!Handle, Queue!Work,
    Queue!Client, Queue!Clock, Queue!Fault, Queue!Next, Proven!Kinds, Proven!Workers,
    Proven!jobVars, Proven!apiVars, Proven!workerVars, Proven!faultVars, Proven!Active,
    Proven!Terminal, Proven!Finished, Proven!Executing, Proven!PC, Proven!BecomeDue,
    Proven!LeaveQueue, Proven!Locked, Proven!Insert, Proven!Enqueue, Proven!Requeue,
    Proven!CancelRead, Proven!CancelWrite, Proven!BackoffElapses, Proven!LeaseExpires,
    Proven!SelectForUpdate, Proven!ClaimNext, Proven!DispatchJob, Proven!HasHandler,
    Proven!ClaimCommit, Proven!Step, Proven!SetRun, Proven!Release, Proven!StartRun,
    Proven!HandleWithoutRow, Proven!ScriptsDone, Proven!HandlerReturns, Proven!MayTimeOut,
    Proven!EnterFailure, Proven!HandlerRaises, Proven!ScriptsRaise, Proven!MarkSucceeded,
    Proven!Interrupt, Proven!ReconcileRun, Proven!Finalize, Proven!Restart,
    Proven!SweepRuns, Proven!Reclaim, Proven!RunningJobs, Proven!ReapAtStartup,
    Proven!ReapStale, Proven!ReconcileReaped, Proven!EndReap, Proven!LoseTransaction,
    Proven!LoseBestEffort, Proven!LoseReconcile, Proven!Crash, Proven!ApiCrash,
    Proven!Handle, Proven!Work, Proven!Client, Proven!Clock, Proven!Fault, Proven!Next

LEMMA QueueStates ==
  Queue!Init = Proven!Init /\ Queue!TypeOK = Proven!TypeOK
BY DEF
    Queue!Init, 
    Queue!TypeOK, Queue!Kinds, Queue!Workers, Queue!Active, Queue!Terminal, Queue!JobStatus,
    Queue!Finished, Queue!RunStatus, Queue!Executing, Queue!PC, Proven!Init, Proven!vars,
    Proven!jobVars, Proven!apiVars, Proven!workerVars, Proven!faultVars, Proven!TypeOK,
    Proven!Kinds, Proven!Workers, Proven!Active, Proven!Terminal, Proven!JobStatus,
    Proven!Finished, Proven!RunStatus, Proven!Executing, Proven!PC

\* Every variable of the queue, of the stream and of the bridge has its type.
THEOREM SettleTypesOKHolds == Spec => []TypesOK
<1>1. /\ Proven!MaxAttemptsAssumption /\ Proven!BoundsAssumption /\ Proven!WorkersAssumption
      /\ Proven!NoJobAssumption /\ Proven!HandlersAssumption
  BY QueueAssumption DEF Proven!MaxAttemptsAssumption, Proven!BoundsAssumption,
     Proven!WorkersAssumption, Proven!NoJobAssumption, Proven!HandlersAssumption,
     MCHandlers, Proven!Kinds
<1>2. Init => Proven!Init
  BY QueueStates DEF Init
<1>3. [Next]_vars => [Proven!Next]_(Proven!vars)
  <2>1. UNCHANGED workerVars => UNCHANGED Proven!vars
    BY DEF workerVars, Proven!vars, Proven!jobVars, Proven!apiVars, Proven!workerVars,
       Proven!faultVars
  <2>2. CASE UNCHANGED workerVars
    BY <2>1, <2>2
  <2>3. CASE Queue!Next
    BY <2>3, QueueSteps
  <2> QED
    BY <2>2, <2>3 DEF Next, OfQueue, OfStream, OfBridge, vars
<1>4. Spec => Proven!Spec
  BY <1>2, <1>3, PTL DEF Spec, Proven!Spec
<1>5. Proven!Spec => []Proven!TypeOK
  BY <1>1, Proven!TypeCorrect
<1>6. StreamInv /\ BridgeInv /\ Proven!TypeOK => TypesOK
  BY QueueStates DEF StreamInv, BridgeInv, TypesOK
<1> QED
  BY <1>4, <1>5, <1>6, StreamInvariantHolds, BridgeInvariantHolds, PTL
=============================================================================
