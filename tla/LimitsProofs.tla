---------------------------- MODULE LimitsProofs -----------------------------
(***************************************************************************)
(* Proofs about the limits on an organization: the gate of api/quota.py,   *)
(* for every number of jobs, of lanes and of requests that overlap, and    *)
(* the limiter of core/rate_limit.py, for every limit, window and horizon. *)
(***************************************************************************)
EXTENDS MCExecution, FiniteSetTheorems, Integers, WellFoundedInduction, TLAPS

-----------------------------------------------------------------------------
(* Finite sets and sequence numbers                                        *)

\* A part of a finite set is no larger; with an element less it is smaller.
LEMMA Fewer ==
  ASSUME NEW S, IsFiniteSet(S), NEW T, T \subseteq S
  PROVE  /\ IsFiniteSet(T) /\ Cardinality(T) \in Nat /\ Cardinality(S) \in Nat
         /\ Cardinality(T) <= Cardinality(S)
BY FS_Subset, FS_CardinalityType

LEMMA OneLess ==
  ASSUME NEW S, IsFiniteSet(S), NEW x \in S, NEW T, T \subseteq S \ {x}
  PROVE  /\ IsFiniteSet(T) /\ Cardinality(T) \in Nat /\ Cardinality(S) \in Nat
         /\ Cardinality(T) < Cardinality(S)
<1>1. IsFiniteSet(S \ {x}) /\ Cardinality(S \ {x}) = Cardinality(S) - 1
  BY FS_RemoveElement
<1>2. Cardinality(S) \in Nat /\ Cardinality(S \ {x}) \in Nat
  BY <1>1, FS_CardinalityType
<1> QED
  BY <1>1, <1>2, Fewer

LEMMA OneMore ==
  ASSUME NEW S, IsFiniteSet(S), NEW x, NEW T, T \subseteq S \cup {x}
  PROVE  /\ IsFiniteSet(T) /\ Cardinality(T) \in Nat /\ Cardinality(S) \in Nat
         /\ Cardinality(T) <= Cardinality(S) + 1
<1>1. /\ IsFiniteSet(S \cup {x}) /\ Cardinality(S) \in Nat
      /\ Cardinality(S \cup {x}) \in {Cardinality(S), Cardinality(S) + 1}
  BY FS_AddElement, FS_CardinalityType
<1> QED
  BY <1>1, Fewer

\* The least and the greatest of a set of sequence numbers.
LEMMA NatLeast ==
  ASSUME NEW S, S \subseteq Nat, S # {}
  PROVE  \E x \in S : \A y \in S : x <= y
<1> DEFINE R == {ss \in Nat \X Nat : ss[1] < ss[2]}
<1>1. IsWellFoundedOn(R, Nat)
  BY NatLessThanWellFounded DEF OpToRel
<1>2. \A x, y \in Nat : y < x => <<y, x>> \in R
  OBVIOUS
<1> HIDE DEF R
<1>3. \E x \in S : \A y \in S : ~ (<<y, x>> \in R)
  BY <1>1, WFMin, ZenonT(30)
<1>4. PICK x \in S : \A y \in S : ~ (<<y, x>> \in R)
  BY <1>3
<1>5. ASSUME NEW y \in S PROVE x <= y
  <2>1. ~(y < x)
    BY <1>2, <1>4, Zenon
  <2> QED
    BY <2>1
<1> QED
  BY <1>5

-----------------------------------------------------------------------------
(* The gate                                                                *)

USE DEF tenancyVars

\* The requests in flight, those past the gate, and those of them that start a run.
Busy == {l \in Slots : asking[l] # Tenant!Nothing}
Past == {l \in Slots : asking[l].admitted /\ asking[l].doing # "rerun"}
Starting == {l \in Slots : asking[l].admitted /\ asking[l].doing = "run"}

\* A run that is about to be inserted is counted with those there are.
TenantSpends ==
  /\ Tenant!Allowance(plan) <= peak
  /\ \/ Cardinality(Jobs) <= peak
     \/ /\ Cardinality(Tenant!GatedRuns) <= peak + (lanesOpen - 1)
        /\ Starting # {} =>
             Cardinality(Tenant!GatedRuns) + Cardinality(Starting) <= peak + (lanesOpen - 1)

\* ... and so is a job that is about to slip past a suspension.
TenantSlips ==
  /\ suspended => slipped + Cardinality(Past) <= lanesOpen - 1
  /\ ~suspended => slipped = 0

\* A request that was let in asks for something, of a project.
TenantAsks(r) ==
  /\ r.admitted => r.doing # "nothing"
  /\ r.doing # "nothing" => r.project = "project"

TenantInv ==
  /\ Tenant!TypeOK
  /\ \A l \in Slots : TenantAsks(asking[l])
  /\ Cardinality(Busy) <= lanesOpen
  /\ TenantSpends
  /\ TenantSlips

LEMMA TenantCardinality == \A S : Tenant!Cardinality(S) = Cardinality(S)
BY DEF Tenant!Cardinality, Cardinality

LEMMA TenantFinite ==
  /\ \A S : S \subseteq Slots => IsFiniteSet(S) /\ Cardinality(S) \in Nat
  /\ \A S : S \subseteq Jobs => IsFiniteSet(S) /\ Cardinality(S) \in Nat
BY LimitsAssumption, FS_Subset, FS_CardinalityType

\* What the types give.
LEMMA TenantTypes ==
  ASSUME TenantInv
  PROVE  /\ asking \in [Slots -> Tenant!Asking] /\ job \in [Jobs -> Tenant!Job]
         /\ peak \in Nat /\ slipped \in Nat /\ lanesOpen \in Nat /\ lanesOpen >= 1
         /\ Tenant!Allowance(plan) \in Nat
         /\ TenantSpends /\ TenantSlips /\ Cardinality(Busy) <= lanesOpen
         /\ Cardinality(Starting) \in Nat /\ Cardinality(Past) \in Nat
         /\ Cardinality(Busy) \in Nat /\ Cardinality(Tenant!GatedRuns) \in Nat
         /\ Cardinality(Jobs) \in Nat
         /\ \A l \in Slots : TenantAsks(asking[l])
<1>1. /\ asking \in [Slots -> Tenant!Asking] /\ job \in [Jobs -> Tenant!Job]
      /\ peak \in Nat /\ slipped \in Nat /\ lanesOpen \in Nat /\ lanesOpen >= 1
  BY TenantCardinality, TenantFinite DEF TenantInv, Tenant!TypeOK
<1>2. Cardinality(Jobs) \in Nat /\ Tenant!Allowance(plan) \in Nat
  BY TenantFinite, TenantCardinality DEF Tenant!Allowance
<1>3. Starting \subseteq Slots /\ Past \subseteq Slots /\ Busy \subseteq Slots
  BY DEF Starting, Past, Busy
<1>4. Tenant!GatedRuns \subseteq Jobs
  BY DEF Tenant!GatedRuns, Tenant!RunsThisMonth
<1> QED
  BY <1>1, <1>2, <1>3, <1>4, TenantFinite DEF TenantInv

LEMMA TenantInit == Tenant!Init => TenantInv
<1> SUFFICES ASSUME Tenant!Init PROVE TenantInv
  OBVIOUS
<1>1. Busy = {} /\ Past = {} /\ Starting = {} /\ Tenant!GatedRuns = {}
  BY DEF Busy, Past, Starting, Tenant!GatedRuns, Tenant!RunsThisMonth, Tenant!Init,
         Tenant!Nothing, Tenant!NoJob
<1>2. Cardinality(Busy) = 0 /\ Cardinality(Past) = 0 /\ Cardinality(Tenant!GatedRuns) = 0
  BY <1>1, FS_EmptySet
<1>3. lanesOpen \in Nat /\ lanesOpen >= 1
  BY TenantCardinality, TenantFinite DEF Tenant!Init
<1>4. Tenant!TypeOK
  BY TenantCardinality DEF Tenant!Init, Tenant!TypeOK, Tenant!Plans, Tenant!Nothing,
     Tenant!NoJob, Tenant!Job, Tenant!Asking, Tenant!Kinds
<1>5. TenantSpends
  BY <1>1, <1>2, <1>3 DEF TenantSpends, Tenant!Init, Tenant!Allowance
<1>6. TenantSlips
  BY <1>2, <1>3 DEF TenantSlips, Tenant!Init
<1>7. \A l \in Slots : TenantAsks(asking[l])
  BY DEF Tenant!Init, Tenant!Nothing, TenantAsks
<1> QED
  BY <1>2, <1>3, <1>4, <1>5, <1>6, <1>7 DEF TenantInv

\* Whatever starts no run, moves nothing past the gate and inserts no gated run.
LEMMA TenantQuiet ==
  ASSUME TenantInv, Tenant!TypeOK', Cardinality(Busy') <= lanesOpen,
         Starting' \subseteq Starting, Past' \subseteq Past,
         Tenant!GatedRuns' \subseteq Tenant!GatedRuns,
         \A l \in Slots : TenantAsks(asking'[l]),
         UNCHANGED <<plan, suspended, lanesOpen, peak, slipped>>
  PROVE  TenantInv'
<1>1. /\ IsFiniteSet(Starting) /\ IsFiniteSet(Past) /\ IsFiniteSet(Tenant!GatedRuns)
      /\ Tenant!Allowance(plan)' = Tenant!Allowance(plan)
  BY TenantFinite DEF Starting, Past, Tenant!GatedRuns, Tenant!RunsThisMonth, Tenant!Allowance
<1>2. /\ Cardinality(Starting') <= Cardinality(Starting) /\ Cardinality(Starting') \in Nat
      /\ Cardinality(Past') <= Cardinality(Past) /\ Cardinality(Past') \in Nat
      /\ Cardinality(Tenant!GatedRuns') <= Cardinality(Tenant!GatedRuns)
      /\ Cardinality(Tenant!GatedRuns') \in Nat
  BY <1>1, Fewer
<1>3. TenantSpends'
  <2>1. Starting' # {} => Starting # {}
    OBVIOUS
  <2> QED
    BY <1>1, <1>2, <2>1, TenantTypes DEF TenantSpends
<1>4. TenantSlips'
  BY <1>2, TenantTypes DEF TenantSlips
<1> QED
  BY <1>3, <1>4 DEF TenantInv

LEMMA TenantNext == TenantInv /\ [Tenant!Next]_tenancyVars => TenantInv'
<1> SUFFICES ASSUME TenantInv, [Tenant!Next]_tenancyVars PROVE TenantInv'
  OBVIOUS
<1>t. /\ asking \in [Slots -> Tenant!Asking] /\ job \in [Jobs -> Tenant!Job]
      /\ peak \in Nat /\ slipped \in Nat /\ lanesOpen \in Nat /\ lanesOpen >= 1
      /\ Tenant!Allowance(plan) \in Nat
      /\ TenantSpends /\ TenantSlips /\ Cardinality(Busy) <= lanesOpen
      /\ Cardinality(Starting) \in Nat /\ Cardinality(Past) \in Nat
      /\ Cardinality(Busy) \in Nat /\ Cardinality(Tenant!GatedRuns) \in Nat
      /\ Cardinality(Jobs) \in Nat
      /\ \A l \in Slots : TenantAsks(asking[l])
  BY TenantTypes
<1>f. /\ IsFiniteSet(Busy) /\ IsFiniteSet(Starting) /\ IsFiniteSet(Past)
      /\ IsFiniteSet(Tenant!GatedRuns)
  BY TenantFinite DEF Busy, Starting, Past, Tenant!GatedRuns, Tenant!RunsThisMonth
<1>r. Tenant!RoomToAsk => Cardinality(Busy) < lanesOpen
  BY TenantCardinality DEF Tenant!RoomToAsk, Busy
<1>1. ASSUME NEW l \in Slots, NEW what \in {"run", "ingest", "rerun"}, NEW p,
             p \in liveProjects, Tenant!Ask(l, what, p)
      PROVE  TenantInv'
  <2> DEFINE r == [doing |-> what, project |-> p, admitted |-> (what = "rerun")]
  <2>1. r \in Tenant!Asking /\ r.doing = what /\ r.admitted = (what = "rerun")
        /\ TenantAsks(r)
    BY <1>1 DEF Tenant!Asking, TenantInv, Tenant!TypeOK, TenantAsks
  <2>2. asking' = [asking EXCEPT ![l] = r] /\ UNCHANGED <<plan, suspended, liveProjects,
                                                          job, lanesOpen, peak, slipped>>
    BY <1>1 DEF Tenant!Ask
  <2> HIDE DEF r
  <2>3. Tenant!TypeOK'
    BY <1>t, <2>1, <2>2 DEF TenantInv, Tenant!TypeOK
  <2>4. Cardinality(Busy') <= lanesOpen
    <3>1. Busy' \subseteq Busy \cup {l}
      BY <1>t, <2>2 DEF Busy
    <3> QED
      BY <1>1, <1>f, <1>r, <1>t, <3>1, OneMore DEF Tenant!Ask
  <2>5. Starting' \subseteq Starting /\ Past' \subseteq Past
    BY <1>t, <2>1, <2>2 DEF Starting, Past
  <2>6. Tenant!GatedRuns' = Tenant!GatedRuns
    BY <2>2 DEF Tenant!GatedRuns, Tenant!RunsThisMonth
  <2> QED
    BY <1>t, <2>1, <2>2, <2>3, <2>4, <2>5, <2>6, TenantQuiet
<1>2. ASSUME NEW l \in Slots, Tenant!Gate(l) PROVE TenantInv'
  <2> DEFINE admits == ~suspended /\ (asking[l].doing = "run" => Tenant!CreditLeft)
  <2>1. /\ asking[l].doing \in Tenant!Kinds /\ ~asking[l].admitted
        /\ UNCHANGED <<plan, suspended, liveProjects, job, lanesOpen, peak, slipped>>
    BY <1>2 DEF Tenant!Gate
  <2>2. Tenant!GatedRuns' = Tenant!GatedRuns
    BY <2>1 DEF Tenant!GatedRuns, Tenant!RunsThisMonth
  <2>3. CASE ~admits
    <3>1. asking' = [asking EXCEPT ![l] = Tenant!Nothing]
      BY <1>2, <2>3 DEF Tenant!Gate
    <3>2. Tenant!Nothing \in Tenant!Asking /\ ~Tenant!Nothing.admitted /\ TenantAsks(Tenant!Nothing)
      BY DEF Tenant!Nothing, Tenant!Asking, TenantAsks
    <3>3. Tenant!TypeOK'
      BY <1>t, <2>1, <3>1, <3>2 DEF TenantInv, Tenant!TypeOK
    <3>4. Busy' \subseteq Busy /\ Starting' \subseteq Starting /\ Past' \subseteq Past
      BY <1>t, <3>1, <3>2 DEF Busy, Starting, Past
    <3>5. Cardinality(Busy') <= lanesOpen
      BY <1>f, <1>t, <3>4, Fewer
    <3> QED
      BY <1>t, <2>1, <2>2, <3>1, <3>2, <3>3, <3>4, <3>5, TenantQuiet
  <2>4. CASE admits
    <3> DEFINE r == [asking[l] EXCEPT !.admitted = TRUE]
    <3>1. asking' = [asking EXCEPT ![l] = r]
      BY <1>2, <2>4 DEF Tenant!Gate
    <3>2. r \in Tenant!Asking /\ r.admitted /\ r.doing = asking[l].doing
          /\ TenantAsks(r)
      BY <1>t, <2>1 DEF Tenant!Asking, TenantAsks, Tenant!Kinds
    <3>k. ~suspended /\ (asking[l].doing = "run" => Tenant!CreditLeft)
      BY <2>4
    <3> HIDE DEF r, admits
    <3>3. Tenant!TypeOK'
      BY <1>t, <2>1, <3>1, <3>2 DEF TenantInv, Tenant!TypeOK
    <3>4. \A k \in Slots : TenantAsks(asking'[k])
      BY <1>t, <3>1, <3>2
    <3>5. Busy' \subseteq Busy /\ l \in Busy
      <4>1. asking[l].doing # "nothing" /\ Tenant!Nothing.doing = "nothing"
        BY <2>1 DEF Tenant!Kinds, Tenant!Nothing
      <4> QED
        BY <1>t, <3>1, <4>1 DEF Busy
    <3>6. Cardinality(Busy') <= lanesOpen
      BY <1>f, <1>t, <3>5, Fewer
    <3>7. TenantSlips'
      BY <1>t, <2>1, <3>k DEF TenantSlips
    <3>8. TenantSpends'
      <4>1. Tenant!Allowance(plan)' = Tenant!Allowance(plan)
        BY <2>1 DEF Tenant!Allowance
      <4>2. CASE asking[l].doing # "run"
        <5>1. Starting' = Starting
          BY <1>t, <2>1, <3>1, <3>2, <4>2 DEF Starting
        <5> QED
          BY <1>t, <2>1, <2>2, <4>1, <5>1 DEF TenantSpends
      <4>3. CASE asking[l].doing = "run"
        <5>1. Starting' \subseteq Busy'
          BY DEF Starting, Busy, Tenant!Nothing
        <5>2. Cardinality(Starting') \in Nat /\ Cardinality(Starting') <= lanesOpen
          <6>1. IsFiniteSet(Busy')
            BY <1>f, <3>5, Fewer
          <6>2. Cardinality(Starting') <= Cardinality(Busy') /\ Cardinality(Busy') \in Nat
                /\ Cardinality(Starting') \in Nat
            BY <5>1, <6>1, Fewer
          <6> QED
            BY <1>t, <3>6, <6>2
        <5>3. CASE plan = "enterprise"
          <6>1. Tenant!Allowance(plan) = Cardinality(Jobs)
            BY <5>3, TenantCardinality DEF Tenant!Allowance
          <6> QED
            BY <1>t, <2>1, <4>1, <6>1 DEF TenantSpends
        <5>4. CASE plan # "enterprise"
          <6>1. Cardinality(Tenant!RunsThisMonth) < Tenant!Allowance(plan)
            BY <3>k, <4>3, <5>4, TenantCardinality DEF Tenant!CreditLeft
          <6>2. /\ Cardinality(Tenant!GatedRuns) <= Cardinality(Tenant!RunsThisMonth)
                /\ Cardinality(Tenant!RunsThisMonth) \in Nat
            <7>1. /\ IsFiniteSet(Tenant!RunsThisMonth)
                  /\ Tenant!GatedRuns \subseteq Tenant!RunsThisMonth
              BY TenantFinite DEF Tenant!GatedRuns, Tenant!RunsThisMonth
            <7> QED
              BY <7>1, Fewer
          <6>3. Cardinality(Tenant!GatedRuns) + 1 <= peak
            BY <1>t, <6>1, <6>2 DEF TenantSpends
          <6> QED
            BY <1>t, <2>1, <2>2, <4>1, <5>2, <6>3 DEF TenantSpends
        <5> QED
          BY <5>3, <5>4
      <4> QED
        BY <4>2, <4>3
    <3> QED
      BY <2>1, <3>3, <3>4, <3>6, <3>7, <3>8 DEF TenantInv
  <2> QED
    BY <2>3, <2>4
<1>3. ASSUME NEW j \in Jobs, NEW kind \in Tenant!Kinds, NEW p \in {"project"},
             NEW gated \in BOOLEAN, Tenant!Inserted(j, kind, p, gated)
      PROVE  /\ job' \in [Jobs -> Tenant!Job]
             /\ Tenant!GatedRuns' \subseteq
                  Tenant!GatedRuns \cup (IF gated /\ kind = "run" THEN {j} ELSE {})
             /\ \A i \in Jobs : job'[i].made => i = j \/ job'[i] = job[i]
             /\ job'[j].project = p
  <2> DEFINE row == [made |-> TRUE, kind |-> kind, project |-> p, down |-> FALSE,
                     gated |-> gated, fresh |-> TRUE]
  <2>1. row \in Tenant!Job /\ row.gated = gated /\ row.kind = kind /\ row.project = p
    BY DEF Tenant!Job
  <2>2. job' = [job EXCEPT ![j] = row]
    BY <1>3 DEF Tenant!Inserted
  <2> HIDE DEF row
  <2>3. job' \in [Jobs -> Tenant!Job]
    BY <1>t, <2>1, <2>2
  <2>4. Tenant!GatedRuns' \subseteq
                  Tenant!GatedRuns \cup (IF gated /\ kind = "run" THEN {j} ELSE {})
    BY <1>t, <2>1, <2>2 DEF Tenant!GatedRuns, Tenant!RunsThisMonth
  <2> QED
    BY <1>t, <2>1, <2>2, <2>3, <2>4
<1>4. ASSUME NEW l \in Slots, NEW j \in Jobs, Tenant!Enqueue(l, j) PROVE TenantInv'
  <2> DEFINE kind == IF asking[l].doing = "ingest" THEN "ingest" ELSE "run"
             gated == asking[l].doing # "rerun"
  <2>1. /\ asking[l].admitted /\ asking' = [asking EXCEPT ![l] = Tenant!Nothing]
        /\ UNCHANGED <<plan, suspended, liveProjects, lanesOpen, peak>>
        /\ Tenant!Inserted(j, kind, asking[l].project, gated)
        /\ slipped' = IF suspended /\ asking[l].doing # "rerun" THEN slipped + 1 ELSE slipped
    BY <1>4 DEF Tenant!Enqueue
  <2>2. /\ asking[l].doing \in {"run", "ingest", "rerun"} /\ asking[l].project = "project"
        /\ kind \in Tenant!Kinds /\ gated \in BOOLEAN
    BY <1>t, <2>1 DEF Tenant!Kinds, Tenant!Asking, TenantAsks
  <2>4. (gated /\ kind = "run") = (asking[l].doing = "run")
    BY <2>2
  <2> HIDE DEF kind, gated
  <2>a. /\ job' \in [Jobs -> Tenant!Job]
        /\ Tenant!GatedRuns' \subseteq
              Tenant!GatedRuns \cup (IF gated /\ kind = "run" THEN {j} ELSE {})
        /\ \A i \in Jobs : job'[i].made => i = j \/ job'[i] = job[i]
        /\ job'[j].project = "project"
    BY <1>3, <2>1, <2>2
  <2>3. /\ job' \in [Jobs -> Tenant!Job]
        /\ Tenant!GatedRuns' \subseteq
              Tenant!GatedRuns \cup (IF gated /\ kind = "run" THEN {j} ELSE {})
        /\ \A i \in Jobs : job'[i].made => job'[i].project # NoProject
    BY <2>a, LimitsAssumption DEF TenantInv, Tenant!TypeOK
  <2>5. Tenant!Nothing \in Tenant!Asking /\ ~Tenant!Nothing.admitted /\ TenantAsks(Tenant!Nothing)
    BY DEF Tenant!Nothing, Tenant!Asking, TenantAsks
  <2>6. Tenant!TypeOK'
    BY <1>t, <2>1, <2>3, <2>5 DEF TenantInv, Tenant!TypeOK
  <2>7. /\ Busy' \subseteq Busy /\ \A k \in Slots : TenantAsks(asking'[k])
        /\ Starting' \subseteq Starting \ {l} /\ Past' \subseteq Past \ {l}
    BY <1>t, <2>1, <2>5 DEF Busy, Starting, Past
  <2>8. Cardinality(Busy') <= lanesOpen
    BY <1>f, <1>t, <2>7, Fewer
  <2>9. TenantSlips'
    <3>1. CASE asking[l].doing = "rerun"
      <4>1. Past' \subseteq Past
        BY <2>7
      <4>2. Cardinality(Past') <= Cardinality(Past) /\ Cardinality(Past') \in Nat
        BY <1>f, <4>1, Fewer
      <4> QED
        BY <1>t, <2>1, <3>1, <4>2 DEF TenantSlips
    <3>2. CASE asking[l].doing # "rerun"
      <4>1. l \in Past
        BY <2>1, <3>2 DEF Past
      <4>2. Cardinality(Past') < Cardinality(Past) /\ Cardinality(Past') \in Nat
        BY <1>f, <2>7, <4>1, OneLess
      <4> QED
        BY <1>t, <2>1, <3>2, <4>2 DEF TenantSlips
    <3> QED
      BY <3>1, <3>2
  <2>10. TenantSpends'
    <3>1. Tenant!Allowance(plan)' = Tenant!Allowance(plan)
      BY <2>1 DEF Tenant!Allowance
    <3>2. CASE asking[l].doing # "run"
      <4>1. Tenant!GatedRuns' \subseteq Tenant!GatedRuns /\ Starting' \subseteq Starting
        BY <2>3, <2>4, <2>7, <3>2
      <4>2. /\ Cardinality(Tenant!GatedRuns') <= Cardinality(Tenant!GatedRuns)
            /\ Cardinality(Tenant!GatedRuns') \in Nat
            /\ Cardinality(Starting') <= Cardinality(Starting) /\ Cardinality(Starting') \in Nat
        BY <1>f, <4>1, Fewer
      <4>3. Starting' # {} => Starting # {}
        BY <4>1
      <4> QED
        BY <1>t, <2>1, <3>1, <4>2, <4>3 DEF TenantSpends
    <3>3. CASE asking[l].doing = "run"
      <4>1. l \in Starting /\ Tenant!GatedRuns' \subseteq Tenant!GatedRuns \cup {j}
        BY <2>1, <2>3, <2>4, <3>3 DEF Starting
      <4>2. /\ Cardinality(Tenant!GatedRuns') <= Cardinality(Tenant!GatedRuns) + 1
            /\ Cardinality(Tenant!GatedRuns') \in Nat
        BY <1>f, <4>1, OneMore
      <4>3. Cardinality(Starting') < Cardinality(Starting) /\ Cardinality(Starting') \in Nat
        BY <1>f, <2>7, <4>1, OneLess
      <4>4. Starting # {}
        BY <4>1
      <4> HIDE DEF TenantSpends
      <4>5. CASE Cardinality(Jobs) <= peak
        BY <1>t, <2>1, <3>1, <4>5 DEF TenantSpends
      <4>6. CASE ~(Cardinality(Jobs) <= peak)
        <5>1. Cardinality(Tenant!GatedRuns) + Cardinality(Starting) <= peak + (lanesOpen - 1)
          BY <1>t, <4>4, <4>6 DEF TenantSpends
        <5>2. /\ Cardinality(Tenant!GatedRuns') + Cardinality(Starting') <= peak + (lanesOpen - 1)
              /\ Cardinality(Tenant!GatedRuns') <= peak + (lanesOpen - 1)
          BY <1>t, <4>2, <4>3, <5>1
        <5> QED
          BY <1>t, <2>1, <3>1, <5>2 DEF TenantSpends
      <4> QED
        BY <4>5, <4>6
    <3> QED
      BY <3>2, <3>3
  <2> QED
    BY <2>1, <2>6, <2>7, <2>8, <2>9, <2>10 DEF TenantInv
<1>5. ASSUME NEW src \in Jobs, NEW j \in Jobs, Tenant!Requeue(src, j) PROVE TenantInv'
  <2>1. /\ job[src].made /\ Tenant!Inserted(j, job[src].kind, job[src].project, FALSE)
        /\ UNCHANGED <<plan, suspended, liveProjects, asking, lanesOpen, peak, slipped>>
    BY <1>5 DEF Tenant!Requeue
  <2>2. job[src].kind \in Tenant!Kinds /\ job[src].project \in {"project"}
    BY <1>t, <2>1 DEF TenantInv, Tenant!TypeOK, Tenant!Job
  <2>3. /\ job' \in [Jobs -> Tenant!Job] /\ Tenant!GatedRuns' \subseteq Tenant!GatedRuns
        /\ \A i \in Jobs : job'[i].made => job'[i].project # NoProject
    <3> DEFINE k == job[src].kind
    <3>1. Tenant!Inserted(j, k, "project", FALSE) /\ k \in Tenant!Kinds
      BY <2>1, <2>2
    <3> HIDE DEF k
    <3>2. /\ job' \in [Jobs -> Tenant!Job] /\ Tenant!GatedRuns' \subseteq Tenant!GatedRuns
          /\ \A i \in Jobs : job'[i].made => i = j \/ job'[i] = job[i]
          /\ job'[j].project = "project"
      BY <1>3, <3>1
    <3> QED
      BY <3>2, LimitsAssumption DEF TenantInv, Tenant!TypeOK
  <2>4. Tenant!TypeOK'
    BY <2>1, <2>3 DEF TenantInv, Tenant!TypeOK
  <2>5. Busy' = Busy /\ Starting' = Starting /\ Past' = Past
    BY <2>1 DEF Busy, Starting, Past
  <2> QED
    BY <1>t, <2>1, <2>3, <2>4, <2>5, TenantQuiet
<1>6. ASSUME NEW jobs \in [Jobs -> Tenant!Job], job' = jobs,
             \A i \in Jobs : /\ jobs[i].made = job[i].made /\ jobs[i].project = job[i].project
                             /\ jobs[i].kind = job[i].kind /\ jobs[i].gated = job[i].gated
                             /\ jobs[i].fresh => job[i].fresh,
             UNCHANGED <<plan, suspended, liveProjects, asking, lanesOpen, peak, slipped>>
      PROVE  TenantInv'
  <2>1. Tenant!TypeOK'
    BY <1>t, <1>6 DEF TenantInv, Tenant!TypeOK
  <2>2. Tenant!GatedRuns' \subseteq Tenant!GatedRuns
    BY <1>6 DEF Tenant!GatedRuns, Tenant!RunsThisMonth
  <2>3. Busy' = Busy /\ Starting' = Starting /\ Past' = Past
    BY <1>6 DEF Busy, Starting, Past
  <2> QED
    BY <1>t, <1>6, <2>1, <2>2, <2>3, TenantQuiet
<1>7. ASSUME NEW j \in Jobs, Tenant!GoDown(j) PROVE TenantInv'
  <2> DEFINE row == [job[j] EXCEPT !.down = TRUE]
             table == [job EXCEPT ![j] = row]
  <2>1. /\ row \in Tenant!Job /\ row.made = job[j].made /\ row.project = job[j].project
        /\ row.kind = job[j].kind /\ row.gated = job[j].gated /\ row.fresh = job[j].fresh
    BY <1>t DEF Tenant!Job
  <2>2. job' = table /\ UNCHANGED <<plan, suspended, liveProjects, asking, lanesOpen, peak, slipped>>
    BY <1>7 DEF Tenant!GoDown
  <2> HIDE DEF row
  <2>3. table \in [Jobs -> Tenant!Job]
    BY <1>t, <2>1
  <2>4. \A i \in Jobs : /\ table[i].made = job[i].made /\ table[i].project = job[i].project
                        /\ table[i].kind = job[i].kind /\ table[i].gated = job[i].gated
                        /\ table[i].fresh => job[i].fresh
    BY <1>t, <2>1
  <2> HIDE DEF table
  <2> QED
    BY <1>6, <2>2, <2>3, <2>4
<1>8. ASSUME Tenant!NewMonth PROVE TenantInv'
  <2> DEFINE table == [j \in Jobs |-> [job[j] EXCEPT !.fresh = FALSE]]
  <2>1. table \in [Jobs -> Tenant!Job]
    BY <1>t DEF Tenant!Job
  <2>2. \A i \in Jobs : /\ table[i].made = job[i].made /\ table[i].project = job[i].project
                        /\ table[i].kind = job[i].kind /\ table[i].gated = job[i].gated
                        /\ table[i].fresh => job[i].fresh
    BY <1>t DEF Tenant!Job
  <2>3. job' = table /\ UNCHANGED <<plan, suspended, liveProjects, asking, lanesOpen, peak, slipped>>
    BY <1>8 DEF Tenant!NewMonth
  <2> HIDE DEF table
  <2> QED
    BY <1>6, <2>1, <2>2, <2>3
<1>9. ASSUME NEW p, Tenant!DeleteProject(p) PROVE TenantInv'
  <2>1. Tenant!TypeOK'
    BY <1>9 DEF Tenant!DeleteProject, TenantInv, Tenant!TypeOK
  <2>2. Busy' = Busy /\ Starting' = Starting /\ Past' = Past /\ Tenant!GatedRuns' = Tenant!GatedRuns
    BY <1>9 DEF Tenant!DeleteProject, Busy, Starting, Past, Tenant!GatedRuns, Tenant!RunsThisMonth
  <2> QED
    BY <1>9, <1>t, <2>1, <2>2, TenantQuiet DEF Tenant!DeleteProject
<1>10. ASSUME NEW to \in BOOLEAN, Tenant!SetSuspended(to) PROVE TenantInv'
  <2>1. Tenant!TypeOK'
    BY <1>10 DEF Tenant!SetSuspended, TenantInv, Tenant!TypeOK
  <2>2. Busy' = Busy /\ Starting' = Starting /\ Past' = Past /\ Tenant!GatedRuns' = Tenant!GatedRuns
    BY <1>10 DEF Tenant!SetSuspended, Busy, Starting, Past, Tenant!GatedRuns, Tenant!RunsThisMonth
  <2>3. TenantSpends'
    BY <1>10, <1>t, <2>2 DEF Tenant!SetSuspended, TenantSpends, Tenant!Allowance
  <2>4. Cardinality(Past) <= lanesOpen - 1
    <3>1. Past \subseteq Busy
      BY DEF Past, Busy, Tenant!Nothing
    <3>2. Cardinality(Past) <= Cardinality(Busy) /\ Cardinality(Busy) < lanesOpen
      BY <1>f, <1>r, <1>10, <3>1, Fewer DEF Tenant!SetSuspended
    <3> QED
      BY <1>t, <3>2
  <2>5. TenantSlips'
    BY <1>10, <1>t, <2>2, <2>4 DEF Tenant!SetSuspended, TenantSlips
  <2> QED
    BY <1>10, <1>t, <2>1, <2>2, <2>3, <2>5 DEF TenantInv, Tenant!SetSuspended
<1>11. ASSUME NEW p \in Tenant!Plans, Tenant!SetPlan(p) PROVE TenantInv'
  <2>1. /\ UNCHANGED <<suspended, liveProjects, job, asking, lanesOpen, slipped>>
        /\ plan' = p /\ peak' = IF Tenant!Allowance(p) > peak THEN Tenant!Allowance(p) ELSE peak
    BY <1>11 DEF Tenant!SetPlan
  <2>2. Tenant!Allowance(p) \in Nat /\ Tenant!Allowance(plan)' = Tenant!Allowance(p)
    BY <1>t, <2>1, TenantCardinality DEF Tenant!Allowance
  <2>3. peak' \in Nat /\ peak' >= peak /\ peak' >= Tenant!Allowance(p)
    BY <1>t, <2>1, <2>2
  <2>4. Tenant!TypeOK'
    BY <2>1, <2>3 DEF TenantInv, Tenant!TypeOK
  <2>5. Busy' = Busy /\ Starting' = Starting /\ Past' = Past /\ Tenant!GatedRuns' = Tenant!GatedRuns
    BY <2>1 DEF Busy, Starting, Past, Tenant!GatedRuns, Tenant!RunsThisMonth
  <2>6. TenantSpends'
    BY <1>t, <2>1, <2>2, <2>3, <2>5 DEF TenantSpends
  <2>7. TenantSlips'
    BY <1>t, <2>1, <2>5 DEF TenantSlips
  <2> QED
    BY <1>t, <2>1, <2>4, <2>5, <2>6, <2>7 DEF TenantInv
<1>12. CASE UNCHANGED tenancyVars
  BY <1>12 DEF TenantInv, Tenant!TypeOK, TenantSpends, TenantSlips, Busy, Past, Starting,
               Tenant!GatedRuns, Tenant!RunsThisMonth, Tenant!Allowance
<1>13. ASSUME NEW l \in Slots, NEW j \in Jobs, Tenant!AskRerun(l, j) PROVE TenantInv'
  BY <1>1, <1>13 DEF Tenant!AskRerun, Tenant!Ask
<1> QED
  BY <1>1, <1>2, <1>4, <1>5, <1>7, <1>8, <1>9, <1>10, <1>11, <1>12, <1>13
     DEF Tenant!Next, Tenant!Kinds, Tenant!Ask

\* The bound on the runs, and on what slips past a suspension, follows.
LEMMA TenantGateHolds == TenantInv => Tenant!GateHolds
<1> SUFFICES ASSUME TenantInv PROVE Tenant!GateHolds
  OBVIOUS
<1>1. /\ peak \in Nat /\ slipped \in Nat /\ lanesOpen \in Nat /\ lanesOpen >= 1
      /\ TenantSpends /\ TenantSlips
      /\ Cardinality(Past) \in Nat /\ Cardinality(Tenant!GatedRuns) \in Nat
      /\ Cardinality(Jobs) \in Nat
  BY TenantTypes
<1>2. Cardinality(Tenant!GatedRuns) <= peak + (lanesOpen - 1)
  <2>1. Tenant!GatedRuns \subseteq Jobs
    BY DEF Tenant!GatedRuns, Tenant!RunsThisMonth
  <2>2. Cardinality(Tenant!GatedRuns) <= Cardinality(Jobs)
    BY <2>1, LimitsAssumption, Fewer
  <2> QED
    BY <1>1, <2>2 DEF TenantSpends
<1>3. slipped <= lanesOpen - 1
  <2>1. CASE suspended
    BY <1>1, <2>1 DEF TenantSlips
  <2>2. CASE ~suspended
    BY <1>1, <2>2 DEF TenantSlips
  <2> QED
    BY <2>1, <2>2
<1> QED
  BY <1>2, <1>3, TenantCardinality, Zenon DEF Tenant!GateHolds

-----------------------------------------------------------------------------
(* The limiter                                                             *)

HIDE DEF tenancyVars
USE DEF limiterVars

\* Of the hits that were let in, with the present window w: those of one window are at most
\* the limit, in a row, and windows start at least a window's length apart.
LimiterHits(hits, w) ==
  /\ \A i \in DOMAIN hits :
       /\ hits[i].since <= hits[i].at /\ hits[i].at < hits[i].since + WindowTicks
       /\ hits[i].at <= now
       /\ hits[i].since # w.start => hits[i].since + WindowTicks <= w.start
       /\ i + w.count <= Len(hits) => hits[i].since # w.start
       /\ i + Limit <= Len(hits) => hits[i + Limit].since # hits[i].since
  /\ \A i, j \in DOMAIN hits : i < j =>
       \/ hits[i].since = hits[j].since
       \/ hits[i].since + WindowTicks <= hits[j].since

LimiterInv ==
  /\ Rate!TypeOK
  /\ \A c \in {"client"} :
       /\ LimiterHits(allowed[c], window[c])
       /\ told[c] # Rate!Never => told[c] + Second >= window[c].start + WindowTicks

LEMMA LimiterTimes ==
  ASSUME NEW hits \in Seq(Rate!LetIn)
  PROVE  /\ Len(hits) \in Nat /\ DOMAIN hits = 1 .. Len(hits)
         /\ \A i \in DOMAIN hits : hits[i].since \in Nat /\ hits[i].at \in Nat
<1>1. \A i \in DOMAIN hits : hits[i] \in Rate!LetIn
  OBVIOUS
<1>2. \A h \in Rate!LetIn : h.since \in Nat /\ h.at \in Nat
  BY LimitsAssumption DEF Rate!LetIn
<1> QED
  BY <1>1, <1>2

LEMMA LimiterInit == Rate!Init => LimiterInv
<1> SUFFICES ASSUME Rate!Init PROVE LimiterInv
  OBVIOUS
<1>1. Rate!NoWindow \in [start : -1 .. now, count : 0 .. Limit + 1] /\ now = 0
  BY LimitsAssumption DEF Rate!NoWindow, Rate!Init
<1>2. Rate!TypeOK
  BY <1>1, LimitsAssumption DEF Rate!Init, Rate!TypeOK, Rate!Never
<1> QED
  BY <1>2 DEF Rate!Init, LimiterInv, LimiterHits

\* What a refused client is told is short of the window's end by less than a second.
LEMMA RetryAfterBound ==
  ASSUME NEW w \in [start : -1 .. now, count : 0 .. Limit + 1], now \in Nat,
         now < w.start + WindowTicks
  PROVE  /\ Second * Rate!RetryAfter(w) \in Nat
         /\ now + Second * Rate!RetryAfter(w) + Second >= w.start + WindowTicks
<1> DEFINE left == WindowTicks - (now - w.start)
           whole == left \div Second
<1>1. left \in Nat /\ Second \in Nat \ {0}
  BY LimitsAssumption
<1> HIDE DEF left
<1>2. whole \in Nat /\ Second * whole + Second > left
  BY <1>1
<1>3. CASE whole > 1
  <2>1. Rate!RetryAfter(w) = whole
    BY <1>3 DEF Rate!RetryAfter, left
  <2>2. Second * whole \in Nat
    BY <1>1, <1>2
  <2> QED
    BY <1>2, <2>1, <2>2, LimitsAssumption DEF left
<1>4. CASE ~(whole > 1)
  <2>1. Rate!RetryAfter(w) = 1
    BY <1>4 DEF Rate!RetryAfter, left
  <2>2. Second * whole <= Second
    <3>1. whole = 0 \/ whole = 1
      BY <1>2, <1>4
    <3> QED
      BY <1>1, <3>1
  <2> HIDE DEF whole
  <2> QED
    BY <1>1, <1>2, <2>1, <2>2, LimitsAssumption DEF left
<1> QED
  BY <1>3, <1>4

LEMMA LimiterNext == LimiterInv /\ [Rate!Next]_limiterVars => LimiterInv'
<1> SUFFICES ASSUME LimiterInv, [Rate!Next]_limiterVars PROVE LimiterInv'
  OBVIOUS
<1>l. /\ Limit \in Nat /\ Horizon \in Nat /\ WindowTicks \in Nat /\ WindowTicks > 0
      /\ Second \in Nat /\ Second > 0
  BY LimitsAssumption
<1> USE <1>l
<1>t. /\ now \in Nat /\ now <= Horizon
      /\ window \in [{"client"} -> [start : -1 .. now, count : 0 .. Limit + 1]]
      /\ allowed \in [{"client"} -> Seq(Rate!LetIn)] /\ told \in [{"client"} -> Int]
  BY DEF LimiterInv, Rate!TypeOK
<1>1. CASE Rate!Tick
  <2>1. now' = now + 1 /\ now < Horizon /\ UNCHANGED <<window, allowed, told>>
    BY <1>1 DEF Rate!Tick
  <2>2. [start : -1 .. now, count : 0 .. Limit + 1]
           \subseteq [start : -1 .. now', count : 0 .. Limit + 1]
    BY <1>t, <2>1
  <2>3. Rate!TypeOK'
    BY <1>t, <2>1, <2>2 DEF Rate!TypeOK
  <2>4. \A c \in {"client"} : \A i \in DOMAIN allowed[c] : allowed[c][i].at \in Nat
    BY <1>t, LimiterTimes
  <2> QED
    BY <1>t, <2>1, <2>3, <2>4 DEF LimiterInv, LimiterHits
<1>2. ASSUME NEW c \in {"client"}, Rate!Hit(c) PROVE LimiterInv'
  <2> DEFINE v == window[c]
             w == Rate!Current(v)
             hits == allowed[c]
             new == [at |-> now, since |-> w.start]
  <2>1. v \in [start : -1 .. now, count : 0 .. Limit + 1] /\ hits \in Seq(Rate!LetIn)
    BY <1>t
  <2>h. LimiterHits(hits, v)
    BY DEF LimiterInv
  <2> HIDE DEF v, hits
  <2>2. /\ w \in [start : -1 .. now, count : 1 .. Limit + 1]
        /\ w.start \in 0 .. now /\ now < w.start + WindowTicks
        /\ \/ w.count = 1 /\ w.start = now /\ (v.start = -1 \/ v.start + WindowTicks <= now)
           \/ /\ w.start = v.start /\ v.start # -1
              /\ w.count = IF v.count > Limit THEN v.count ELSE v.count + 1
    <3>1. CASE v.start = -1 \/ now - v.start >= WindowTicks
      <4>1. w = [start |-> now, count |-> 1]
        BY <3>1 DEF Rate!Current
      <4> QED
        BY <1>t, <2>1, <3>1, <4>1
    <3>2. CASE ~(v.start = -1 \/ now - v.start >= WindowTicks)
      <4> DEFINE n == IF v.count > Limit THEN v.count ELSE v.count + 1
      <4>1. w = [v EXCEPT !.count = n]
        BY <3>2 DEF Rate!Current
      <4>2. n \in 1 .. Limit + 1
        BY <2>1
      <4> HIDE DEF w
      <4>3. w.start = v.start /\ w.count = n /\ w = [start |-> v.start, count |-> n]
        BY <2>1, <4>1
      <4> HIDE DEF n
      <4>4. w \in [start : -1 .. now, count : 1 .. Limit + 1]
        BY <1>t, <2>1, <4>2, <4>3
      <4> QED
        BY <1>t, <2>1, <3>2, <4>2, <4>3, <4>4 DEF n
    <3> QED
      BY <3>1, <3>2
  <2>3. /\ window' = [window EXCEPT ![c] = w] /\ now' = now
        /\ \/ /\ w.count > Limit /\ allowed' = allowed
              /\ told' = [told EXCEPT ![c] = now + Second * Rate!RetryAfter(w)]
           \/ /\ w.count <= Limit
              /\ allowed' = [allowed EXCEPT ![c] = Append(hits, new)]
              /\ told' = [told EXCEPT ![c] = Rate!Never]
    BY <1>2, <2>2 DEF Rate!Hit, v, hits
  <2> HIDE DEF w
  <2>4. /\ new \in Rate!LetIn /\ new.at = now /\ new.since = w.start
    BY <1>t, <2>2 DEF Rate!LetIn
  <2> HIDE DEF new
  <2>5. /\ Len(hits) \in Nat /\ DOMAIN hits = 1 .. Len(hits)
        /\ \A i \in DOMAIN hits : hits[i].since \in Nat /\ hits[i].at \in Nat
    BY <2>1, LimiterTimes
  <2>6. \A i \in DOMAIN hits :
          /\ hits[i].since # w.start => hits[i].since + WindowTicks <= w.start
          /\ w.count <= Limit /\ i + w.count <= Len(hits) + 1 => hits[i].since # w.start
          /\ i + w.count <= Len(hits) => hits[i].since # w.start
    <3> SUFFICES ASSUME NEW i \in DOMAIN hits
                 PROVE  /\ hits[i].since # w.start => hits[i].since + WindowTicks <= w.start
                        /\ w.count <= Limit /\ i + w.count <= Len(hits) + 1 =>
                             hits[i].since # w.start
                        /\ i + w.count <= Len(hits) => hits[i].since # w.start
      OBVIOUS
    <3>1. /\ hits[i].since # v.start => hits[i].since + WindowTicks <= v.start
          /\ i + v.count <= Len(hits) => hits[i].since # v.start
          /\ hits[i].since <= now /\ hits[i].since \in Nat
      <4>1. /\ hits[i].since # v.start => hits[i].since + WindowTicks <= v.start
            /\ i + v.count <= Len(hits) => hits[i].since # v.start
            /\ hits[i].since <= hits[i].at /\ hits[i].at <= now
        BY <2>h DEF LimiterHits
      <4>2. now \in Nat /\ hits[i].since \in Nat /\ hits[i].at \in Nat
        BY <1>t, <2>5
      <4> QED
        BY <4>1, <4>2
    <3>2. v.start \in Int /\ v.count \in Nat /\ i \in Nat
      BY <2>1, <2>5
    <3>3. CASE w.count = 1 /\ w.start = now /\ (v.start = -1 \/ v.start + WindowTicks <= now)
      <4> DEFINE s == hits[i].since
      <4>1. s \in Nat /\ s <= now /\ now \in Nat /\ (s # v.start => s + WindowTicks <= v.start)
        BY <1>t, <3>1
      <4> HIDE DEF s
      <4>2. v.start = -1 => s # v.start /\ ~(s + WindowTicks <= v.start)
        BY <4>1
      <4>3. v.start + WindowTicks <= now
        BY <3>3, <4>1, <4>2
      <4>4. s + WindowTicks <= now
        BY <3>2, <4>1, <4>3
      <4>5. s # now
        BY <4>1, <4>4
      <4>6. s # w.start /\ s + WindowTicks <= w.start
        BY <3>3, <4>4, <4>5
      <4> QED
        BY <4>6 DEF s
    <3>4. CASE /\ w.start = v.start /\ v.start # -1
               /\ w.count = IF v.count > Limit THEN v.count ELSE v.count + 1
      <4>1. hits[i].since # w.start => hits[i].since + WindowTicks <= w.start
        BY <3>1, <3>4
      <4>2. CASE v.count > Limit
        BY <2>5, <3>1, <3>2, <3>4, <4>1, <4>2
      <4>3. CASE ~(v.count > Limit)
        <5>1. w.count = v.count + 1
          BY <3>4, <4>3
        <5> QED
          BY <2>5, <3>1, <3>2, <3>4, <4>1, <5>1
      <4> QED
        BY <4>2, <4>3
    <3> QED
      BY <2>2, <3>3, <3>4
  <2>7. CASE w.count > Limit /\ allowed' = allowed
    <3>1. /\ Second * Rate!RetryAfter(w) \in Nat
          /\ now + Second * Rate!RetryAfter(w) + Second >= w.start + WindowTicks
      BY <1>t, <2>2, RetryAfterBound
    <3>2. told' = [told EXCEPT ![c] = now + Second * Rate!RetryAfter(w)]
      BY <2>2, <2>3, <2>7
    <3>3. Rate!TypeOK'
      BY <1>t, <2>2, <2>3, <2>7, <3>1, <3>2 DEF Rate!TypeOK
    <3>4. LimiterHits(hits, w)
      BY <2>6, <2>h DEF LimiterHits
    <3>5. LimiterHits(allowed[c], window[c])'
      BY <1>t, <2>3, <2>7, <3>4 DEF LimiterHits, hits
    <3> QED
      BY <1>t, <2>2, <2>3, <3>1, <3>2, <3>3, <3>5 DEF LimiterInv
  <2>8. CASE w.count <= Limit /\ allowed' = [allowed EXCEPT ![c] = Append(hits, new)]
    <3> DEFINE more == Append(hits, new)
    <3>1. told' = [told EXCEPT ![c] = Rate!Never]
      BY <2>2, <2>3, <2>8
    <3>2. more \in Seq(Rate!LetIn)
      BY <2>1, <2>4
    <3>3. Rate!TypeOK'
      BY <1>t, <2>2, <2>3, <2>8, <3>1, <3>2 DEF Rate!TypeOK, Rate!Never
    <3>4. /\ Len(more) = Len(hits) + 1 /\ DOMAIN more = 1 .. Len(hits) + 1
          /\ more[Len(hits) + 1] = new
          /\ \A i \in DOMAIN hits : more[i] = hits[i]
      BY <2>1, <2>4, <2>5
    <3> HIDE DEF more
    <3>5. ASSUME NEW i \in DOMAIN more
          PROVE  /\ more[i].since <= more[i].at /\ more[i].at < more[i].since + WindowTicks
                 /\ more[i].at <= now
                 /\ more[i].since # w.start => more[i].since + WindowTicks <= w.start
                 /\ i + w.count <= Len(more) => more[i].since # w.start
                 /\ i + Limit <= Len(more) => more[i + Limit].since # more[i].since
      <4>1. CASE i = Len(hits) + 1
        <5>1. more[i].since = w.start /\ more[i].at = now
          BY <2>4, <3>4, <4>1
        <5>2. /\ w.start \in 0 .. now /\ now < w.start + WindowTicks /\ w.count \in Nat
              /\ w.count >= 1 /\ now \in Nat /\ Limit >= 1
          BY <1>t, <2>2, <2>8
        <5>3. ~(i + w.count <= Len(more)) /\ ~(i + Limit <= Len(more))
          BY <2>5, <3>4, <4>1, <5>2
        <5> QED
          BY <5>1, <5>2, <5>3
      <4>2. CASE i \in DOMAIN hits
        <5>1. more[i] = hits[i] /\ i \in 1 .. Len(hits)
          BY <2>5, <3>4, <4>2
        <5>2. i + Limit <= Len(hits) => more[i + Limit].since # more[i].since
          <6> SUFFICES ASSUME i + Limit <= Len(hits) PROVE more[i + Limit].since # more[i].since
            OBVIOUS
          <6>1. i + Limit \in DOMAIN hits
            BY <2>5, <5>1
          <6> QED
            BY <2>h, <3>4, <4>2, <5>1, <6>1 DEF LimiterHits
        <5>3. i + Limit = Len(hits) + 1 => more[i + Limit].since # more[i].since
          <6> SUFFICES ASSUME i + Limit = Len(hits) + 1
                       PROVE  more[i + Limit].since # more[i].since
            OBVIOUS
          <6>1. more[i + Limit].since = w.start
            BY <2>4, <3>4
          <6>2. hits[i].since # w.start
            BY <2>2, <2>5, <2>6, <2>8, <4>2, <5>1
          <6> QED
            BY <5>1, <6>1, <6>2
        <5>4. /\ hits[i].since <= hits[i].at /\ hits[i].at < hits[i].since + WindowTicks
              /\ hits[i].at <= now
          BY <2>h, <4>2 DEF LimiterHits
        <5>5. /\ hits[i].since # w.start => hits[i].since + WindowTicks <= w.start
              /\ i + w.count <= Len(hits) + 1 => hits[i].since # w.start
          BY <2>6, <2>8, <4>2
        <5> QED
          BY <2>5, <3>4, <5>1, <5>2, <5>3, <5>4, <5>5
      <4> QED
        BY <2>5, <3>4, <4>1, <4>2
    <3>6. ASSUME NEW i \in DOMAIN more, NEW j \in DOMAIN more, i < j
          PROVE  \/ more[i].since = more[j].since
                 \/ more[i].since + WindowTicks <= more[j].since
      <4>1. i \in DOMAIN hits /\ i \in Nat /\ j \in Nat
        BY <2>5, <3>4, <3>6
      <4>2. CASE j \in DOMAIN hits
        BY <2>h, <3>4, <3>6, <4>1, <4>2 DEF LimiterHits
      <4>3. CASE j = Len(hits) + 1
        <5>1. more[i].since # w.start => more[i].since + WindowTicks <= w.start
          BY <3>5
        <5>2. more[j].since = w.start
          BY <2>4, <3>4, <4>3
        <5> QED
          BY <5>1, <5>2
      <4> QED
        BY <2>5, <3>4, <4>2, <4>3
    <3>7. LimiterHits(more, w)
      BY <3>5, <3>6 DEF LimiterHits
    <3>8. allowed'[c] = more /\ window'[c] = w /\ now' = now
      BY <1>t, <2>3, <2>8 DEF more
    <3>9. LimiterHits(allowed[c], window[c])'
      BY <3>7, <3>8 DEF LimiterHits
    <3> QED
      BY <1>t, <3>1, <3>3, <3>9 DEF LimiterInv
  <2> QED
    BY <2>3, <2>7, <2>8
<1>3. CASE UNCHANGED limiterVars
  BY <1>3 DEF LimiterInv, LimiterHits, Rate!TypeOK
<1> QED
  BY <1>1, <1>2, <1>3 DEF Rate!Next

LEMMA LimiterCardinality == \A S : Rate!Cardinality(S) = Cardinality(S)
BY DEF Rate!Cardinality, Cardinality

\* No more than twice the limit are let in within a window's length.
LEMMA LimiterStretch ==
  ASSUME LimiterInv, NEW c \in {"client"}, NEW a \in 0 .. now
  PROVE  Rate!Cardinality(Rate!InStretch(c, a)) <= 2 * Limit
<1>l. /\ Limit \in Nat /\ Horizon \in Nat /\ WindowTicks \in Nat /\ WindowTicks > 0
      /\ Second \in Nat /\ Second > 0
  BY LimitsAssumption
<1> USE <1>l
<1> DEFINE hits == allowed[c]
           S == Rate!InStretch(c, a)
<1>1. hits \in Seq(Rate!LetIn) /\ now \in Nat /\ LimiterHits(hits, window[c])
  BY DEF LimiterInv, Rate!TypeOK
<1>2. \A i : i \in S <=> i \in DOMAIN hits /\ a <= hits[i].at /\ hits[i].at < a + WindowTicks
  BY DEF Rate!InStretch
<1> HIDE DEF hits, S
<1>3. /\ Len(hits) \in Nat /\ DOMAIN hits = 1 .. Len(hits)
      /\ \A i \in DOMAIN hits : hits[i].since \in Nat /\ hits[i].at \in Nat
  BY <1>1, LimiterTimes
<1>4. CASE S = {}
  BY <1>4, FS_EmptySet, LimiterCardinality DEF S
<1>5. CASE S # {}
  <2>1. S \subseteq Nat
    BY <1>2, <1>3
  <2>2. PICK m \in S : \A i \in S : m <= i
    BY <1>5, <2>1, NatLeast
  <2>3. S \subseteq m .. m + 2 * Limit - 1
    <3> SUFFICES ASSUME NEW i \in S, ~(i <= m + 2 * Limit - 1) PROVE FALSE
      BY <2>1, <2>2
    <3> DEFINE j == m + Limit
               k == m + 2 * Limit
    <3>1. /\ m \in DOMAIN hits /\ j \in DOMAIN hits /\ k \in DOMAIN hits /\ i \in DOMAIN hits
          /\ m <= j /\ k = j + Limit /\ k <= i /\ m + Limit <= Len(hits)
          /\ j + Limit <= Len(hits) /\ m \in Nat /\ i \in Nat
      BY <1>2, <1>3, <2>1
    <3> HIDE DEF j, k
    <3>2. hits[j].since # hits[m].since /\ hits[k].since # hits[j].since
      BY <1>1, <3>1 DEF LimiterHits, j
    <3>3. j \in Nat /\ k \in Nat /\ m < j /\ j < k
      <4>1. j # m /\ k # j /\ Limit \in Nat
        BY <3>2
      <4>2. j = m + Limit /\ k = j + Limit /\ m \in Nat
        BY <3>1 DEF j
      <4> QED
        BY <4>1, <4>2
    <3>4. hits[m].since + WindowTicks <= hits[j].since
      BY <1>1, <3>1, <3>2, <3>3 DEF LimiterHits
    <3>5. hits[j].since + WindowTicks <= hits[k].since
      BY <1>1, <3>1, <3>2, <3>3 DEF LimiterHits
    <3>6. hits[k].since <= hits[i].since
      <4>1. k = i \/ k < i
        BY <3>1, <3>3
      <4>2. CASE k < i
        <5>1. \/ hits[k].since = hits[i].since
              \/ hits[k].since + WindowTicks <= hits[i].since
          BY <1>1, <3>1, <4>2 DEF LimiterHits
        <5>2. hits[k].since \in Nat /\ hits[i].since \in Nat
          BY <1>3, <3>1
        <5> QED
          BY <5>1, <5>2
      <4>3. CASE k = i
        BY <1>3, <3>1, <4>3
      <4> QED
        BY <4>1, <4>2, <4>3
    <3>7. hits[i].since <= hits[i].at /\ hits[m].at < hits[m].since + WindowTicks
      BY <1>1, <3>1 DEF LimiterHits
    <3>8. a <= hits[m].at /\ hits[i].at < a + WindowTicks
      BY <1>2
    <3>9. /\ hits[m].since \in Nat /\ hits[j].since \in Nat /\ hits[k].since \in Nat
          /\ hits[i].since \in Nat /\ hits[m].at \in Nat /\ hits[i].at \in Nat
      BY <1>3, <3>1
    <3>10. a \in Nat /\ WindowTicks \in Nat
      BY <1>1
    <3>11. hits[m].at < hits[j].since
      BY <3>4, <3>7, <3>9, <3>10
    <3>12. hits[j].since + WindowTicks <= hits[i].at
      BY <3>5, <3>6, <3>7, <3>9, <3>10
    <3> QED
      BY <3>8, <3>9, <3>10, <3>11, <3>12
  <2>4. m \in Nat
    BY <2>1, <2>2
  <2>5. /\ IsFiniteSet(m .. m + 2 * Limit - 1)
        /\ Cardinality(m .. m + 2 * Limit - 1) = IF m > m + 2 * Limit - 1 THEN 0
                                                 ELSE m + 2 * Limit - 1 - m + 1
    BY <2>4, FS_Interval
  <2>6. Cardinality(S) <= Cardinality(m .. m + 2 * Limit - 1) /\ Cardinality(S) \in Nat
    BY <2>3, <2>5, Fewer
  <2>7. Cardinality(S) <= 2 * Limit
    BY <2>4, <2>5, <2>6
  <2> QED
    BY <2>7, LimiterCardinality, Zenon DEF S
<1> QED
  BY <1>4, <1>5

LEMMA LimiterHoldsFollows == LimiterInv => Rate!LimiterHolds
BY LimiterStretch DEF LimiterInv, Rate!LimiterHolds

-----------------------------------------------------------------------------
(* The specification                                                       *)

USE DEF tenancyVars

\* Whichever component is in focus, the gate and the limiter take steps of their own.
LEMMA LimitsInit == Init => TenantInv /\ LimiterInv
BY TenantInit, LimiterInit DEF Init

LEMMA LimitsNext == TenantInv /\ LimiterInv /\ [Next]_vars => (TenantInv /\ LimiterInv)'
<1> SUFFICES ASSUME TenantInv, LimiterInv, [Next]_vars PROVE (TenantInv /\ LimiterInv)'
  OBVIOUS
<1>1. [Tenant!Next]_tenancyVars /\ [Rate!Next]_limiterVars
  BY DEF Next, vars
<1> QED
  BY <1>1, TenantNext, LimiterNext

\* The types of the gate's rows and requests, and of the limiter's windows and hits.
THEOREM LimitsTypesHold == Spec => [](Tenant!TypeOK /\ Rate!TypeOK)
<1>1. TenantInv /\ LimiterInv => Tenant!TypeOK /\ Rate!TypeOK
  BY DEF TenantInv, LimiterInv
<1> QED
  BY LimitsInit, LimitsNext, <1>1, PTL DEF Spec

\* The gate between a member's request and the job queue (api/quota.py) counts rows and locks
\* none: for every number of jobs and of requests, the runs that pass it in a month exceed the
\* largest allowance in force by fewer than the requests that overlapped, as do the jobs that
\* slip past a suspension.  The limiter (core/rate_limit.py) lets no stretch of a window's
\* length have more than twice its limit, and never tells a client to come back too early.
THEOREM LimitsHoldHolds == Spec => []LimitsHold
<1>1. TenantInv /\ LimiterInv => LimitsHold
  BY TenantGateHolds, LimiterHoldsFollows DEF LimitsHold
<1> QED
  BY LimitsInit, LimitsNext, <1>1, PTL DEF Spec
=============================================================================
