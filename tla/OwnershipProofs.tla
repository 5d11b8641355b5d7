-------------------------- MODULE OwnershipProofs ---------------------------
(***************************************************************************)
(* The steps that move claims, start runs, recover them or come from       *)
(* outside keep Ownership too, and what follows from it for every          *)
(* behaviour of the runtime.                                               *)
(***************************************************************************)
EXTENDS JobRuntimeProofs

\* Most leaves are first-order; SMT, slow to encode large contexts, comes second.
USE ZenonT(10), SMTT(30)

-----------------------------------------------------------------------------
(* Claims that come and go without a run being touched.                    *)

\* A claim inserted on an unclaimed device disturbs nobody.
LEMMA InsertKeeps ==
  ASSUME Ownership, TypeOK', NEW d \in Devices, NEW k \in 0 .. MaxJobs, claim[d] = NoClaim,
         claim' = [claim EXCEPT ![d] = [token |-> nextToken, job |-> k]], nextToken' = nextToken + 1,
         UNCHANGED <<job, lastJob, exe, scan>>,
         live'[d] # "unborn", \A e \in Devices \ {d} : live'[e] = live[e] /\ ep'[e] = ep[e],
         k # 0 => job[k].status # "absent" /\ job[k].type = "provision" /\ ep'[d] = ep[d]
  PROVE  /\ \A v \in Workers : pc'[v] = pc[v] /\ wk'[v] = wk[v] => WorkerOK(v)'
         /\ \A e \in Devices : ClaimRow(e)'
         /\ \A j \in Jobs : JobRow(j)'
         /\ ScanOK'
<1> USE ConstantsFacts
<1>0. TypeOK /\ StoreTypeOK /\ nextToken \in Nat \ {0}
  BY TypesAt DEF Ownership
<1>1. /\ claim'[d].token = nextToken /\ claim'[d].job = k
      /\ \A e \in Devices \ {d} : claim'[e] = claim[e]
      /\ claim[d].token = 0 /\ claim[d].job = 0
  BY SMTT(30), <1>0 DEF StoreTypeOK, NoClaim
<1>2. ASSUME NEW v \in Workers, pc'[v] = pc[v], wk'[v] = wk[v] PROVE WorkerOK(v)'
  <2>2. wk[v].token \in Nat /\ wk[v].token < nextToken /\ WorkerOK(v)
    BY <1>0, TypesAt DEF Ownership, Unique
  <2>3. wk[v].token # 0 => wk[v].dev \in Devices
    BY SMTT(30), <1>0, <2>2 DEF WorkerOK, PlacedAt, TypeOK, PC, Busy, Unregistered
  <2>4. Undisturbed(v)
    BY SMTT(30), <1>0, <1>1, <1>2, <2>2, <2>3 DEF Undisturbed, Holds
  <2> QED BY <2>2, <2>4, UndisturbedOK
<1>3. ASSUME NEW e \in Devices PROVE ClaimRow(e)'
  <2>1. CASE e = d
    <3>1. k # 0 => ep'[d] < nextToken /\ ep'[d] \in Nat
      BY <1>0, TypesAt DEF Ownership, Unique
    <3> QED BY SMTT(30), <1>0, <1>1, <2>1, <3>1 DEF ClaimRow
  <2>2. CASE e # d
    BY SMTT(30), <1>1, <2>2 DEF Ownership, ClaimRow
  <2> QED BY <2>1, <2>2
<1>4. ASSUME NEW j \in Jobs PROVE JobRow(j)'
  <2>1. JobRow(j)
    BY DEF Ownership
  <2>2. job[j].type # "provision" /\ job[j].status = "running" => claim'[job[j].dev].job = j
    BY <1>1, <2>1 DEF JobRow
  <2> QED BY <2>1, <2>2 DEF JobRow
<1> QED BY <1>2, <1>3, <1>4 DEF Ownership, ScanOK

\* Deleting a claim that names no device-bound job disturbs only its holder.
LEMMA DeleteKeeps ==
  ASSUME Ownership, NEW d \in Devices, claim' = [claim EXCEPT ![d] = NoClaim] \/ claim' = claim,
         claim[d].job = 0 \/ job[claim[d].job].type = "provision",
         UNCHANGED <<job, lastJob, exe, live, scan>>,
         \A e \in Devices : ep'[e] \in {0, ep[e]}
  PROVE  /\ \A v \in Workers :
              /\ pc'[v] = pc[v] /\ wk'[v] = wk[v]
              /\ claim' = claim \/ claim[d].token = 0 \/ wk[v].token # claim[d].token
              => WorkerOK(v)'
         /\ \A e \in Devices : ClaimRow(e)'
         /\ \A j \in Jobs : JobRow(j)'
         /\ ScanOK'
<1> USE ConstantsFacts
<1>0. TypeOK /\ StoreTypeOK
  BY DEF Ownership, TypeOK
<1>1. /\ \A e \in Devices \ {d} : claim'[e] = claim[e]
      /\ claim' = claim \/ (claim'[d].token = 0 /\ claim'[d].job = 0 /\ claim'[d] = NoClaim)
  BY SMTT(30), <1>0 DEF StoreTypeOK, NoClaim
<1>2. ASSUME NEW v \in Workers, pc'[v] = pc[v], wk'[v] = wk[v],
             claim' = claim \/ claim[d].token = 0 \/ wk[v].token # claim[d].token
      PROVE  WorkerOK(v)'
  <2>1. WorkerOK(v)
    BY DEF Ownership
  <2>2. wk[v].token # 0 => wk[v].dev \in Devices
    BY SMTT(30), <1>0, <2>1 DEF WorkerOK, PlacedAt, TypeOK, PC, Busy, Unregistered
  <2>3. Undisturbed(v)
    BY SMTT(30), <1>1, <1>2, <2>2 DEF Undisturbed, Holds
  <2> QED BY <2>1, <2>3, UndisturbedOK
<1>3. ASSUME NEW e \in Devices PROVE ClaimRow(e)'
  <2>1. CASE claim'[e] = claim[e]
    BY <2>1 DEF Ownership, ClaimRow
  <2>2. CASE claim'[e] = NoClaim
    BY SMTT(30), <2>2 DEF ClaimRow, NoClaim
  <2> QED BY <1>1, <2>1, <2>2
<1>4. ASSUME NEW j \in Jobs PROVE JobRow(j)'
  <2>1. JobRow(j) /\ job' = job /\ lastJob' = lastJob /\ exe' = exe
    BY DEF Ownership
  <2>2. CASE job[j].type # "provision" /\ job[j].status = "running"
    <3>1. job[j].dev \in Devices /\ claim[job[j].dev].job = j /\ j # 0
      BY <2>1, <2>2 DEF JobRow
    <3>2. job[j].dev # d
      BY <2>2, <3>1
    <3>3. claim'[job[j].dev].job = j
      BY <1>1, <3>1, <3>2
    <3> QED BY <2>1, <3>3 DEF JobRow
  <2>3. CASE ~(job[j].type # "provision" /\ job[j].status = "running")
    BY <2>1, <2>3 DEF JobRow
  <2> QED BY <2>2, <2>3
<1> QED BY <1>2, <1>3, <1>4 DEF Ownership, ScanOK

\* A token that was just minted is nobody else's.
LEMMA MintUnique ==
  ASSUME TypeOK, Unique, nextToken' = nextToken + 1,
         NEW d \in Devices, NEW k, claim' = [claim EXCEPT ![d] = [token |-> nextToken, job |-> k]],
         \/ /\ ep' = ep
            /\ \E w \in Workers :
                 /\ \A v \in Workers \ {w} : wk'[v] = wk[v]
                 /\ wk'[w].token \in {0, wk[w].token, nextToken}
                 /\ wk'[w].job = 0 \/ (wk'[w].job = wk[w].job /\ wk'[w].attempt = wk[w].attempt)
         \/ wk' = wk /\ ep' = [ep EXCEPT ![d] = nextToken]
  PROVE  Unique'
<1>0. nextToken \in Nat /\ nextToken' = nextToken + 1
  BY TypesAt
<1>1. \A e \in Devices : claim'[e].token \in {claim[e].token, nextToken} /\ ep'[e] \in {ep[e], nextToken}
  BY DEF TypeOK, StoreTypeOK
<1>2. \A e \in Devices : claim'[e].token < nextToken' /\ ep'[e] < nextToken'
  BY SMTT(30), <1>0, <1>1, TypesAt DEF Unique
<1>3. CASE ~(wk' = wk /\ ep' = [ep EXCEPT ![d] = nextToken])
  <2>1. PICK w \in Workers :
          /\ \A v \in Workers \ {w} : wk'[v] = wk[v]
          /\ wk'[w].token \in {0, wk[w].token, nextToken}
          /\ wk'[w].job = 0 \/ (wk'[w].job = wk[w].job /\ wk'[w].attempt = wk[w].attempt)
    BY <1>3
  <2>2. \A v \in Workers : wk'[v].token < nextToken'
    BY SMTT(30), <1>0, <2>1, TypesAt DEF Unique
  <2>3. ASSUME NEW u \in Workers, NEW v \in Workers, u # v
        PROVE  /\ wk'[u].token # 0 => wk'[u].token # wk'[v].token
               /\ wk'[u].job # 0 /\ wk'[u].job = wk'[v].job => wk'[u].attempt # wk'[v].attempt
    <3>1. CASE u = w
      BY SMTT(30), <1>0, <2>1, <2>3, <3>1, TypesAt DEF Unique
    <3>2. CASE v = w
      BY SMTT(30), <1>0, <2>1, <2>3, <3>2, TypesAt DEF Unique
    <3>3. CASE u # w /\ v # w
      BY SMTT(30), <2>1, <2>3, <3>3 DEF Unique
    <3> QED BY <3>1, <3>2, <3>3
  <2>4. \A v \in Workers, e \in Devices : ep'[e] # 0 => ep'[e] # wk'[v].token
    BY SMTT(30), <1>0, <1>3, <2>1, TypesAt DEF Unique
  <2> QED BY <1>2, <2>2, <2>3, <2>4 DEF Unique
<1>4. CASE wk' = wk /\ ep' = [ep EXCEPT ![d] = nextToken]
  <2>1. \A v \in Workers : wk'[v].token < nextToken'
    BY SMTT(30), <1>0, <1>4, TypesAt DEF Unique
  <2>2. \A v \in Workers, e \in Devices : ep'[e] # 0 => ep'[e] # wk'[v].token
    BY SMTT(30), <1>0, <1>1, <1>4, TypesAt DEF Unique
  <2> QED BY <1>2, <1>4, <2>1, <2>2 DEF Unique
<1> QED BY <1>3, <1>4

LEMMA InsertTypes ==
  ASSUME TypeOK, NEW d \in Devices, NEW k \in 0 .. MaxJobs, nextToken <= MaxTokens,
         claim' = [claim EXCEPT ![d] = [token |-> nextToken, job |-> k]], nextToken' = nextToken + 1,
         live' = live \/ live' = [live EXCEPT ![d] = "live"],
         ep' = ep \/ ep' = [ep EXCEPT ![d] = nextToken],
         pc' \in [Workers -> PC], wk' \in [Workers -> Registration],
         UNCHANGED <<job, lastJob, gen, lastGen, settleSeq, exe, wire, scan, up, crashes>>
  PROVE  TypeOK' /\ live' \in [Devices -> {"unborn", "live", "gone"}]
<1> USE ConstantsFacts
<1>1. nextToken \in 1 .. MaxTokens /\ nextToken' \in 1 .. MaxTokens + 1
  BY SMTT(30) DEF TypeOK, StoreTypeOK
<1>2. claim' \in [Devices -> Claim]
  BY SMTT(30), <1>1 DEF TypeOK, StoreTypeOK, Claim
<1>3. ep' \in [Devices -> 0 .. MaxTokens] /\ live' \in [Devices -> {"unborn", "live", "gone"}]
  <2>1. ep' \in [Devices -> 0 .. MaxTokens]
    BY SMTT(30), <1>1 DEF TypeOK
  <2>2. live' \in [Devices -> {"unborn", "live", "gone"}]
    BY DEF TypeOK, StoreTypeOK
  <2> QED BY <2>1, <2>2
<1> QED BY <1>1, <1>2, <1>3 DEF TypeOK, StoreTypeOK

LEMMA AcquireClaimStep ==
  ASSUME Ownership, NEW w \in Workers, AcquireClaim(w)
  PROVE  Ownership'
<1> USE ConstantsFacts, UnregisteredType
<1>0. /\ TypeOK /\ WorkerOK(w) /\ pc[w] = "found" /\ wk[w] \in Registration /\ wk[w].job = 0
      /\ wk[w].token = 0 /\ nextToken \in Nat \ {0}
  BY TypesAt DEF Ownership, AcquireClaim, TypeOK, WorkerOK, PlacedAt
<1>1. PICK d \in Devices : wk[w].dev = d
  BY <1>0 DEF WorkerOK, PlacedAt
<1>2. /\ claim[d] = NoClaim /\ live[d] = "live" /\ nextToken <= MaxTokens
      /\ claim' = [claim EXCEPT ![d] = [token |-> nextToken, job |-> 0]] /\ nextToken' = nextToken + 1
      /\ UNCHANGED <<job, lastJob, gen, lastGen, settleSeq, exe, live, wire, ep, scan, up, crashes>>
  BY <1>1 DEF AcquireClaim, InsertClaim
<1>3. /\ pc' \in [Workers -> PC] /\ wk' \in [Workers -> Registration]
      /\ \A v \in Workers \ {w} : pc'[v] = pc[v] /\ wk'[v] = wk[v]
      /\ \/ pc'[w] = "idle" /\ wk'[w] = Unregistered
         \/ pc'[w] = "claimed" /\ wk'[w].token = nextToken /\ wk'[w].dev = d /\ wk'[w].job = 0
  <2>1. nextToken \in 0 .. MaxTokens /\ pc \in [Workers -> PC] /\ wk \in [Workers -> Registration]
    BY SMTT(30), <1>0, <1>2 DEF TypeOK
  <2>2. [wk[w] EXCEPT !.token = nextToken] \in Registration
    BY <1>0, <2>1 DEF Registration
  <2>3. CASE Leave(w, "idle")
    BY <2>1, <2>3 DEF Leave, Goto, PC
  <2>4. CASE Goto(w, "claimed") /\ wk' = [wk EXCEPT ![w] = [wk[w] EXCEPT !.token = nextToken]]
    <3>1. wk'[w] = [wk[w] EXCEPT !.token = nextToken]
      BY <2>1, <2>4
    <3>2. wk'[w].token = nextToken /\ wk'[w].dev = d /\ wk'[w].job = 0
      BY <1>0, <1>1, <3>1 DEF Registration
    <3> QED BY <2>1, <2>2, <2>4, <3>2 DEF Goto, PC
  <2> QED BY <2>3, <2>4 DEF AcquireClaim
<1>4. 0 \in 0 .. MaxJobs
  BY SMTT(30)
<1>5. TypeOK'
  BY <1>0, <1>2, <1>3, <1>4, InsertTypes
<1>6. Unique'
  <2>1. wk'[w].token \in {0, wk[w].token, nextToken} /\ wk'[w].job = 0
    BY SMTT(30), <1>3 DEF Unregistered
  <2> QED BY <1>0, <1>2, <1>3, <2>1, MintUnique DEF Ownership
<1>7. /\ \A v \in Workers : pc'[v] = pc[v] /\ wk'[v] = wk[v] => WorkerOK(v)'
      /\ \A e \in Devices : ClaimRow(e)'
      /\ \A j \in Jobs : JobRow(j)'
      /\ ScanOK'
  BY <1>2, <1>4, <1>5, InsertKeeps
<1>8. WorkerOK(w)'
  <2>1. CASE pc'[w] = "idle" /\ wk'[w] = Unregistered
    BY <2>1, IdleOK
  <2>2. CASE pc'[w] = "claimed" /\ wk'[w].token = nextToken /\ wk'[w].dev = d /\ wk'[w].job = 0
    <3>1. claim'[d].job = 0
      BY <1>0, <1>2 DEF TypeOK, StoreTypeOK
    <3> QED BY <1>0, <2>2, <3>1 DEF WorkerOK, PlacedAt, KindAt, HeldAt, CurrentAt, SendingAt, Busy, Executing
  <2> QED BY <1>3, <2>1, <2>2
<1>9. \A v \in Workers : WorkerOK(v)'
  BY <1>3, <1>7, <1>8
<1> QED BY <1>5, <1>6, <1>7, <1>9 DEF Ownership

\* A provision that claims a device while it runs.
LEMMA ProvisionClaimStep ==
  ASSUME Ownership, NEW w \in Workers, NEW d \in Devices, ProvisionInsert(w, d) \/ ProvisionAcquire(w, d)
  PROVE  Ownership'
<1> USE ConstantsFacts
<1>0. pc[w] = "run" /\ pc[w] \in Busy /\ wk[w].token = 0 /\ Runs(w, {"provision"}) /\ nextToken <= MaxTokens
  BY DEF ProvisionInsert, ProvisionAcquire, InsertClaim, Busy, Executing
<1>1. PICK j \in Jobs, a \in Nat : wk[w].job = j /\ wk[w].attempt = a
  BY <1>0, BusyFacts
<1>2. /\ TypeOK /\ WorkerOK(w) /\ wk[w] \in Registration /\ nextToken \in Nat \ {0} /\ j \in 0 .. MaxJobs
      /\ job[j].status # "absent" /\ job[j].type = "provision" /\ claim[d] = NoClaim /\ claim \in [Devices -> Claim]
  <2>1. claim[d] = NoClaim
    BY DEF ProvisionInsert, ProvisionAcquire, InsertClaim, Ownership, ClaimRow
  <2> QED BY <1>0, <1>1, <2>1, BusyFacts, TypesAt DEF TypeOK, StoreTypeOK, Jobs, Runs
<1>3. /\ claim' = [claim EXCEPT ![d] = [token |-> nextToken, job |-> j]] /\ nextToken' = nextToken + 1
      /\ live' = live \/ live' = [live EXCEPT ![d] = "live"]
      /\ wk' = [wk EXCEPT ![w].dev = d, ![w].token = nextToken]
      /\ pc' = pc \/ pc' = [pc EXCEPT ![w] = "linking"]
      /\ UNCHANGED <<job, lastJob, gen, lastGen, settleSeq, exe, wire, ep, scan, up, crashes>>
  BY <1>1 DEF ProvisionInsert, ProvisionAcquire, InsertClaim, Goto
<1>4. /\ pc' \in [Workers -> PC] /\ wk' \in [Workers -> Registration]
      /\ \A v \in Workers \ {w} : pc'[v] = pc[v] /\ wk'[v] = wk[v]
      /\ pc'[w] \in {"run", "linking"}
      /\ wk'[w].token = nextToken /\ wk'[w].dev = d /\ wk'[w].job = j /\ wk'[w].attempt = a
  <2>1. nextToken \in 0 .. MaxTokens
    BY SMTT(30), <1>0, <1>2
  <2> QED BY <1>0, <1>1, <1>2, <1>3, <2>1 DEF TypeOK, PC, Executing, Registration
<1>5. TypeOK' /\ live'[d] # "unborn" /\ \A e \in Devices \ {d} : live'[e] = live[e]
  <2>1. TypeOK'
    BY <1>0, <1>2, <1>3, <1>4, InsertTypes
  <2>2. live'[d] # "unborn"
    BY <1>2 DEF ProvisionInsert, ProvisionAcquire, InsertClaim, TypeOK, StoreTypeOK
  <2> QED BY <1>2, <1>3, <2>1, <2>2 DEF TypeOK, StoreTypeOK
<1>6. Unique'
  BY <1>1, <1>2, <1>3, <1>4, MintUnique DEF Ownership
<1>7. /\ \A v \in Workers : pc'[v] = pc[v] /\ wk'[v] = wk[v] => WorkerOK(v)'
      /\ \A e \in Devices : ClaimRow(e)'
      /\ \A i \in Jobs : JobRow(i)'
      /\ ScanOK'
  BY <1>2, <1>3, <1>5, InsertKeeps
<1>8. WorkerOK(w)'
  <2>1. claim'[d].job = j /\ job' = job
    BY <1>2, <1>3
  <2> QED BY <1>0, <1>1, <1>2, <1>4, <2>1 DEF WorkerOK, PlacedAt, KindAt, HeldAt, CurrentAt, SendingAt, DeviceBound, Runs, Busy, Executing
<1>9. \A v \in Workers : WorkerOK(v)'
  BY <1>4, <1>7, <1>8
<1> QED BY <1>5, <1>6, <1>7, <1>9 DEF Ownership

LEMMA EndpointAcquireStep ==
  ASSUME Ownership, NEW d \in Devices, EndpointAcquire(d)
  PROVE  Ownership'
<1> USE ConstantsFacts
<1>1. /\ claim[d] = NoClaim /\ live[d] = "live" /\ nextToken <= MaxTokens
      /\ claim' = [claim EXCEPT ![d] = [token |-> nextToken, job |-> 0]] /\ nextToken' = nextToken + 1
      /\ ep' = [ep EXCEPT ![d] = nextToken]
      /\ UNCHANGED <<job, lastJob, gen, lastGen, settleSeq, exe, live, wire, pc, wk, scan, up, crashes>>
  BY DEF EndpointAcquire, InsertClaim
<1>2. TypeOK /\ Unique /\ 0 \in 0 .. MaxJobs /\ \A e \in Devices \ {d} : ep'[e] = ep[e]
  BY SMTT(30), <1>1 DEF Ownership, TypeOK
<1>3. TypeOK'
  BY <1>1, <1>2, InsertTypes DEF TypeOK
<1>4. Unique'
  BY <1>1, <1>2, MintUnique
<1>5. /\ \A v \in Workers : pc'[v] = pc[v] /\ wk'[v] = wk[v] => WorkerOK(v)'
      /\ \A e \in Devices : ClaimRow(e)'
      /\ \A i \in Jobs : JobRow(i)'
      /\ ScanOK'
  BY <1>1, <1>2, <1>3, InsertKeeps
<1> QED BY <1>1, <1>3, <1>4, <1>5 DEF Ownership

LEMMA DeleteTypes ==
  ASSUME TypeOK, NEW d \in Devices, claim' = [claim EXCEPT ![d] = NoClaim] \/ claim' = claim
  PROVE  /\ claim' \in [Devices -> Claim]
         /\ \A e \in Devices : claim'[e].token \in {0, claim[e].token}
<1>1. NoClaim \in Claim /\ NoClaim.token = 0
  BY ConstantsFacts DEF NoClaim, Claim
<1> QED BY <1>1 DEF TypeOK, StoreTypeOK

\* A worker gives back a claim under which it has started nothing, or which its
\* provision did not register.
LEMMA GiveBackStep ==
  ASSUME Ownership, NEW w \in Workers, GiveBack(w) \/ LinkRefused(w)
  PROVE  Ownership'
<1> USE ConstantsFacts, UnregisteredType
<1>0. TypeOK /\ WorkerOK(w) /\ Unique /\ pc[w] \in {"giveback", "linking"} /\ wk[w] \in Registration
  BY DEF Ownership, TypeOK, GiveBack, LinkRefused
<1>1. wk[w].token # 0 /\ wk[w].token \in Nat
  BY <1>0, TypesAt DEF WorkerOK, PlacedAt, KindAt
<1>2. PICK d \in Devices : wk[w].dev = d
  BY <1>0, <1>1 DEF WorkerOK, PlacedAt, KindAt, Busy, Executing
<1>3. /\ claim' = [claim EXCEPT ![d] = NoClaim] \/ claim' = claim
      /\ claim' = claim \/ claim[d].token = wk[w].token
      /\ UNCHANGED <<nextToken, job, lastJob, gen, lastGen, settleSeq, exe, live, wire, ep, scan, up, crashes>>
  BY <1>2 DEF GiveBack, LinkRefused, DeleteClaim
<1>4. /\ pc' \in [Workers -> PC] /\ wk' \in [Workers -> Registration]
      /\ \A v \in Workers \ {w} : pc'[v] = pc[v] /\ wk'[v] = wk[v]
      /\ wk'[w].token = 0
      /\ \/ pc'[w] = "idle" /\ wk'[w] = Unregistered
         \/ /\ pc[w] = "linking" /\ pc'[w] \in {"markfail", "cancel"}
            /\ wk'[w].job = wk[w].job /\ wk'[w].attempt = wk[w].attempt
  <2>1. pc \in [Workers -> PC] /\ wk \in [Workers -> Registration] /\ Unregistered.token = 0
    BY <1>0 DEF TypeOK, Unregistered
  <2>2. CASE GiveBack(w)
    BY <2>1, <2>2 DEF GiveBack, Leave, Goto, PC
  <2>3. CASE LinkRefused(w)
    <3>1. /\ pc[w] = "linking" /\ pc' \in {[pc EXCEPT ![w] = "markfail"], [pc EXCEPT ![w] = "cancel"]}
          /\ wk' = [wk EXCEPT ![w].dev = NoDevice, ![w].token = 0]
      BY <2>3 DEF LinkRefused, Goto
    <3>2. /\ [[wk[w] EXCEPT !.dev = NoDevice] EXCEPT !.token = 0] \in Registration
          /\ wk' = [wk EXCEPT ![w] = [[wk[w] EXCEPT !.dev = NoDevice] EXCEPT !.token = 0]]
      BY <1>0, <2>1, <3>1 DEF Registration
    <3>3. wk'[w].token = 0 /\ wk'[w].job = wk[w].job /\ wk'[w].attempt = wk[w].attempt
      BY <1>0, <2>1, <3>2 DEF Registration
    <3> QED BY SMTT(30), <2>1, <3>1, <3>2, <3>3 DEF PC, Executing
  <2> QED BY <2>2, <2>3
<1>5. TypeOK'
  BY <1>0, <1>3, <1>4, DeleteTypes, RunTypes DEF TypeOK, StoreTypeOK
<1>6. Unique'
  <2>1. wk'[w].job = 0 \/ (wk'[w].job = wk[w].job /\ wk'[w].attempt = wk[w].attempt)
    BY SMTT(30), <1>4 DEF Unregistered
  <2> QED BY <1>0, <1>3, <1>4, <2>1, DeleteTypes, MovesUnique DEF Moves
<1>7. CASE claim' = claim \/ claim[d].token = wk[w].token
  <2>1. claim' = claim \/ claim[d].job = 0 \/ job[claim[d].job].type = "provision"
    BY <1>0, <1>1, <1>2, <1>3 DEF WorkerOK, HeldAt, KindAt, Holds, Runs, Busy, Executing
  <2>2. ASSUME NEW v \in Workers PROVE WorkerOK(v)'
    <3>1. CASE v = w
      <4>1. CASE pc'[w] = "idle" /\ wk'[w] = Unregistered
        BY <3>1, <4>1, IdleOK
      <4>2. CASE /\ pc[w] = "linking" /\ pc'[w] \in {"markfail", "cancel"}
                 /\ wk'[w].job = wk[w].job /\ wk'[w].attempt = wk[w].attempt
        BY <1>0, <1>3, <1>4, <3>1, <4>2
          DEF WorkerOK, PlacedAt, KindAt, HeldAt, CurrentAt, SendingAt, Holds, Runs, DeviceBound, Busy, Executing
      <4> QED BY <1>4, <4>1, <4>2
    <3>2. CASE v # w /\ claim' = claim
      <4>1. Undisturbed(v)
        BY <1>3, <1>4, <3>2 DEF Undisturbed, Holds
      <4> QED BY <4>1, UndisturbedOK DEF Ownership
    <3>3. CASE v # w /\ claim' # claim
      BY SMTT(30), <1>0, <1>1, <1>3, <1>4, <1>7, <2>1, <3>3, DeleteKeeps DEF Unique
    <3> QED BY <3>1, <3>2, <3>3
  <2>3. /\ \A e \in Devices : ClaimRow(e)'
        /\ \A j \in Jobs : JobRow(j)'
        /\ ScanOK'
    <3>1. CASE claim' = claim
      BY <1>3, <3>1 DEF Ownership, ClaimRow, JobRow, ScanOK
    <3>2. CASE claim' # claim
      BY <1>3, <2>1, <3>2, DeleteKeeps
    <3> QED BY <3>1, <3>2
  <2> QED BY <1>5, <1>6, <2>2, <2>3 DEF Ownership
<1> QED BY <1>3, <1>7

LEMMA EndpointReleaseStep ==
  ASSUME Ownership, NEW d \in Devices, EndpointRelease(d)
  PROVE  Ownership'
<1> USE ConstantsFacts
<1>1. /\ claim' = [claim EXCEPT ![d] = NoClaim] \/ claim' = claim
      /\ claim' = claim \/ claim[d].token = ep[d]
      /\ ep[d] # 0 /\ ep' = [ep EXCEPT ![d] = 0]
      /\ UNCHANGED <<nextToken, job, lastJob, gen, lastGen, settleSeq, exe, live, wire, pc, wk, scan, up, crashes>>
  BY DEF EndpointRelease, DeleteClaim
<1>2. TypeOK /\ Unique /\ \A e \in Devices : ep'[e] \in {0, ep[e]}
  BY <1>1 DEF Ownership, TypeOK
<1>3. TypeOK'
  BY SMTT(30), <1>1, <1>2, DeleteTypes DEF TypeOK, StoreTypeOK
<1>4. Unique'
  <2>1. nextToken \in Nat \ {0} /\ \A e \in Devices : claim'[e].token < nextToken /\ ep'[e] < nextToken
    BY SMTT(30), <1>1, <1>2, DeleteTypes, TypesAt DEF Unique
  <2> QED BY <1>1, <1>2, <2>1 DEF Unique
<1>5. claim' = claim \/ claim[d].job = 0
  BY <1>1 DEF Ownership, ClaimRow
<1>6. CASE claim' = claim
  <2>1. \A v \in Workers : Undisturbed(v)
    BY <1>1, <1>6 DEF Undisturbed, Holds
  <2>2. \A v \in Workers : WorkerOK(v)'
    BY <2>1, UndisturbedOK DEF Ownership
  <2>3. /\ \A e \in Devices : ClaimRow(e)'
        /\ \A j \in Jobs : JobRow(j)'
        /\ ScanOK'
    BY <1>1, <1>2, <1>6 DEF Ownership, ClaimRow, JobRow, ScanOK
  <2> QED BY <1>3, <1>4, <2>2, <2>3 DEF Ownership
<1>7. CASE claim' # claim
  <2>1. \A v \in Workers : wk[v].token # claim[d].token
    BY <1>1, <1>2, <1>7 DEF Unique
  <2>2. /\ \A v \in Workers : WorkerOK(v)'
        /\ \A e \in Devices : ClaimRow(e)'
        /\ \A j \in Jobs : JobRow(j)'
        /\ ScanOK'
    BY <1>1, <1>2, <1>5, <1>7, <2>1, DeleteKeeps
  <2> QED BY <1>3, <1>4, <2>2 DEF Ownership
<1> QED BY <1>6, <1>7

-----------------------------------------------------------------------------
(* Starting a run.                                                         *)

\* A queued job is started by worker w at the next attempt, and where the worker
\* holds a claim, the claim names the job from now on.
Starts(w, j) ==
  /\ job[j].status = "queued" /\ job' = [job EXCEPT ![j] = Started(j)]
  /\ \/ claim' = claim /\ job[j].type = "provision"
     \/ /\ pc[w] = "claimed" /\ Holds(w) /\ wk[w].dev = job[j].dev
        /\ claim' = [claim EXCEPT ![wk[w].dev].job = j]
  /\ UNCHANGED <<nextToken, lastJob, exe, live, ep, scan>>

LEMMA StartedRow ==
  ASSUME TypeOK, NEW j \in Jobs, job' = [job EXCEPT ![j] = Started(j)]
  PROVE  /\ job' \in [Jobs -> Job] /\ \A k \in Jobs \ {j} : job'[k] = job[k]
         /\ job'[j].status = "running" /\ job'[j].attempt = job[j].attempt + 1
         /\ job'[j].type = job[j].type /\ job'[j].dev = job[j].dev
<1>1. job[j] \in Job /\ job \in [Jobs -> Job]
  BY DEF TypeOK, StoreTypeOK
<1>2. /\ Started(j) \in Job /\ Started(j).status = "running" /\ Started(j).attempt = job[j].attempt + 1
      /\ Started(j).type = job[j].type /\ Started(j).dev = job[j].dev
  <2>1. ASSUME NEW r \in Job, NEW n \in Nat
        PROVE  LET q == [r EXCEPT !.status = "running", !.attempt = n] IN
               /\ q \in Job /\ q.status = "running" /\ q.attempt = n
               /\ q.type = r.type /\ q.dev = r.dev
    BY DEF Job, JobStatus
  <2>2. job[j].attempt + 1 \in Nat
    BY SMTT(30), <1>1 DEF Job
  <2> QED BY <1>1, <2>1, <2>2 DEF Started
<1> QED BY <1>1, <1>2

\* A start disturbs nobody else: the zombies of earlier attempts hold no token.
LEMMA StartKeeps ==
  ASSUME Ownership, NEW w \in Workers, NEW j \in Jobs, Starts(w, j)
  PROVE  /\ \A v \in Workers \ {w} : pc'[v] = pc[v] /\ wk'[v] = wk[v] => WorkerOK(v)'
         /\ \A d \in Devices : ClaimRow(d)'
         /\ \A k \in Jobs : JobRow(k)'
         /\ ScanOK'
         /\ \A d \in Devices : claim'[d].token = claim[d].token
<1> USE ConstantsFacts
<1>0. /\ TypeOK /\ StoreTypeOK /\ Unique /\ claim \in [Devices -> Claim] /\ job[j].attempt \in Nat
      /\ WorkerOK(w) /\ JobRow(j) /\ job[j].status = "queued"
  BY TypesAt DEF Ownership, TypeOK, StoreTypeOK, Starts
<1>1. /\ \A k \in Jobs \ {j} : job'[k] = job[k]
      /\ job'[j].status = "running" /\ job'[j].attempt = job[j].attempt + 1
      /\ job'[j].type = job[j].type /\ job'[j].dev = job[j].dev
  BY <1>0, StartedRow DEF Starts
<1>2. Holds(w) => wk[w].dev \in Devices
  BY SMTT(30), <1>0 DEF Holds, WorkerOK, PlacedAt, TypeOK, PC, Busy, Unregistered
<1>3. /\ \A d \in Devices : claim'[d].token = claim[d].token
      /\ \A d \in Devices : claim'[d] # claim[d] =>
           d = wk[w].dev /\ pc[w] = "claimed" /\ Holds(w) /\ claim'[d].job = j /\ d = job[j].dev
  BY SMTT(30), <1>0, <1>2 DEF Starts, Claim
<1>4. ASSUME NEW v \in Workers \ {w}, pc'[v] = pc[v], wk'[v] = wk[v] PROVE WorkerOK(v)'
  <2>0. WorkerOK(v) /\ wk[v].attempt \in Nat
    BY <1>0, TypesAt DEF Ownership
  <2>1. wk[v].token # 0 => wk[v].dev \in Devices
    BY SMTT(30), <1>0, <2>0 DEF WorkerOK, PlacedAt, TypeOK, PC, Busy, Unregistered
  <2>2. Holds(v)' <=> Holds(v)
    BY <1>3, <1>4, <2>1 DEF Holds
  <2>3. Holds(v) => claim'[wk[v].dev] = claim[wk[v].dev]
    BY SMTT(30), <1>0, <1>3, <2>1 DEF Holds, Unique
  <2>4. CASE pc[v] \notin Busy \/ wk[v].job # j
    <3>1. pc[v] \in Busy => wk[v].job \in Jobs
      BY <2>0 DEF WorkerOK, PlacedAt
    <3>2. Undisturbed(v)
      BY <1>1, <1>4, <2>2, <2>3, <2>4, <3>1 DEF Undisturbed, Starts
    <3> QED BY <2>0, <3>2, UndisturbedOK
  <2>5. CASE pc[v] \in Busy /\ wk[v].job = j /\ DeviceBound(v)
    <3>1. ~Holds(v)
      <4>1. SUFFICES ASSUME Holds(v) PROVE FALSE
        OBVIOUS
      <4>2. claim[wk[v].dev].job = j /\ wk[v].dev \in Devices /\ ClaimRow(wk[v].dev)
        BY <2>0, <2>1, <2>5, <4>1 DEF WorkerOK, HeldAt, Holds, Ownership
      <4>3. wk[v].dev = job[j].dev
        BY <2>5, <4>2 DEF ClaimRow, DeviceBound
      <4> QED BY SMTT(30), <1>0, <2>5, <4>1, <4>3 DEF Starts, Holds, Unique, DeviceBound
    <3>2. ~RunningAt(j, wk[v].attempt)' /\ wk[v].attempt <= job[j].attempt
      BY SMTT(30), <1>0, <1>1, <1>4, <2>0, <2>5 DEF WorkerOK, PlacedAt, RunningAt
    <3>3. pc[v] # "put"
      BY <2>0, <3>1 DEF WorkerOK, SendingAt
    <3>4. PlacedAt(v)'
      BY SMTT(30), <1>0, <1>1, <1>4, <2>0, <2>5, <3>2 DEF WorkerOK, PlacedAt, DeviceBound
    <3>5. KindAt(v)'
      BY <1>1, <1>4, <2>0, <2>5 DEF WorkerOK, KindAt, Runs
    <3>6. HeldAt(v)' /\ SendingAt(v)'
      BY <1>4, <2>2, <3>1, <3>3 DEF HeldAt, SendingAt
    <3>7. CurrentAt(v)'
      BY <1>4, <2>5, <3>2 DEF CurrentAt
    <3> QED BY <3>4, <3>5, <3>6, <3>7 DEF WorkerOK
  <2>6. CASE pc[v] \in Busy /\ wk[v].job = j /\ ~DeviceBound(v)
    <3>1. ~(pc[v] \in {"prepared", "put", "verify", "runfail", "post"})
      BY <2>0, <2>6 DEF WorkerOK, KindAt, Runs, DeviceBound, DeviceWriting
    <3>2. PlacedAt(v)'
      BY SMTT(30), <1>0, <1>1, <1>4, <2>0, <2>6 DEF WorkerOK, PlacedAt, DeviceBound
    <3>3. KindAt(v)'
      BY <1>1, <1>4, <2>0, <2>6 DEF WorkerOK, KindAt, Runs
    <3>4. HeldAt(v)'
      BY <1>1, <1>4, <2>0, <2>2, <2>3, <2>6, <3>1 DEF WorkerOK, HeldAt, DeviceBound
    <3>5. CurrentAt(v)' /\ SendingAt(v)'
      BY <1>1, <1>4, <2>6, <3>1 DEF CurrentAt, SendingAt, DeviceBound
    <3> QED BY <3>2, <3>3, <3>4, <3>5 DEF WorkerOK
  <2> QED BY <2>4, <2>5, <2>6
<1>5. ASSUME NEW d \in Devices PROVE ClaimRow(d)'
  <2>0. ClaimRow(d) /\ UNCHANGED <<live, ep>> /\ claim[d].job \in 0 .. MaxJobs
    BY <1>0, TypesAt DEF Ownership, Starts
  <2>1. CASE claim'[d] = claim[d]
    <3>1. claim[d].job # 0 => claim[d].job \in Jobs
      BY <2>0 DEF Jobs
    <3> QED BY <1>1, <2>0, <2>1, <3>1 DEF ClaimRow
  <2>2. CASE claim'[d] # claim[d]
    <3>1. d = wk[w].dev /\ Holds(w) /\ claim'[d].job = j /\ d = job[j].dev /\ claim'[d].token = claim[d].token
      BY <1>3, <2>2
    <3>2. claim[d].token # 0 /\ claim[d].token = wk[w].token /\ claim[d] # NoClaim
      BY <3>1 DEF Holds, NoClaim
    <3>3. ep[d] # 0 => claim[d].token # ep[d]
      BY <1>0, <3>2 DEF Unique
    <3> QED BY <1>1, <2>0, <3>1, <3>2, <3>3 DEF ClaimRow
  <2> QED BY <2>1, <2>2
<1>6. ASSUME NEW k \in Jobs PROVE JobRow(k)'
  <2>0. JobRow(k) /\ UNCHANGED <<lastJob, exe>>
    BY DEF Ownership, Starts
  <2>1. CASE k = j
    <3>1. exe[j].attempt = 0
      BY <1>0 DEF JobRow
    <3>2. job[j].type # "provision" => claim'[job[j].dev].job = j
      <4>1. CASE Holds(w) /\ claim' = [claim EXCEPT ![wk[w].dev].job = j] /\ wk[w].dev = job[j].dev
        BY <1>0, <1>2, <4>1 DEF Claim
      <4> QED BY <4>1 DEF Starts
    <3> QED BY SMTT(30), <1>0, <1>1, <2>0, <2>1, <3>1, <3>2 DEF JobRow
  <2>2. CASE k # j
    <3>1. /\ job[k].type # "provision" /\ job[k].status = "running"
          => claim'[job[k].dev].job = k
      <4>1. SUFFICES ASSUME job[k].type # "provision", job[k].status = "running", claim'[job[k].dev] # claim[job[k].dev]
                     PROVE  FALSE
        BY <2>0 DEF JobRow
      <4>2. job[k].dev \in Devices /\ claim[job[k].dev].job = k
        BY <2>0, <4>1 DEF JobRow
      <4> QED BY <1>0, <1>3, <4>1, <4>2 DEF WorkerOK, HeldAt
    <3> QED BY <1>1, <2>0, <2>2, <3>1 DEF JobRow
  <2> QED BY <2>1, <2>2
<1>7. ScanOK'
  BY SMTT(30), <1>1 DEF Ownership, ScanOK, Starts
<1> QED BY <1>3, <1>4, <1>5, <1>6, <1>7

\* The next attempt of a job is nobody's yet.
LEMMA StartStep ==
  ASSUME Ownership, TypeOK', NEW w \in Workers, NEW j \in Jobs, Starts(w, j),
         \A v \in Workers \ {w} : pc'[v] = pc[v] /\ wk'[v] = wk[v],
         wk'[w].token \in {0, wk[w].token},
         wk'[w].job = 0 \/ (wk'[w].job = j /\ wk'[w].attempt = job[j].attempt + 1),
         WorkerOK(w)'
  PROVE  Ownership'
<1> USE ConstantsFacts
<1>0. /\ TypeOK /\ Unique /\ UNCHANGED <<nextToken, ep>> /\ nextToken \in Nat \ {0}
      /\ \A d \in Devices : claim'[d].token = claim[d].token
  BY StartKeeps, TypesAt DEF Ownership, Starts
<1>1. \A v \in Workers : wk[v].job = j => wk[v].attempt # job[j].attempt + 1
  <2>1. SUFFICES ASSUME NEW v \in Workers, wk[v].job = j PROVE wk[v].attempt # job[j].attempt + 1
    OBVIOUS
  <2>2. PlacedAt(v) /\ pc[v] \in PC /\ j # 0 /\ job[j].attempt \in Nat /\ wk[v].attempt \in Nat
    BY <1>0, TypesAt DEF Ownership, WorkerOK, TypeOK
  <2>3. pc[v] \in Busy
    BY SMTT(30), <2>1, <2>2 DEF PlacedAt, PC, Busy, Unregistered
  <2> QED BY SMTT(30), <2>1, <2>2, <2>3 DEF PlacedAt
<1>2. Unique'
  <2>1. \A d \in Devices : claim'[d].token < nextToken' /\ ep'[d] < nextToken'
    BY <1>0 DEF Unique
  <2>2. \A v \in Workers : wk'[v].token < nextToken'
    BY SMTT(30), <1>0 DEF Unique
  <2>3. ASSUME NEW u \in Workers, NEW v \in Workers, u # v
        PROVE  /\ wk'[u].token # 0 => wk'[u].token # wk'[v].token
               /\ wk'[u].job # 0 /\ wk'[u].job = wk'[v].job => wk'[u].attempt # wk'[v].attempt
    <3>1. CASE u = w
      BY SMTT(30), <1>0, <1>1, <2>3, <3>1 DEF Unique
    <3>2. CASE v = w
      BY SMTT(30), <1>0, <1>1, <2>3, <3>2 DEF Unique
    <3>3. CASE u # w /\ v # w
      BY SMTT(30), <1>0, <2>3, <3>3 DEF Unique
    <3> QED BY <3>1, <3>2, <3>3
  <2>4. \A v \in Workers, d \in Devices : ep'[d] # 0 => ep'[d] # wk'[v].token
    BY SMTT(30), <1>0 DEF Unique
  <2> QED BY <2>1, <2>2, <2>3, <2>4 DEF Unique
<1>3. \A v \in Workers : WorkerOK(v)'
  BY StartKeeps
<1> QED BY <1>2, <1>3, StartKeeps DEF Ownership

LEMMA StartHeadStep ==
  ASSUME Ownership, NEW w \in Workers, StartHead(w)
  PROVE  Ownership'
<1> USE ConstantsFacts, UnregisteredType
<1>0. /\ pc[w] = "claimed" /\ Holds(w) /\ TypeOK /\ WorkerOK(w) /\ wk[w] \in Registration
  BY DEF StartHead, Ownership, TypeOK
<1>1. PICK d \in Devices : wk[w].dev = d
  BY <1>0 DEF WorkerOK, PlacedAt
<1> DEFINE heads == {i \in Queue(d) : Admissible(i)}
<1>2. PICK j \in Jobs : j = Min(heads) /\ j \in Queue(d)
  <2>1. heads # {} /\ heads \in SUBSET Nat /\ heads \subseteq Jobs
    BY <1>1 DEF StartHead, Queue
  <2> QED BY <2>1, MinLeast
<1>3. /\ job[j].status = "queued" /\ job[j].dev = d /\ job' = [job EXCEPT ![j] = Started(j)]
      /\ claim' = [claim EXCEPT ![d].job = j]
      /\ gen' = [gen EXCEPT ![d] = [n \in Gens |->
                   IF gen[d][n].job = j /\ gen[d][n].status = "pending"
                   THEN [gen[d][n] EXCEPT !.status = "running"] ELSE gen[d][n]]]
      /\ \/ /\ pc' = [pc EXCEPT ![w] = "run"]
            /\ wk' = [wk EXCEPT ![w].job = j, ![w].attempt = job[j].attempt + 1]
         \/ pc' = [pc EXCEPT ![w] = "idle"] /\ wk' = [wk EXCEPT ![w] = Unregistered]
      /\ UNCHANGED <<nextToken, lastJob, lastGen, settleSeq, exe, live, wire, ep, scan, up, crashes>>
  BY SMTT(30), <1>1, <1>2 DEF StartHead, Queue, Goto, Leave
<1> HIDE DEF heads
<1>4. Starts(w, j)
  BY <1>0, <1>1, <1>3 DEF Starts
<1>5. /\ pc' \in [Workers -> PC] /\ wk' \in [Workers -> Registration]
      /\ \A v \in Workers \ {w} : pc'[v] = pc[v] /\ wk'[v] = wk[v]
      /\ \/ pc'[w] = "idle" /\ wk'[w] = Unregistered
         \/ /\ pc'[w] = "run" /\ wk'[w].job = j /\ wk'[w].attempt = job[j].attempt + 1
            /\ wk'[w].token = wk[w].token /\ wk'[w].dev = d
  <2>1. j \in 0 .. MaxJobs /\ job[j].attempt + 1 \in Nat
    BY SMTT(30), <1>0, TypesAt DEF Jobs
  <2> QED BY SMTT(30), <1>0, <1>1, <1>3, <2>1 DEF TypeOK, PC, Executing, Registration
<1>6. TypeOK'
  <2>1. job' \in [Jobs -> Job]
    BY <1>0, <1>3, StartedRow
  <2>2. claim' \in [Devices -> Claim]
    <3>1. j \in 0 .. MaxJobs /\ claim \in [Devices -> Claim]
      BY SMTT(30), <1>0 DEF TypeOK, StoreTypeOK, Jobs
    <3>2. \A c \in Claim : [c EXCEPT !.job = j] \in Claim
      BY <3>1 DEF Claim
    <3> QED BY <1>3, <3>1, <3>2
  <2>3. gen' \in [Devices -> [Gens -> Generation]]
    <3>1. \A g \in Generation : [g EXCEPT !.status = "running"] \in Generation
      BY DEF Generation, GenerationStatus
    <3> QED BY SMTT(30), <1>0, <1>3, <3>1 DEF TypeOK, StoreTypeOK
  <2> QED BY <1>0, <1>3, <1>5, <2>1, <2>2, <2>3 DEF TypeOK, StoreTypeOK
<1>7. WorkerOK(w)'
  <2>1. CASE pc'[w] = "idle" /\ wk'[w] = Unregistered
    BY <2>1, IdleOK
  <2>2. CASE /\ pc'[w] = "run" /\ wk'[w].job = j /\ wk'[w].attempt = job[j].attempt + 1
             /\ wk'[w].token = wk[w].token /\ wk'[w].dev = d
    <3>1. /\ job'[j].status = "running" /\ job'[j].attempt = job[j].attempt + 1 /\ job[j].attempt \in Nat
      BY <1>0, <1>3, StartedRow, TypesAt
    <3>2. claim'[d].job = j /\ claim'[d].token = wk[w].token /\ wk[w].token # 0
      BY SMTT(30), <1>0, <1>1, <1>3 DEF TypeOK, StoreTypeOK, Claim, Holds
    <3> QED BY SMTT(30), <2>2, <3>1, <3>2
      DEF WorkerOK, PlacedAt, KindAt, HeldAt, CurrentAt, SendingAt, Holds, RunningAt, Busy, Executing
  <2> QED BY <1>5, <2>1, <2>2
<1> QED BY SMTT(30), <1>4, <1>5, <1>6, <1>7, StartStep DEF Unregistered

LEMMA StartClaimlessStep ==
  ASSUME Ownership, NEW w \in Workers, StartClaimless(w)
  PROVE  Ownership'
<1> USE ConstantsFacts, UnregisteredType
<1>0. /\ pc[w] = "idle" /\ TypeOK /\ WorkerOK(w) /\ wk[w] = Unregistered
  BY DEF StartClaimless, Ownership, TypeOK, WorkerOK, PlacedAt
<1> DEFINE heads == {i \in Queue(NoDevice) : job[i].type = "provision"}
<1>1. PICK j \in Jobs : j = Min(heads) /\ j \in heads
  <2>1. heads # {} /\ heads \in SUBSET Nat /\ heads \subseteq Jobs
    BY DEF StartClaimless, Queue
  <2> QED BY <2>1, MinLeast
<1>2. /\ job[j].status = "queued" /\ job[j].type = "provision" /\ job' = [job EXCEPT ![j] = Started(j)]
      /\ \/ /\ pc' = [pc EXCEPT ![w] = "run"]
            /\ wk' = [wk EXCEPT ![w] = [Unregistered EXCEPT !.job = j, !.attempt = job[j].attempt + 1]]
         \/ pc' = pc /\ wk' = wk
      /\ UNCHANGED <<claim, nextToken, lastJob, gen, lastGen, settleSeq, exe, live, wire, ep, scan, up, crashes>>
  BY <1>1 DEF StartClaimless, Queue, Goto
<1> HIDE DEF heads
<1>3. Starts(w, j)
  BY <1>2 DEF Starts
<1>4. /\ pc' \in [Workers -> PC] /\ wk' \in [Workers -> Registration]
      /\ \A v \in Workers \ {w} : pc'[v] = pc[v] /\ wk'[v] = wk[v]
      /\ \/ pc'[w] = "idle" /\ wk'[w] = Unregistered
         \/ pc'[w] = "run" /\ wk'[w].job = j /\ wk'[w].attempt = job[j].attempt + 1 /\ wk'[w].token = 0
  <2>1. j \in 0 .. MaxJobs /\ job[j].attempt + 1 \in Nat
    BY SMTT(30), <1>0, TypesAt DEF Jobs
  <2> DEFINE r == [Unregistered EXCEPT !.job = j, !.attempt = job[j].attempt + 1]
  <2>2. r \in Registration /\ r.job = j /\ r.attempt = job[j].attempt + 1 /\ r.token = 0
    <3>1. \A n \in Nat : LET q == [Unregistered EXCEPT !.job = j, !.attempt = n] IN
                        q \in Registration /\ q.job = j /\ q.attempt = n /\ q.token = 0
      BY <2>1 DEF Registration, Unregistered
    <3> QED BY <2>1, <3>1
  <2>3. wk' = wk \/ wk' = [wk EXCEPT ![w] = r]
    BY <1>2
  <2> HIDE DEF r
  <2>4. CASE pc' = pc /\ wk' = wk
    BY <1>0, <2>4 DEF TypeOK
  <2>5. CASE pc' = [pc EXCEPT ![w] = "run"] /\ wk' = [wk EXCEPT ![w] = r]
    BY <1>0, <2>2, <2>5 DEF TypeOK, PC, Executing
  <2> QED BY <1>2, <2>4, <2>5 DEF r
<1>5. TypeOK'
  BY <1>0, <1>2, <1>4, StartedRow DEF TypeOK, StoreTypeOK
<1>6. WorkerOK(w)'
  <2>1. CASE pc'[w] = "idle" /\ wk'[w] = Unregistered
    BY <2>1, IdleOK
  <2>2. CASE pc'[w] = "run" /\ wk'[w].job = j /\ wk'[w].attempt = job[j].attempt + 1 /\ wk'[w].token = 0
    <3>1. /\ job'[j].status = "running" /\ job'[j].attempt = job[j].attempt + 1 /\ job[j].attempt \in Nat
          /\ job'[j].type = "provision"
      BY <1>0, <1>2, StartedRow, TypesAt
    <3> QED BY SMTT(30), <2>2, <3>1
      DEF WorkerOK, PlacedAt, KindAt, HeldAt, CurrentAt, SendingAt, Holds, DeviceBound, Busy, Executing
  <2> QED BY <1>4, <2>1, <2>2
<1> QED BY SMTT(30), <1>3, <1>4, <1>5, <1>6, StartStep DEF Unregistered

-----------------------------------------------------------------------------
(* Recovery.                                                               *)

\* Recovery ends the run a claim names, or one no claim names, and takes the
\* claim with it: no worker is left with a token over a run that is over.
LEMMA RecoverStep ==
  ASSUME Ownership, NEW k \in Jobs, NEW a \in Nat, NEW d,
         Ended(k, a) \/ UNCHANGED <<job, gen, settleSeq, exe>>,
         \/ claim' = claim /\ job[k].type = "provision"
         \/ /\ d \in Devices /\ claim' = [claim EXCEPT ![d] = NoClaim] /\ ~Locked(d)
            /\ \/ claim[d].job = 0 /\ UNCHANGED job
               \/ claim[d].job = k /\ job'[k].status # "running",
         scan' \in {scan, NoScan},
         UNCHANGED <<nextToken, lastJob, lastGen, live, wire, pc, wk, ep, up, crashes>>
  PROVE  Ownership'
<1> USE ConstantsFacts
<1>0. TypeOK /\ StoreTypeOK /\ Unique /\ JobRow(k)
  BY DEF Ownership, TypeOK
<1>1. /\ \A e \in Devices \ {d} : claim'[e] = claim[e]
      /\ claim' = claim \/ (claim'[d] = NoClaim /\ claim'[d].token = 0 /\ claim'[d].job = 0)
      /\ claim' \in [Devices -> Claim] /\ \A e \in Devices : claim'[e].token \in {0, claim[e].token}
  <2>1. CASE claim' = claim
    BY <1>0, <2>1 DEF StoreTypeOK
  <2>2. CASE d \in Devices /\ claim' = [claim EXCEPT ![d] = NoClaim]
    BY <1>0, <2>2, DeleteTypes DEF StoreTypeOK, NoClaim
  <2> QED BY <2>1, <2>2
<1>2. /\ job' \in [Jobs -> Job] /\ gen' \in [Devices -> [Gens -> Generation]]
      /\ settleSeq' \in [Devices -> Nat] /\ exe' \in [Jobs -> Execution]
      /\ \A i \in Jobs \ {k} : job'[i] = job[i] /\ exe'[i] = exe[i]
      /\ job'[k].type = job[k].type /\ job'[k].attempt = job[k].attempt
      /\ job[k].type # "provision" => job'[k].dev = job[k].dev
      /\ job' = job \/ job'[k].status \in {"queued", "succeeded", "failed"}
  <2>1. CASE Ended(k, a)
    BY <2>1 DEF Ended, TouchesOnly
  <2>2. CASE UNCHANGED <<job, gen, settleSeq, exe>>
    BY <1>0, <2>2 DEF StoreTypeOK
  <2> QED BY <2>1, <2>2
<1>3. TypeOK'
  <2>1. scan' \in [job : 0 .. MaxJobs, attempt : Nat]
    <3>1. scan \in [job : 0 .. MaxJobs, attempt : Nat]
      BY <1>0 DEF TypeOK
    <3>2. NoScan \in [job : 0 .. MaxJobs, attempt : Nat]
      BY SMTT(30) DEF NoScan
    <3> QED BY <3>1, <3>2
  <2> QED BY <1>0, <1>1, <1>2, <2>1 DEF TypeOK, StoreTypeOK
<1>4. Unique'
  <2>1. \A e \in Devices : claim'[e].token < nextToken /\ ep'[e] < nextToken
    BY SMTT(30), <1>0, <1>1, TypesAt DEF Unique
  <2> QED BY <1>0, <2>1 DEF Unique
<1>5. ASSUME NEW v \in Workers PROVE WorkerOK(v)'
  <2>0. WorkerOK(v) /\ pc'[v] = pc[v] /\ wk'[v] = wk[v]
    BY DEF Ownership
  <2>1. wk[v].token # 0 => wk[v].dev \in Devices
    BY SMTT(30), <1>0, <2>0 DEF WorkerOK, PlacedAt, TypeOK, PC, Busy, Unregistered
  <2>2. Holds(v)' => Holds(v) /\ claim'[wk[v].dev] = claim[wk[v].dev]
    BY <1>1, <2>0, <2>1 DEF Holds
  <2>3. Holds(v) /\ ~Holds(v)' => claim' # claim /\ wk[v].dev = d /\ claim'[d] = NoClaim
    BY <1>1, <2>0, <2>1 DEF Holds
  <2>4. pc[v] = "put" => (Holds(v) <=> Holds(v)')
    BY <2>0, <2>2, <2>3 DEF Locked
  <2>5. CASE pc[v] \notin Busy
    BY <2>0, <2>2, <2>5
      DEF WorkerOK, PlacedAt, KindAt, HeldAt, CurrentAt, SendingAt, Busy, Executing
  <2>6. CASE pc[v] \in Busy
    <3>0. wk[v].job \in Jobs
      BY <2>0, <2>6 DEF WorkerOK, PlacedAt
    <3>1. /\ job'[wk[v].job].type = job[wk[v].job].type /\ job'[wk[v].job].attempt = job[wk[v].job].attempt
          /\ job'[wk[v].job].status # "absent"
      BY <1>2, <2>0, <2>6, <3>0 DEF WorkerOK, PlacedAt
    <3>2. PlacedAt(v)' /\ KindAt(v)'
      BY <2>0, <2>6, <3>0, <3>1 DEF WorkerOK, PlacedAt, KindAt, Runs, DeviceBound
    <3>3. CASE DeviceBound(v) /\ Holds(v)'
      <4>1. Holds(v) /\ claim'[wk[v].dev] = claim[wk[v].dev] /\ wk[v].dev \in Devices
        BY <2>1, <2>2, <3>3 DEF Holds
      <4>2. claim[wk[v].dev].job = wk[v].job /\ job[wk[v].job].dev = wk[v].dev
        BY <2>0, <2>6, <3>0, <3>3, <4>1 DEF WorkerOK, HeldAt, DeviceBound, Ownership, ClaimRow
      <4>3. wk[v].job # k \/ job' = job
        <5>1. SUFFICES ASSUME wk[v].job = k, job' # job PROVE FALSE
          OBVIOUS
        <5>2. d \in Devices /\ claim[d].job = k /\ claim' = [claim EXCEPT ![d] = NoClaim] /\ job[k].type # "provision"
          BY <3>3, <5>1 DEF DeviceBound
        <5>3. wk[v].dev = d
          BY <4>2, <5>1, <5>2 DEF Ownership, ClaimRow
        <5> QED BY SMTT(30), <1>0, <4>1, <4>2, <5>1, <5>2, <5>3 DEF StoreTypeOK, NoClaim
      <4>4. job'[wk[v].job] = job[wk[v].job] /\ exe'[wk[v].job] = exe[wk[v].job]
        BY <1>2, <3>0, <4>3 DEF Ended, TouchesOnly, RunningAt
      <4>5. Undisturbed(v)
        BY <2>0, <3>3, <4>1, <4>4 DEF Undisturbed
      <4> QED BY <2>0, <4>5, UndisturbedOK
    <3>4. CASE DeviceBound(v) /\ ~Holds(v)'
      <4>1. ~RunningAt(wk[v].job, wk[v].attempt)'
        <5>1. SUFFICES ASSUME RunningAt(wk[v].job, wk[v].attempt)' PROVE FALSE
          OBVIOUS
        <5>2. RunningAt(wk[v].job, wk[v].attempt)
          BY <1>2, <2>0, <3>0, <5>1 DEF RunningAt
        <5>3. Holds(v) /\ claim[wk[v].dev].job = wk[v].job
          BY <2>0, <2>6, <3>4, <5>2 DEF WorkerOK, CurrentAt, HeldAt
        <5>4. wk[v].dev = d /\ claim' # claim /\ claim[d].job = wk[v].job
          BY <2>3, <3>4, <5>3
        <5> QED BY <2>0, <3>0, <5>1, <5>4 DEF RunningAt
      <4>2. pc[v] # "put"
        BY <2>0, <2>4, <3>4 DEF WorkerOK, SendingAt
      <4> QED BY <2>0, <3>2, <3>4, <4>1, <4>2 DEF WorkerOK, HeldAt, CurrentAt, SendingAt
    <3>5. CASE ~DeviceBound(v)
      <4>1. ~(pc[v] \in {"prepared", "put", "verify", "runfail", "post"}) /\ ~DeviceBound(v)'
        BY <2>0, <3>1, <3>5 DEF WorkerOK, KindAt, Runs, DeviceBound, DeviceWriting
      <4>2. HeldAt(v)'
        BY <2>0, <2>2, <2>6, <4>1 DEF WorkerOK, HeldAt
      <4> QED BY <2>0, <3>2, <4>1, <4>2 DEF WorkerOK, CurrentAt, SendingAt
    <3> QED BY <3>3, <3>4, <3>5
  <2> QED BY <2>5, <2>6
<1>6. ASSUME NEW e \in Devices PROVE ClaimRow(e)'
  <2>0. ClaimRow(e) /\ claim[e].job \in 0 .. MaxJobs
    BY <1>0, TypesAt DEF Ownership
  <2>1. CASE claim'[e] = claim[e]
    <3>1. claim[e].job # 0 => claim[e].job \in Jobs
      BY SMTT(30), <2>0 DEF Jobs
    <3>2. ASSUME NEW i \in Jobs, job[i].status # "absent"
          PROVE  /\ job'[i].status # "absent" /\ job'[i].type = job[i].type
                 /\ job[i].type # "provision" => job'[i].dev = job[i].dev
      BY <1>2, <3>2
    <3>3. UNCHANGED <<live, ep>>
      OBVIOUS
    <3> QED BY <2>0, <2>1, <3>1, <3>2, <3>3 DEF ClaimRow
  <2>2. CASE claim'[e] = NoClaim
    BY SMTT(30), <2>2 DEF ClaimRow, NoClaim
  <2> QED BY <1>1, <2>1, <2>2
<1>7. ASSUME NEW i \in Jobs PROVE JobRow(i)'
  <2>0. JobRow(i)
    BY DEF Ownership
  <2>1. CASE i = k /\ Ended(k, a)
    BY <2>1, EndedRow DEF Ended
  <2>2. CASE i # k \/ ~Ended(k, a)
    <3>1. job'[i] = job[i] /\ exe'[i] = exe[i]
      BY <1>2, <2>2
    <3>2. job[i].type # "provision" /\ job[i].status = "running" => claim'[job[i].dev].job = i
      BY <1>1, <2>0, <2>2, <3>1 DEF JobRow
    <3> QED BY <2>0, <3>1, <3>2 DEF JobRow
  <2> QED BY <2>1, <2>2
<1>8. ScanOK'
  <2>1. CASE scan' = NoScan
    BY <2>1 DEF ScanOK, NoScan
  <2>2. CASE scan' = scan
    BY <1>2, <2>2 DEF Ownership, ScanOK
  <2> QED BY <2>1, <2>2
<1> QED BY <1>3, <1>4, <1>5, <1>6, <1>7, <1>8 DEF Ownership

LEMMA RevokeStaleClaimStep ==
  ASSUME Ownership, NEW d \in Devices, RevokeStaleClaim(d)
  PROVE  Ownership'
<1> USE ConstantsFacts
<1>0. /\ TypeOK /\ StoreTypeOK /\ claim[d].job \in 0 .. MaxJobs /\ ~Locked(d)
      /\ claim' = [claim EXCEPT ![d] = NoClaim]
      /\ UNCHANGED <<nextToken, lastJob, lastGen, live, wire, pc, wk, ep, scan, up, crashes>>
  BY TypesAt DEF Ownership, RevokeStaleClaim, procVars
<1>1. CASE claim[d].job = 0
  <2>1. UNCHANGED <<job, gen, settleSeq, exe>>
    BY <1>1 DEF RevokeStaleClaim
  <2>2. 1 \in Jobs /\ 0 \in Nat
    BY BoundsAssumption DEF Jobs
  <2>3. \/ claim' = claim /\ job[1].type = "provision"
        \/ /\ d \in Devices /\ claim' = [claim EXCEPT ![d] = NoClaim] /\ ~Locked(d)
           /\ \/ claim[d].job = 0 /\ UNCHANGED job
              \/ claim[d].job = 1 /\ job'[1].status # "running"
    BY <1>0, <1>1, <2>1
  <2>4. scan' \in {scan, NoScan}
    BY <1>0
  <2> QED BY <1>0, <2>1, <2>2, <2>3, <2>4, RecoverStep
<1>2. CASE claim[d].job # 0
  <2>1. PICK k \in Jobs, a \in Nat : claim[d].job = k /\ a = job[k].attempt
    BY SMTT(30), <1>0, <1>2, TypesAt DEF Jobs
  <2>2. RecoverRun(k, a, claim[d].token)
    BY <1>2, <2>1 DEF RevokeStaleClaim
  <2>3. Disposed(k, a)
    BY <1>0, <2>2, RecoverRunEffect
  <2>4. (Ended(k, a) \/ UNCHANGED <<job, gen, settleSeq, exe>>) /\ job'[k].status # "running"
    BY <2>1, <2>3, DisposedEnds
  <2>5. \/ claim' = claim /\ job[k].type = "provision"
        \/ /\ d \in Devices /\ claim' = [claim EXCEPT ![d] = NoClaim] /\ ~Locked(d)
           /\ \/ claim[d].job = 0 /\ UNCHANGED job
              \/ claim[d].job = k /\ job'[k].status # "running"
    BY <1>0, <2>1, <2>4
  <2>6. scan' \in {scan, NoScan}
    BY <1>0
  <2> QED BY <1>0, <2>4, <2>5, <2>6, RecoverStep
<1> QED BY <1>1, <1>2

\* What the scan finds uncovered is a provision.
LEMMA OrphanScanStep ==
  ASSUME Ownership, NEW j \in Jobs, OrphanScan(j)
  PROVE  Ownership'
<1>1. TypeOK /\ JobRow(j) /\ job[j].attempt \in Nat /\ j \in 0 .. MaxJobs
  BY SMTT(30), ConstantsFacts, TypesAt DEF Ownership, Jobs
<1>2. job[j].type = "provision" /\ job[j].status # "absent"
  BY <1>1 DEF OrphanScan, Covered, JobRow
<1>3. /\ scan' = [job |-> j, attempt |-> job[j].attempt]
      /\ UNCHANGED <<claim, nextToken, job, lastJob, gen, lastGen, settleSeq, exe, live, wire, pc, wk, ep, up, crashes>>
  BY DEF OrphanScan, storeVars
<1>4. TypeOK'
  BY <1>1, <1>3 DEF TypeOK, StoreTypeOK
<1>5. ScanOK'
  BY <1>2, <1>3 DEF ScanOK
<1>6. \A v \in Workers : WorkerOK(v)'
  <2>1. \A v \in Workers : Undisturbed(v)
    BY <1>3 DEF Undisturbed, Holds
  <2> QED BY <2>1, UndisturbedOK DEF Ownership
<1> QED BY <1>3, <1>4, <1>5, <1>6 DEF Ownership, Unique, ClaimRow, JobRow

LEMMA OrphanDisposeStep ==
  ASSUME Ownership, OrphanDispose
  PROVE  Ownership'
<1>1. TypeOK /\ StoreTypeOK /\ ScanOK /\ scan \in [job : 0 .. MaxJobs, attempt : Nat]
  BY DEF Ownership, TypeOK
<1>2. /\ RecoverRun(scan.job, scan.attempt, 0) /\ scan' = NoScan
      /\ UNCHANGED <<claim, nextToken, lastJob, lastGen, live, wire, pc, wk, ep, up, crashes>>
  BY DEF OrphanDispose
<1>3. PICK k \in Jobs, a \in Nat : scan.job = k /\ scan.attempt = a /\ job[k].type = "provision"
  BY <1>1 DEF ScanOK, OrphanDispose
<1>4. Disposed(k, a)
  BY <1>1, <1>2, <1>3, RecoverRunEffect
<1>5. Ended(k, a) \/ UNCHANGED <<job, gen, settleSeq, exe>>
  BY <1>4, DisposedEnds
<1> QED BY <1>2, <1>3, <1>5, RecoverStep
=============================================================================
