---------------------------- MODULE AttachProofs ----------------------------
(***************************************************************************)
(* Theorems about the keyed lease, for any keys and any finite set of      *)
(* users, and about the terminal attach of a tab that stands on it, for    *)
(* any tabs, any finite set of mounts and any sizes: the lease implements  *)
(* the keyed resource, the attach is such a lease, no event crosses tabs,  *)
(* input stays in order and a session knows its size.                      *)
(***************************************************************************)
EXTENDS Attach, FiniteSetTheorems, SequenceTheorems, TLAPS

(* The lease                                                               *)

-----------------------------------------------------------------------------
(* Counting holders *)

(* A slot's holders are finitely many, and none exactly at count zero. *)
LEMMA HoldingFacts ==
    ASSUME NEW s \in Users
    PROVE  /\ IsFiniteSet(Holding(s))
           /\ Cardinality(Holding(s)) \in Nat
           /\ Cardinality(Holding(s)) = 0 <=> Holding(s) = {}
<1>1. IsFiniteSet(Users)
    BY LeaseAssumption
<1>2. Holding(s) \in SUBSET Users
    BY DEF Holding
<1>3. IsFiniteSet(Holding(s))
    BY <1>1, <1>2, FS_Subset
<1> QED
    BY <1>3, FS_CardinalityType, FS_EmptySet

(* The mount that joins a slot adds itself to its holders and no other's. *)
LEMMA MountCounts ==
    ASSUME LeaseTypeOK, NEW u \in Users, NEW k \in Keys, NEW t \in Users,
           Mount(u, k, t)
    PROVE  /\ Cardinality(Holding(t)') = Cardinality(Holding(t)) + 1
           /\ \A s \in Users : s # t => Holding(s)' = Holding(s)
<1>1. Holding(t)' = Holding(t) \cup {u}
    BY DEF Holding, Mount, LeaseTypeOK
<1>2. u \notin Holding(t)
    BY DEF Holding, Mount
<1>3. Cardinality(Holding(t) \cup {u}) = Cardinality(Holding(t)) + 1
    BY <1>2, HoldingFacts, FS_AddElement
<1>4. ASSUME NEW s \in Users, s # t PROVE Holding(s)' = Holding(s)
    BY <1>4 DEF Holding, Mount, LeaseTypeOK
<1> QED
    BY <1>1, <1>3, <1>4

(* A release takes its user out of the holders of the slot it joined. *)
LEMMA ReleaseCounts ==
    ASSUME LeaseTypeOK, UnmountedIsBlank, NEW u \in Users, Release(u)
    PROVE  /\ joined[u] \in Users
           /\ Cardinality(Holding(joined[u])) > 0
           /\ Cardinality(Holding(joined[u])') =
                Cardinality(Holding(joined[u])) - 1
           /\ \A s \in Users : s # joined[u] => Holding(s)' = Holding(s)
<1> DEFINE t == joined[u]
<1>1. t \in Users
    BY DEF UnmountedIsBlank, Release
<1>2. u \in Holding(t)
    BY DEF Holding, Release
<1>3. Holding(t)' = Holding(t) \ {u}
    BY <1>1 DEF Holding, Release, LeaseTypeOK
<1>4. Cardinality(Holding(t) \ {u}) = Cardinality(Holding(t)) - 1
    BY <1>1, <1>2, HoldingFacts, FS_RemoveElement
<1>5. Cardinality(Holding(t)) > 0
    BY <1>1, <1>2, HoldingFacts
<1>6. ASSUME NEW s \in Users, s # t PROVE Holding(s)' = Holding(s)
    BY <1>6 DEF Holding, Release, LeaseTypeOK
<1> QED
    BY <1>1, <1>3, <1>4, <1>5, <1>6

-----------------------------------------------------------------------------
(* The inductive invariant *)

(* The empty map satisfies the invariant. *)
LEMMA InitInvariant == LeaseInit => LeaseInvariant
<1> SUFFICES ASSUME LeaseInit PROVE LeaseInvariant
    OBVIOUS
<1>1. \A s \in Users : Holding(s) = {}
    BY DEF LeaseInit, Holding
<1>2. HoldersAreCounted
    BY <1>1, FS_EmptySet DEF HoldersAreCounted, LeaseInit
<1>3. LeaseTypeOK /\ UnmountedIsBlank /\ UnopenedIsBlank /\ ClosesAreCommitted
    BY DEF LeaseInit, LeaseTypeOK, UnmountedIsBlank, UnopenedIsBlank,
           ClosesAreCommitted
<1>4. MapHoldsTheLive
    BY DEF LeaseInit, MapHoldsTheLive
<1>5. HolderFindsItsSlot /\ UnheldWillClose
    BY DEF LeaseInit, HolderFindsItsSlot, UnheldWillClose
<1> QED
    BY <1>2, <1>3, <1>4, <1>5 DEF LeaseInvariant

(* Joining a slot that is in the map, at any count. *)
LEMMA JoinKeeps ==
    ASSUME LeaseInvariant, NEW u \in Users, NEW k \in Keys, AcquireJoins(u, k)
    PROVE  LeaseInvariant'
<1> DEFINE t == slots[k]
<1> USE DEF LeaseInvariant
<1>1. t \in Users /\ Mount(u, k, t) /\ user[u] = "idle" /\ opening[u] = "none"
    BY DEF AcquireJoins, Mount, LeaseTypeOK, UnmountedIsBlank
<1>2. LeaseTypeOK'
    BY <1>1 DEF AcquireJoins, Mount, LeaseTypeOK
<1>3. HoldersAreCounted'
    BY <1>1, MountCounts DEF HoldersAreCounted, AcquireJoins, LeaseTypeOK
<1>4. UnmountedIsBlank' /\ UnopenedIsBlank' /\ ClosesAreCommitted'
    BY <1>1 DEF UnmountedIsBlank, UnopenedIsBlank, ClosesAreCommitted,
                AcquireJoins, Mount, LeaseTypeOK
<1>5. MapHoldsTheLive'
    BY <1>1 DEF MapHoldsTheLive, AcquireJoins, Mount, LeaseTypeOK
<1>6. HolderFindsItsSlot'
    BY <1>1 DEF HolderFindsItsSlot, AcquireJoins, Mount, LeaseTypeOK
<1>7. u \in Holding(t)'
    BY <1>1 DEF Holding, AcquireJoins, Mount, LeaseTypeOK
<1>8. UnheldWillClose'
    BY <1>1, <1>7, MountCounts DEF UnheldWillClose, AcquireJoins
<1> QED
    BY <1>2, <1>3, <1>4, <1>5, <1>6, <1>8

(* A fresh slot, under a key that had none. *)
LEMMA OpenKeeps ==
    ASSUME LeaseInvariant, NEW u \in Users, NEW k \in Keys, AcquireOpens(u, k)
    PROVE  LeaseInvariant'
<1> USE DEF LeaseInvariant
<1>1. Mount(u, k, u) /\ user[u] = "idle" /\ opening[u] = "none"
    BY DEF AcquireOpens, Mount, UnmountedIsBlank
<1>2. u \notin closed /\ ticks[u] = 0 /\ u # None
    BY <1>1, LeaseAssumption DEF UnopenedIsBlank
<1>3. LeaseTypeOK'
    BY <1>1 DEF AcquireOpens, Mount, LeaseTypeOK
<1>4. Holding(u) = {}
  <2>1. ASSUME NEW v \in Users, user[v] = "mounted", joined[v] = u
        PROVE  FALSE
    <3>1. slots[keyOf[v]] = u /\ keyOf[v] \in Keys
        BY <2>1 DEF HolderFindsItsSlot, UnmountedIsBlank
    <3> QED
        BY <1>1, <1>2, <3>1 DEF MapHoldsTheLive
  <2> QED
    BY <2>1 DEF Holding
<1>5. HoldersAreCounted'
  <2>1. Cardinality(Holding(u)) = 0
    BY <1>4, FS_EmptySet
  <2> QED
    BY <1>1, <2>1, MountCounts DEF HoldersAreCounted, AcquireOpens, LeaseTypeOK
<1>6. UnmountedIsBlank' /\ UnopenedIsBlank' /\ ClosesAreCommitted'
    BY <1>1 DEF UnmountedIsBlank, UnopenedIsBlank, ClosesAreCommitted,
                AcquireOpens, Mount, LeaseTypeOK
<1>7. MapHoldsTheLive'
  <2>1. /\ slots' = [slots EXCEPT ![k] = u]
        /\ opening' = [opening EXCEPT ![u] = "opening"]
        /\ keyOf' = [keyOf EXCEPT ![u] = k]
        /\ closed' = closed
    BY <1>1 DEF AcquireOpens, Mount
  <2>2. ASSUME NEW j \in Keys, slots'[j] # None
        PROVE  /\ keyOf'[slots'[j]] = j
               /\ opening'[slots'[j]] # "none"
               /\ slots'[j] \notin closed'
    <3>1. CASE j = k
        BY <1>2, <2>1, <3>1 DEF LeaseTypeOK
    <3>2. CASE j # k
        BY <1>1, <2>1, <2>2, <3>2 DEF MapHoldsTheLive, LeaseTypeOK
    <3> QED
        BY <3>1, <3>2
  <2>3. ASSUME NEW s \in Users, opening'[s] # "none", s \notin closed'
        PROVE  slots'[keyOf'[s]] = s
    <3>1. CASE s = u
        BY <2>1, <3>1 DEF LeaseTypeOK
    <3>2. CASE s # u
      <4>1. opening[s] # "none" /\ keyOf'[s] = keyOf[s]
        BY <2>1, <2>3, <3>2 DEF LeaseTypeOK
      <4>2. slots[keyOf[s]] = s /\ keyOf[s] \in Keys
        BY <2>1, <2>3, <4>1 DEF MapHoldsTheLive, UnmountedIsBlank
      <4>3. keyOf[s] # k
        BY <4>2, LeaseAssumption DEF AcquireOpens
      <4> QED
        BY <2>1, <4>1, <4>2, <4>3 DEF LeaseTypeOK
    <3> QED
        BY <3>1, <3>2
  <2> QED
    BY <2>2, <2>3 DEF MapHoldsTheLive
<1>8. HolderFindsItsSlot'
  <2> SUFFICES ASSUME NEW v \in Users, user'[v] = "mounted"
               PROVE  slots'[keyOf'[v]] = joined'[v]
    BY DEF HolderFindsItsSlot
  <2>1. CASE v = u
    BY <1>1, <2>1 DEF AcquireOpens, Mount, LeaseTypeOK
  <2>2. CASE v # u
    <3>1. user[v] = "mounted" /\ keyOf'[v] = keyOf[v] /\ joined'[v] = joined[v]
        BY <2>2 DEF AcquireOpens, Mount, LeaseTypeOK
    <3>2. slots[keyOf[v]] = joined[v] /\ joined[v] \in Users /\ keyOf[v] \in Keys
        BY <3>1 DEF HolderFindsItsSlot, UnmountedIsBlank
    <3>3. keyOf[v] # k
        BY <3>2, LeaseAssumption DEF AcquireOpens
    <3> QED
        BY <3>1, <3>2, <3>3 DEF AcquireOpens, LeaseTypeOK
  <2> QED
    BY <2>1, <2>2
<1>9. UnheldWillClose'
  <2>1. u \in Holding(u)'
    BY <1>1 DEF Holding, Mount, LeaseTypeOK
  <2> QED
    BY <1>1, <2>1, MountCounts
    DEF UnheldWillClose, AcquireOpens, LeaseTypeOK
<1> QED
    BY <1>3, <1>5, <1>6, <1>7, <1>8, <1>9

(* A release finds the slot it joined; the last one schedules the tick. *)
LEMMA ReleaseKeeps ==
    ASSUME LeaseInvariant, NEW u \in Users, Release(u)
    PROVE  LeaseInvariant'
<1> DEFINE t == joined[u]
<1> USE DEF LeaseInvariant
<1>1. /\ t \in Users
      /\ Cardinality(Holding(t)) > 0
      /\ Cardinality(Holding(t)') = Cardinality(Holding(t)) - 1
      /\ \A s \in Users : s # t => Holding(s)' = Holding(s)
    BY ReleaseCounts
<1>2. slots[keyOf[u]] = t /\ t # None /\ holders[t] # 0
    BY <1>1, LeaseAssumption, HoldingFacts
    DEF HolderFindsItsSlot, Release, HoldersAreCounted
<1>3. /\ holders' = [holders EXCEPT ![t] = @ - 1]
      /\ ticks' = IF holders[t] = 1 THEN [ticks EXCEPT ![t] = @ + 1] ELSE ticks
    BY <1>2 DEF Release
<1>4. LeaseTypeOK'
    BY <1>1, <1>2, <1>3 DEF Release, LeaseTypeOK
<1>5. HoldersAreCounted'
  <2>1. joined' = joined
    BY DEF Release
  <2> QED
    BY <1>1, <1>3, <2>1, HoldingFacts DEF HoldersAreCounted, LeaseTypeOK
<1>6. UnmountedIsBlank' /\ ClosesAreCommitted' /\ MapHoldsTheLive'
    BY DEF UnmountedIsBlank, ClosesAreCommitted, MapHoldsTheLive, Release,
           LeaseTypeOK
<1>7. UnopenedIsBlank'
  <2>1. opening[t] # "none"
    BY <1>1, <1>2 DEF MapHoldsTheLive, Release, UnmountedIsBlank
  <2> QED
    BY <1>1, <1>3, <2>1 DEF UnopenedIsBlank, Release, LeaseTypeOK
<1>8. HolderFindsItsSlot'
    BY DEF HolderFindsItsSlot, Release, LeaseTypeOK
<1>9. UnheldWillClose'
  <2> SUFFICES ASSUME NEW s \in Users, opening'[s] # "none", Holding(s)' = {}
               PROVE  s \in closed' \/ ticks'[s] > 0
    BY DEF UnheldWillClose
  <2>1. CASE s # t
    BY <1>1, <1>3, <2>1 DEF UnheldWillClose, Release, LeaseTypeOK
  <2>2. CASE s = t
    <3>1. Cardinality(Holding(t)') = 0
        BY <2>2, FS_EmptySet DEF Release
    <3>2. holders[t] = 1
        BY <1>1, <3>1, HoldingFacts DEF HoldersAreCounted
    <3> QED
        BY <1>1, <1>3, <2>2, <3>2 DEF LeaseTypeOK
  <2> QED
    BY <2>1, <2>2
<1> QED
    BY <1>4, <1>5, <1>6, <1>7, <1>8, <1>9

(* The tick closes only what has no holder and is in the map. *)
LEMMA TickKeeps ==
    ASSUME LeaseInvariant, NEW s \in Users, Tick(s)
    PROVE  LeaseInvariant'
<1> USE DEF LeaseInvariant
<1>1. \A t \in Users : Holding(t)' = Holding(t)
    BY DEF Tick, userVars, Holding
<1>2. LeaseTypeOK' /\ HoldersAreCounted' /\ UnmountedIsBlank'
    BY <1>1 DEF Tick, userVars, LeaseTypeOK, HoldersAreCounted,
                UnmountedIsBlank
<1>3. opening[s] # "none"
    BY DEF Tick, UnopenedIsBlank
<1>4. UnopenedIsBlank'
    BY <1>3 DEF Tick, UnopenedIsBlank, LeaseTypeOK
<1>5. CASE ~Commits(s)
  <2>1. ClosesAreCommitted' /\ MapHoldsTheLive' /\ HolderFindsItsSlot'
    BY <1>5 DEF Tick, userVars, ClosesAreCommitted, MapHoldsTheLive,
                HolderFindsItsSlot
  <2>2. s \in closed \/ Holding(s) # {}
    BY <1>5, HoldingFacts DEF Commits, HoldersAreCounted
  <2>3. UnheldWillClose'
    BY <1>1, <1>5, <2>2 DEF Tick, userVars, UnheldWillClose, LeaseTypeOK
  <2> QED
    BY <1>2, <1>4, <2>1, <2>3
<1>6. CASE Commits(s)
  <2>1. s \notin closed /\ Holding(s) = {}
    BY <1>6, HoldingFacts DEF Commits, HoldersAreCounted
  <2>2. /\ closed' = closed \cup {s}
        /\ slots' = [k \in Keys |-> IF slots[k] = s THEN None ELSE slots[k]]
        /\ due' = [due EXCEPT ![s] = @ + 1]
        /\ UNCHANGED <<closes, opening, userVars>>
    BY <1>6 DEF Tick
  <2>3. ClosesAreCommitted'
    BY <2>1, <2>2 DEF ClosesAreCommitted, LeaseTypeOK
  <2>4. MapHoldsTheLive'
    <3>1. ASSUME NEW k \in Keys, slots'[k] # None
          PROVE  /\ keyOf'[slots'[k]] = k
                 /\ opening'[slots'[k]] # "none"
                 /\ slots'[k] \notin closed'
        BY <2>2, <3>1 DEF MapHoldsTheLive, userVars
    <3>2. ASSUME NEW t \in Users, opening'[t] # "none", t \notin closed'
          PROVE  slots'[keyOf'[t]] = t
      <4>1. slots[keyOf[t]] = t /\ t # s
        BY <2>2, <3>2 DEF MapHoldsTheLive
      <4>2. keyOf[t] \in Keys
        BY <2>2, <3>2 DEF UnmountedIsBlank
      <4> QED
        BY <2>2, <4>1, <4>2 DEF userVars
    <3> QED
        BY <3>1, <3>2 DEF MapHoldsTheLive
  <2>5. HolderFindsItsSlot'
    <3> SUFFICES ASSUME NEW u \in Users, user[u] = "mounted"
                 PROVE  slots'[keyOf[u]] = joined[u]
        BY <2>2 DEF HolderFindsItsSlot, userVars
    <3>1. slots[keyOf[u]] = joined[u] /\ keyOf[u] \in Keys
        BY DEF HolderFindsItsSlot, UnmountedIsBlank
    <3>2. joined[u] # s
        BY <2>1 DEF Holding
    <3> QED
        BY <2>2, <3>1, <3>2
  <2>6. UnheldWillClose'
    BY <1>1, <2>2 DEF Tick, UnheldWillClose, LeaseTypeOK
  <2> QED
    BY <1>2, <1>4, <2>3, <2>4, <2>5, <2>6
<1> QED
    BY <1>5, <1>6

(* The promise settles; nothing of the map or the counts moves. *)
LEMMA SettleKeeps ==
    ASSUME LeaseInvariant, NEW s \in Users, NEW outcome \in {"open", "failed"},
           Settle(s, outcome)
    PROVE  LeaseInvariant'
<1> USE DEF LeaseInvariant, Settle, userVars
<1>1. \A t \in Users : Holding(t)' = Holding(t)
    BY DEF Holding
<1>2. /\ LeaseTypeOK'
      /\ \A t \in Users : opening'[t] = "none" <=> opening[t] = "none"
    BY DEF LeaseTypeOK
<1>3. HoldersAreCounted' /\ ClosesAreCommitted' /\ HolderFindsItsSlot'
    BY <1>1 DEF HoldersAreCounted, ClosesAreCommitted, HolderFindsItsSlot
<1>4. UnmountedIsBlank' /\ UnopenedIsBlank' /\ UnheldWillClose'
    BY <1>1, <1>2 DEF UnmountedIsBlank, UnopenedIsBlank, UnheldWillClose
<1>5. MapHoldsTheLive'
    BY <1>2 DEF MapHoldsTheLive, LeaseTypeOK
<1> QED
    BY <1>2, <1>3, <1>4, <1>5

(* The chained close runs: one close due less, one done more. *)
LEMMA CloseKeeps ==
    ASSUME LeaseInvariant, NEW s \in Users, CloseRuns(s)
    PROVE  LeaseInvariant'
<1> USE DEF LeaseInvariant, CloseRuns, userVars
<1>1. \A t \in Users : Holding(t)' = Holding(t)
    BY DEF Holding
<1>2. LeaseTypeOK'
    BY DEF LeaseTypeOK
<1>3. ClosesAreCommitted'
    BY DEF ClosesAreCommitted, LeaseTypeOK
<1>4. HoldersAreCounted' /\ HolderFindsItsSlot' /\ UnheldWillClose'
    BY <1>1 DEF HoldersAreCounted, HolderFindsItsSlot, UnheldWillClose
<1>5. UnmountedIsBlank' /\ UnopenedIsBlank' /\ MapHoldsTheLive'
    BY DEF UnmountedIsBlank, UnopenedIsBlank, MapHoldsTheLive
<1> QED
    BY <1>2, <1>3, <1>4, <1>5

(* Every step keeps the invariant. *)
LEMMA LeaseSteps ==
    ASSUME LeaseInvariant, [LeaseNext]_leaseVars
    PROVE  LeaseInvariant'
<1>1. ASSUME NEW u \in Users, NEW k \in Keys,
             AcquireJoins(u, k) \/ AcquireOpens(u, k)
      PROVE  LeaseInvariant'
  BY <1>1, JoinKeeps, OpenKeeps
<1>2. ASSUME NEW u \in Users, Release(u) PROVE LeaseInvariant'
  BY <1>2, ReleaseKeeps
<1>3. ASSUME NEW u \in Users, Tick(u) PROVE LeaseInvariant'
  BY <1>3, TickKeeps
<1>4. ASSUME NEW u \in Users, Settle(u, "open") \/ Settle(u, "failed")
      PROVE  LeaseInvariant'
  BY <1>4, SettleKeeps
<1>5. ASSUME NEW u \in Users, CloseRuns(u) PROVE LeaseInvariant'
  BY <1>5, CloseKeeps
<1>6. CASE UNCHANGED leaseVars
  BY <1>6 DEF leaseVars, slotVars, userVars, LeaseInvariant, LeaseTypeOK,
              HoldersAreCounted, UnmountedIsBlank, UnopenedIsBlank,
              MapHoldsTheLive, ClosesAreCommitted, HolderFindsItsSlot,
              UnheldWillClose, Holding
<1> QED
  BY <1>1, <1>2, <1>3, <1>4, <1>5, <1>6 DEF LeaseNext

(* The invariant holds throughout. *)
THEOREM LeaseIsInvariant == LeaseSpec => []LeaseInvariant
<1>1. LeaseInvariant /\ [LeaseNext]_leaseVars => LeaseInvariant'
    BY LeaseSteps
<1> QED
    BY InitInvariant, <1>1, PTL DEF LeaseSpec

-----------------------------------------------------------------------------
(* What follows from it *)

(* The file's rule: a release always finds the slot it holds. *)
THEOREM ReleaseFinds == LeaseSpec => []HolderFindsItsSlot
<1>1. LeaseInvariant => HolderFindsItsSlot
    BY DEF LeaseInvariant
<1> QED
    BY <1>1, LeaseIsInvariant, PTL

(* A holder's slot is in the map, and what is in the map is not closed. *)
LEMMA HoldersKeepOpen == LeaseInvariant => HeldIsNotClosed
<1> SUFFICES ASSUME LeaseInvariant, NEW u \in Users, user[u] = "mounted"
             PROVE  /\ joined[u] \notin closed
                    /\ due[joined[u]] = 0
                    /\ closes[joined[u]] = 0
    BY DEF HeldIsNotClosed
<1>1. joined[u] \in Users /\ keyOf[u] \in Keys /\ slots[keyOf[u]] = joined[u]
    BY DEF LeaseInvariant, UnmountedIsBlank, HolderFindsItsSlot
<1>2. joined[u] \notin closed
    BY <1>1, LeaseAssumption DEF LeaseInvariant, MapHoldsTheLive
<1> QED
    BY <1>1, <1>2 DEF LeaseInvariant, ClosesAreCommitted, LeaseTypeOK

(* No resource is closed, or about to be, while somebody holds it. *)
THEOREM HeldStaysOpen == LeaseSpec => []HeldIsNotClosed
BY HoldersKeepOpen, LeaseIsInvariant, PTL

(* However many ticks a slot was scheduled, it is closed once at most. *)
THEOREM NoDoubleClose == LeaseSpec => []ClosedAtMostOnce
<1>1. LeaseInvariant => ClosedAtMostOnce
    BY DEF LeaseInvariant, ClosesAreCommitted, ClosedAtMostOnce
<1> QED
    BY <1>1, LeaseIsInvariant, PTL

-----------------------------------------------------------------------------
(* The lease implements the keyed resource. *)

(* The initial states agree. *)
LEMMA InitRefines == LeaseInit => Resource!Init
    BY DEF LeaseInit, Resource!Init, Uses

(* Joining is sharing; a fresh slot is a resource made. *)
LEMMA AcquireRefines ==
    ASSUME LeaseInvariant, NEW u \in Users, NEW k \in Keys,
           AcquireJoins(u, k) \/ AcquireOpens(u, k)
    PROVE  Resource!Next
<1> USE DEF Uses, LeaseInvariant
<1>1. CASE AcquireJoins(u, k)
  <2>1. Resource!Share(u, k)
    BY <1>1 DEF AcquireJoins, Mount, Resource!Share, LeaseTypeOK
  <2> QED
    BY <2>1 DEF Resource!Next
<1>2. CASE AcquireOpens(u, k)
  <2>1. Resource!Make(u, k)
    BY <1>2 DEF AcquireOpens, Mount, Resource!Make, LeaseTypeOK,
                UnmountedIsBlank
  <2> QED
    BY <2>1 DEF Resource!Next
<1> QED
    BY <1>1, <1>2

(* A release is a leave. *)
LEMMA ReleaseRefines ==
    ASSUME LeaseInvariant, NEW u \in Users, Release(u)
    PROVE  Resource!Next
<1>1. Uses[u] # None
    BY LeaseAssumption DEF LeaseInvariant, UnmountedIsBlank, Release, Uses
<1>2. Uses' = [Uses EXCEPT ![u] = None]
    BY DEF Release, Uses, LeaseInvariant, LeaseTypeOK
<1>3. Resource!Leave(u)
    BY <1>1, <1>2 DEF Resource!Leave, Release
<1> QED
    BY <1>3 DEF Resource!Next

(* A tick that commits retires the unused current resource of its key; one
   that does not is invisible. *)
LEMMA TickRefines ==
    ASSUME LeaseInvariant, NEW s \in Users, Tick(s)
    PROVE  Resource!Next \/ UNCHANGED Resource!rvars
<1> DEFINE k == keyOf[s]
<1> USE DEF LeaseInvariant
<1>1. Uses' = Uses
    BY DEF Tick, userVars, Uses
<1>2. CASE ~Commits(s)
    BY <1>1, <1>2 DEF Tick, userVars, Resource!rvars
<1>3. CASE Commits(s)
  <2>1. opening[s] # "none" /\ s \notin closed
    BY <1>3 DEF Tick, Commits, UnopenedIsBlank
  <2>2. k \in Keys /\ slots[k] = s
    BY <2>1 DEF UnmountedIsBlank, MapHoldsTheLive
  <2>3. Resource!Unused(s)
    <3>1. Holding(s) = {}
        BY <1>3, HoldingFacts DEF Commits, HoldersAreCounted
    <3> QED
        BY <3>1, LeaseAssumption DEF Resource!Unused, Uses, Holding
  <2>4. slots' = [slots EXCEPT ![k] = None]
    <3>1. \A j \in Keys : slots[j] = s => j = k
        BY LeaseAssumption DEF MapHoldsTheLive
    <3> QED
        BY <1>3, <2>2, <3>1 DEF Tick, LeaseTypeOK
  <2>5. Resource!Retire(k, s)
    BY <1>1, <1>3, <2>2, <2>3, <2>4 DEF Resource!Retire, Tick
  <2> QED
    BY <2>2, <2>5 DEF Resource!Next
<1> QED
    BY <1>2, <1>3

(* Settling is settling, and the chained close shuts a retired resource. *)
LEMMA SettleRefines ==
    ASSUME LeaseInvariant, NEW s \in Users,
           Settle(s, "open") \/ Settle(s, "failed")
    PROVE  Resource!Next
<1>1. Uses' = Uses
    BY DEF Settle, userVars, Uses
<1>2. Resource!Settle(s, "open") \/ Resource!Settle(s, "failed")
    BY <1>1 DEF Settle, Resource!Settle
<1> QED
    BY <1>2 DEF Resource!Next

(* The chained close shuts a resource that retired and had opened. *)
LEMMA CloseRefines ==
    ASSUME LeaseInvariant, NEW s \in Users, CloseRuns(s)
    PROVE  Resource!Next
<1> DEFINE shut == {t \in Users : closes[t] > 0}
<1>1. Uses' = Uses
    BY DEF CloseRuns, userVars, Uses
<1>2. s \in closed /\ closes[s] = 0
  <2>1. due[s] \in Nat /\ closes[s] \in Nat /\ due[s] > 0
    BY DEF LeaseInvariant, LeaseTypeOK, CloseRuns
  <2>2. due[s] + closes[s] = IF s \in closed THEN 1 ELSE 0
    BY DEF LeaseInvariant, ClosesAreCommitted
  <2> QED
    BY <2>1, <2>2
<1>3. shut' = shut \cup {s}
    BY <1>2 DEF CloseRuns, LeaseInvariant, LeaseTypeOK
<1>4. Resource!Shut(s)
    BY <1>1, <1>2, <1>3 DEF Resource!Shut, CloseRuns
<1> QED
    BY <1>4 DEF Resource!Next

(* The refinement: every behaviour of the lease is one of the keyed resource. *)
THEOREM LeaseImplements == LeaseSpec => ImplementsKeyedResource
<1>1. LeaseInit => Resource!Init
    BY InitRefines
<1>2. LeaseInvariant /\ [LeaseNext]_leaseVars => [Resource!Next]_Resource!rvars
  <2> SUFFICES ASSUME LeaseInvariant, [LeaseNext]_leaseVars
               PROVE  Resource!Next \/ UNCHANGED Resource!rvars
    OBVIOUS
  <2>1. ASSUME NEW u \in Users, NEW k \in Keys,
               AcquireJoins(u, k) \/ AcquireOpens(u, k)
        PROVE  Resource!Next
    BY <2>1, AcquireRefines
  <2>2. ASSUME NEW u \in Users, Release(u) PROVE Resource!Next
    BY <2>2, ReleaseRefines
  <2>3. ASSUME NEW u \in Users, Tick(u)
        PROVE  Resource!Next \/ UNCHANGED Resource!rvars
    BY <2>3, TickRefines
  <2>4. ASSUME NEW u \in Users, Settle(u, "open") \/ Settle(u, "failed")
        PROVE  Resource!Next
    BY <2>4, SettleRefines
  <2>5. ASSUME NEW u \in Users, CloseRuns(u) PROVE Resource!Next
    BY <2>5, CloseRefines
  <2>6. CASE UNCHANGED leaseVars
    BY <2>6 DEF leaseVars, slotVars, userVars, Resource!rvars, Uses
  <2> QED
    BY <2>1, <2>2, <2>3, <2>4, <2>5, <2>6 DEF LeaseNext
<1> QED
    BY <1>1, <1>2, LeaseIsInvariant, PTL
    DEF LeaseSpec, ImplementsKeyedResource, Resource!Spec

-----------------------------------------------------------------------------
(* The terminal attach                                                     *)

(* A key has one mount at a time. *)
OneMountPerKey ==
    \A u, v \in Users :
        user[u] = "mounted" /\ user[v] = "mounted" /\ keyOf[u] = keyOf[v] => u = v

(* Channels have owners of their key: in the map, as a session's target,   *)
(* and through whoever took the handler over.                              *)
ChannelsKeepTheirKey ==
    /\ \A k \in Keys : channels[k] # None =>
           keyOf[channels[k]] = k /\ bound[channels[k]] # None
    /\ \A c \in Users : bound[c] # None =>
           /\ user[c] # "idle" /\ user[bound[c]] # "idle"
           /\ keyOf[bound[c]] = keyOf[c]
    /\ \A s \in Users : opening[s] # "none" =>
           /\ given[s] # None /\ bound[given[s]] # None
           /\ keyOf[given[s]] = keyOf[s]

(* A mount knows the session it joined, or none yet. *)
KnowsItsSession ==
    \A u \in Users : user[u] # "gone" => id[u] \in {joined[u], None}

(* Nothing is queued for a mount that knows its session; a mount that was  *)
(* never made has typed nothing.                                           *)
QueuedUntilKnown ==
    /\ \A u \in Users : user[u] = "mounted" /\ id[u] # None => typedAhead[u] = <<>>
    /\ \A u \in Users : user[u] = "idle" =>
           /\ id[u] = None /\ size[u] = None /\ typed[u] = 0
           /\ typedAhead[u] = <<>> /\ sentKeys[u] = <<>>

AttachInvariant ==
    /\ AttachTypeOK
    /\ OneMountPerKey
    /\ ChannelsKeepTheirKey
    /\ KnowsItsSession
    /\ QueuedUntilKnown
    /\ InputInOrder
    /\ SessionKnowsTheSize

-----------------------------------------------------------------------------
(* The attach is a lease. *)

(* Every step of the attach is a step of the lease under it, or none. *)
LEMMA AttachSteps ==
    ASSUME [AttachNext]_attachVars
    PROVE  [LeaseNext]_leaseVars
<1>1. ASSUME NEW u \in Users, NEW k \in Keys, AttachMount(u, k)
      PROVE  LeaseNext
    BY <1>1 DEF AttachMount, LeaseNext
<1>2. ASSUME NEW u \in Users,
             Dispose(u) \/ AttachTick(u) \/ ClosePty(u)
             \/ AttachSettle(u, "open") \/ AttachSettle(u, "failed")
      PROVE  LeaseNext
    BY <1>2 DEF Dispose, AttachTick, ClosePty, AttachSettle, LeaseNext
<1>3. ASSUME NEW u \in Users, \/ AttachOpened(u) \/ Write(u)
                              \/ \E z \in Sizes : TerminalResize(u, z)
      PROVE  UNCHANGED leaseVars
    BY <1>3 DEF AttachOpened, Write, TerminalResize
<1>4. UNCHANGED attachVars => UNCHANGED leaseVars
    BY DEF attachVars
<1> QED
    BY <1>1, <1>2, <1>3, <1>4 DEF AttachNext

(* createAttach, for one tab, uses the lease only as anybody may: what is   *)
(* proved of the lease holds of a tab's attach.                             *)
THEOREM AttachIsALease == AttachSpec => LeaseSpec
<1>1. AttachInit => LeaseInit
    BY DEF AttachInit
<1>2. [AttachNext]_attachVars => [LeaseNext]_leaseVars
    BY AttachSteps
<1> QED
    BY <1>1, <1>2, PTL DEF AttachSpec, LeaseSpec

-----------------------------------------------------------------------------
(* Keystrokes in their order. *)
Numbered(n) == [i \in 1..n |-> i]

(* The numbers up to n are a sequence of n elements. *)
LEMMA NumberedIsASeq ==
    ASSUME NEW n \in Nat, NEW S, \A i \in 1..n : i \in S
    PROVE  Numbered(n) \in Seq(S) /\ Len(Numbered(n)) = n
<1>1. Numbered(n) \in [1..n -> S]
    BY DEF Numbered
<1>2. Numbered(n) \in Seq(S)
    BY <1>1, SeqDef
<1>3. Len(Numbered(n)) \in Nat /\ 1..Len(Numbered(n)) = 1..n
    BY <1>1, <1>2, LenProperties
<1> QED
    BY <1>2, <1>3

(* One more keystroke at the end of what is queued is one at the end. *)
LEMMA NextIsLast ==
    ASSUME NEW n \in 0..MaxTyped, n < MaxTyped,
           NEW sent \in Seq(1..MaxTyped), NEW queued \in Seq(1..MaxTyped),
           sent \o queued = Numbered(n)
    PROVE  /\ n + 1 \in 1..MaxTyped
           /\ sent \o Append(queued, n + 1) = Numbered(n + 1)
<1>1. n + 1 \in 1..MaxTyped /\ n \in Nat
    BY AttachAssumption
<1>2. Append(queued, n + 1) = queued \o <<n + 1>> /\ <<n + 1>> \in Seq(1..MaxTyped)
    BY <1>1, AppendIsConcat
<1>3. sent \o Append(queued, n + 1) = (sent \o queued) \o <<n + 1>>
    BY <1>1, <1>2, ConcatAssociative
<1>4. Numbered(n) \in Seq(1..MaxTyped) /\ Len(Numbered(n)) = n
    BY <1>1, AttachAssumption, NumberedIsASeq
<1>5. Numbered(n) \o <<n + 1>> = Append(Numbered(n), n + 1)
    BY <1>1, <1>4, AppendIsConcat
<1>6. Append(Numbered(n), n + 1) = Numbered(n + 1)
    <2> DEFINE s == Append(Numbered(n), n + 1)
               t == Numbered(n + 1)
    <2>1. /\ s \in Seq(1..MaxTyped) /\ Len(s) = n + 1
          /\ \A i \in 1..n : s[i] = Numbered(n)[i]
          /\ s[n + 1] = n + 1
        BY <1>1, <1>4, AppendProperties
    <2>2. t \in Seq(1..MaxTyped) /\ Len(t) = n + 1
        BY <1>1, AttachAssumption, NumberedIsASeq
    <2>3. \A i \in 1..(n + 1) : t[i] = i
        BY DEF Numbered
    <2>4. \A i \in 1..(n + 1) : s[i] = i
        BY <1>1, <2>1 DEF Numbered
    <2> HIDE DEF s, t
    <2>5. s = t
        BY <1>1, <2>1, <2>2, <2>3, <2>4, SeqEqual
    <2> QED
        BY <2>5 DEF s, t
<1> QED
    BY <1>1, <1>3, <1>5, <1>6

-----------------------------------------------------------------------------
(* The inductive invariant. *)

(* To begin with there is no channel and nobody has typed. *)
LEMMA AttachStarts == AttachInit => AttachInvariant
<1> SUFFICES ASSUME AttachInit PROVE AttachInvariant
    OBVIOUS
<1> USE DEF AttachInit
<1>1. AttachTypeOK
    BY InitInvariant, AttachAssumption DEF AttachTypeOK, LeaseInvariant
<1>2. OneMountPerKey /\ ChannelsKeepTheirKey /\ KnowsItsSession /\ QueuedUntilKnown
    BY DEF LeaseInit, OneMountPerKey, ChannelsKeepTheirKey, KnowsItsSession, QueuedUntilKnown
<1>3. InputInOrder /\ SessionKnowsTheSize
    BY DEF LeaseInit, InputInOrder, SessionKnowsTheSize
<1> QED
    BY <1>1, <1>2, <1>3 DEF AttachInvariant

(* A mount takes over the channel of its tab, or brings one. *)
LEMMA MountKeepsAttach ==
    ASSUME AttachInvariant, LeaseInvariant, LeaseInvariant',
           NEW u \in Users, NEW k \in Keys, AttachMount(u, k)
    PROVE  AttachInvariant'
<1> DEFINE c == ChannelFor(u, k)
           s == IF slots[k] = None THEN u ELSE slots[k]
<1> USE DEF AttachInvariant
<1>1. /\ user[u] = "idle" /\ user' = [user EXCEPT ![u] = "mounted"]
      /\ keyOf' = [keyOf EXCEPT ![u] = k] /\ joined' = [joined EXCEPT ![u] = s]
    BY DEF AttachMount, AcquireJoins, AcquireOpens, Mount
<1>2. c \in Users /\ (channels[k] # None => c = channels[k]) /\ (channels[k] = None => c = u)
    BY DEF AttachTypeOK, ChannelFor
<1>3. /\ channels' = [channels EXCEPT ![k] = c]
      /\ chan' = [chan EXCEPT ![u] = c]
      /\ bound' = [bound EXCEPT ![c] = u]
      /\ UNCHANGED inputVars
    BY DEF AttachMount
<1>4. \/ UNCHANGED <<given, opening>> /\ opening[s] # "none"
      \/ given' = [given EXCEPT ![u] = c] /\ opening' = [opening EXCEPT ![u] = "opening"]
    BY DEF AttachMount, AcquireJoins, AcquireOpens, LeaseInvariant, MapHoldsTheLive
<1>5. AttachTypeOK'
    <2>1. given' \in [Users -> Users \cup {None}]
        BY <1>2, <1>4 DEF AttachTypeOK
    <2>2. /\ channels' \in [Keys -> Users \cup {None}]
          /\ chan' \in [Users -> Users \cup {None}]
          /\ bound' \in [Users -> Users \cup {None}]
        BY <1>2, <1>3 DEF AttachTypeOK
    <2> QED
        BY <1>3, <2>1, <2>2 DEF AttachTypeOK, LeaseInvariant, inputVars
<1>6. OneMountPerKey'
    BY <1>1 DEF OneMountPerKey, AttachMount, FirstOfItsTab, AttachTypeOK, LeaseTypeOK
<1>7. ChannelsKeepTheirKey'
    <2>1. \A v \in Users : user[v] # "idle" => v # u /\ keyOf'[v] = keyOf[v] /\ user'[v] # "idle"
        BY <1>1 DEF AttachTypeOK, LeaseTypeOK
    <2>2. keyOf'[u] = k /\ user'[u] = "mounted" /\ keyOf'[c] = k /\ user'[c] # "idle"
        BY <1>1, <1>2, <2>1 DEF AttachTypeOK, LeaseTypeOK, ChannelsKeepTheirKey
    <2>3. /\ bound'[c] = u /\ channels'[k] = c
          /\ \A d \in Users : d # c => bound'[d] = bound[d]
          /\ \A j \in Keys : j # k => channels'[j] = channels[j]
        BY <1>2, <1>3 DEF AttachTypeOK
    <2>4. ASSUME NEW j \in Keys, channels'[j] # None
          PROVE  keyOf'[channels'[j]] = j /\ bound'[channels'[j]] # None
        <3>1. CASE j = k
            BY <1>2, <2>2, <2>3, <3>1, LeaseAssumption
        <3>2. CASE j # k
            <4>1. channels'[j] = channels[j] /\ channels[j] \in Users
                BY <2>3, <2>4, <3>2 DEF AttachTypeOK
            <4>2. keyOf[channels[j]] = j /\ bound[channels[j]] # None
                BY <2>4, <4>1 DEF ChannelsKeepTheirKey
            <4> QED
                BY <2>1, <2>3, <4>1, <4>2, LeaseAssumption DEF ChannelsKeepTheirKey
        <3> QED
            BY <3>1, <3>2
    <2>5. ASSUME NEW d \in Users, bound'[d] # None
          PROVE  /\ user'[d] # "idle" /\ user'[bound'[d]] # "idle"
                 /\ keyOf'[bound'[d]] = keyOf'[d]
        <3>1. CASE d = c
            BY <2>2, <2>3, <3>1
        <3>2. CASE d # c
            BY <2>1, <2>3, <2>5, <3>2 DEF ChannelsKeepTheirKey, AttachTypeOK
        <3> QED
            BY <3>1, <3>2
    <2>6. ASSUME NEW t \in Users, opening'[t] # "none"
          PROVE  /\ given'[t] # None /\ bound'[given'[t]] # None
                 /\ keyOf'[given'[t]] = keyOf'[t]
        <3>1. CASE opening[t] # "none"
            <4>1. /\ given[t] # None /\ bound[given[t]] # None /\ given[t] \in Users
                  /\ keyOf[given[t]] = keyOf[t]
                BY <3>1 DEF ChannelsKeepTheirKey, AttachTypeOK
            <4>2. user[t] # "idle" /\ user[given[t]] # "idle"
                BY <3>1, <4>1 DEF ChannelsKeepTheirKey, LeaseInvariant, UnmountedIsBlank
            <4>3. given'[t] = given[t]
                BY <1>1, <1>4, <4>2 DEF AttachTypeOK
            <4> QED
                BY <2>1, <2>3, <4>1, <4>2, <4>3, LeaseAssumption
        <3>2. CASE opening[t] = "none"
            <4>1. t = u /\ given'[u] = c
                BY <1>4, <2>6, <3>2 DEF AttachTypeOK, LeaseTypeOK
            <4> QED
                BY <1>2, <2>2, <2>3, <4>1, LeaseAssumption
        <3> QED
            BY <3>1, <3>2
    <2> QED
        BY <2>4, <2>5, <2>6 DEF ChannelsKeepTheirKey
<1>8. KnowsItsSession' /\ QueuedUntilKnown'
    BY <1>1, <1>3 DEF KnowsItsSession, QueuedUntilKnown, inputVars, AttachTypeOK, LeaseTypeOK
<1>9. InputInOrder' /\ SessionKnowsTheSize'
    <2>1. \A v \in Users : user'[v] = "mounted" => v = u \/ user[v] = "mounted"
        BY <1>1 DEF AttachTypeOK, LeaseTypeOK
    <2>2. sentKeys[u] \o typedAhead[u] = [i \in 1..typed[u] |-> i]
        <3>1. sentKeys[u] = <<>> /\ typedAhead[u] = <<>> /\ typed[u] = 0
            BY <1>1 DEF QueuedUntilKnown
        <3>2. [i \in 1..0 |-> i] = <<>>
            OBVIOUS
        <3>3. <<>> \o <<>> = <<>>
            BY EmptySeq, ConcatEmptySeq
        <3> QED
            BY <3>1, <3>2, <3>3
    <2>3. id[u] = None
        BY <1>1 DEF QueuedUntilKnown
    <2> QED
        BY <1>3, <2>1, <2>2, <2>3 DEF InputInOrder, SessionKnowsTheSize, inputVars
<1> QED
    BY <1>5, <1>6, <1>7, <1>8, <1>9

(* Two mounts have two sessions. *)
LEMMA MountsDiffer ==
    ASSUME LeaseInvariant, OneMountPerKey, NEW u \in Users, NEW v \in Users, u # v,
           user[u] = "mounted", user[v] = "mounted"
    PROVE  joined[u] # joined[v]
<1>1. keyOf[u] \in Keys /\ keyOf[v] \in Keys /\ joined[u] \in Users /\ joined[v] \in Users
    BY DEF LeaseInvariant, UnmountedIsBlank
<1>2. slots[keyOf[u]] = joined[u] /\ slots[keyOf[v]] = joined[v]
    BY DEF LeaseInvariant, HolderFindsItsSlot
<1>3. keyOf[joined[u]] = keyOf[u] /\ keyOf[joined[v]] = keyOf[v]
    BY <1>1, <1>2, LeaseAssumption DEF LeaseInvariant, MapHoldsTheLive
<1> QED
    BY <1>3 DEF OneMountPerKey

(* Steps that leave mounts, keys, channels and what was opened as they are  *)
(* keep the parts about them.                                               *)
LEMMA PlacesStay ==
    ASSUME AttachInvariant, UNCHANGED <<user, keyOf, joined, channelVars>>,
           \A s \in Users : opening'[s] # "none" => opening[s] # "none"
    PROVE  OneMountPerKey' /\ ChannelsKeepTheirKey'
BY DEF AttachInvariant, OneMountPerKey, ChannelsKeepTheirKey, channelVars

(* The answer of attach_open: the queue goes out, then the size. *)
LEMMA OpenedKeepsAttach ==
    ASSUME AttachInvariant, LeaseInvariant, LeaseInvariant', NEW u \in Users, AttachOpened(u)
    PROVE  AttachInvariant'
<1> DEFINE s == joined[u]
<1> USE DEF AttachInvariant
<1>1. /\ user[u] = "mounted" /\ id[u] = None /\ s \in Users
      /\ id' = [id EXCEPT ![u] = s]
      /\ sentKeys' = [sentKeys EXCEPT ![u] = @ \o typedAhead[u]]
      /\ typedAhead' = [typedAhead EXCEPT ![u] = <<>>]
      /\ UNCHANGED <<leaseVars, channelVars, typed, size>>
    BY DEF AttachOpened, LeaseInvariant, UnmountedIsBlank
<1>2. PICK live \in Sizes \cup {None} :
        LET z == IF size[u] = None THEN live ELSE size[u] IN
        told' = IF z = None THEN told ELSE [told EXCEPT ![s] = z]
    BY DEF AttachOpened
<1>3. sentKeys[u] \o typedAhead[u] \in Seq(1..MaxTyped)
    BY ConcatProperties DEF AttachTypeOK
<1>4. AttachTypeOK'
    BY <1>1, <1>2, <1>3, EmptySeq DEF AttachTypeOK, LeaseInvariant, channelVars
<1>5. OneMountPerKey' /\ ChannelsKeepTheirKey'
    BY <1>1, PlacesStay DEF leaseVars, slotVars, userVars
<1>6. KnowsItsSession' /\ QueuedUntilKnown'
    BY <1>1 DEF KnowsItsSession, QueuedUntilKnown, leaseVars, userVars, AttachTypeOK
<1>7. InputInOrder'
    <2>1. (sentKeys[u] \o typedAhead[u]) \o <<>> = sentKeys[u] \o typedAhead[u]
        BY <1>3, ConcatEmptySeq
    <2> QED
        BY <1>1, <2>1 DEF InputInOrder, leaseVars, userVars, AttachTypeOK
<1>8. SessionKnowsTheSize'
    <2> SUFFICES ASSUME NEW v \in Users, user[v] = "mounted", id'[v] # None, size[v] # None
                 PROVE  told'[id'[v]] = size[v]
        BY <1>1 DEF SessionKnowsTheSize, leaseVars, userVars
    <2>1. CASE v = u
        BY <1>1, <1>2, <2>1 DEF AttachTypeOK
    <2>2. CASE v # u
        <3>1. id'[v] = id[v] /\ id[v] = joined[v] /\ joined[v] \in Users
            BY <1>1, <2>2 DEF KnowsItsSession, AttachTypeOK, LeaseInvariant, UnmountedIsBlank
        <3>2. joined[v] # s
            BY <1>1, <2>2, MountsDiffer
        <3> QED
            BY <1>1, <1>2, <3>1, <3>2 DEF SessionKnowsTheSize, AttachTypeOK
    <2> QED
        BY <2>1, <2>2
<1> QED
    BY <1>4, <1>5, <1>6, <1>7, <1>8

(* A keystroke goes to the end of what was typed, sent or queued. *)
LEMMA WriteKeepsAttach ==
    ASSUME AttachInvariant, LeaseInvariant, LeaseInvariant', NEW u \in Users, Write(u)
    PROVE  AttachInvariant'
<1> DEFINE n == typed[u]
<1> USE DEF AttachInvariant
<1>1. /\ user[u] = "mounted" /\ n \in 0..MaxTyped /\ n < MaxTyped
      /\ typed' = [typed EXCEPT ![u] = n + 1] /\ typed'[u] = n + 1
      /\ UNCHANGED <<leaseVars, channelVars, id, size, told>>
    BY DEF Write, AttachTypeOK
<1>2. \/ /\ id[u] = None
         /\ typedAhead' = [typedAhead EXCEPT ![u] = Append(@, n + 1)] /\ UNCHANGED sentKeys
      \/ /\ id[u] # None
         /\ sentKeys' = [sentKeys EXCEPT ![u] = Append(@, n + 1)] /\ UNCHANGED typedAhead
    BY <1>1 DEF Write
<1>3. /\ sentKeys[u] \in Seq(1..MaxTyped) /\ typedAhead[u] \in Seq(1..MaxTyped)
      /\ sentKeys[u] \o typedAhead[u] = Numbered(n)
    BY <1>1 DEF AttachTypeOK, InputInOrder, Numbered
<1>4. n + 1 \in 1..MaxTyped /\ sentKeys[u] \o Append(typedAhead[u], n + 1) = Numbered(n + 1)
    BY <1>1, <1>3, NextIsLast
<1>5. Append(sentKeys[u], n + 1) \in Seq(1..MaxTyped)
      /\ Append(typedAhead[u], n + 1) \in Seq(1..MaxTyped)
    BY <1>3, <1>4, AppendProperties
<1>6. AttachTypeOK'
    <2>1. typed' \in [Users -> 0..MaxTyped]
        BY <1>1, <1>4, AttachAssumption DEF AttachTypeOK
    <2>2. typedAhead' \in [Users -> Seq(1..MaxTyped)] /\ sentKeys' \in [Users -> Seq(1..MaxTyped)]
        BY <1>2, <1>5 DEF AttachTypeOK
    <2> QED
        BY <1>1, <2>1, <2>2 DEF AttachTypeOK, LeaseInvariant, channelVars
<1>7. OneMountPerKey' /\ ChannelsKeepTheirKey'
    BY <1>1, PlacesStay DEF leaseVars, slotVars, userVars
<1>8. KnowsItsSession' /\ QueuedUntilKnown' /\ SessionKnowsTheSize'
    BY <1>1, <1>2 DEF KnowsItsSession, QueuedUntilKnown, SessionKnowsTheSize, leaseVars,
                      userVars, AttachTypeOK
<1>9. InputInOrder'
    <2>1. \A v \in Users : v # u => /\ typed'[v] = typed[v] /\ typedAhead'[v] = typedAhead[v]
                                    /\ sentKeys'[v] = sentKeys[v]
        BY <1>1, <1>2 DEF AttachTypeOK
    <2>2. sentKeys'[u] \o typedAhead'[u] = Numbered(n + 1)
        <3>1. CASE id[u] = None
            BY <1>2, <1>4, <3>1 DEF AttachTypeOK
        <3>2. CASE id[u] # None
            <4>1. typedAhead[u] = <<>> /\ typedAhead'[u] = <<>>
                BY <1>1, <1>2, <3>2 DEF QueuedUntilKnown
            <4>2. /\ Append(<<>>, n + 1) = <<n + 1>>
                  /\ Append(sentKeys[u], n + 1) = sentKeys[u] \o <<n + 1>>
                BY <1>3, <1>4, AppendIsConcat
            <4>3. sentKeys'[u] = Append(sentKeys[u], n + 1)
                BY <1>2, <3>2 DEF AttachTypeOK
            <4>4. Append(sentKeys[u], n + 1) \o <<>> = Append(sentKeys[u], n + 1)
                BY <1>5, ConcatEmptySeq
            <4> QED
                BY <1>4, <4>1, <4>2, <4>3, <4>4
        <3> QED
            BY <3>1, <3>2
    <2> QED
        BY <1>1, <2>1, <2>2 DEF InputInOrder, Numbered, leaseVars, userVars
<1> QED
    BY <1>6, <1>7, <1>8, <1>9

(* A report of the size is the last word, to the one session it goes to. *)
LEMMA ResizeKeepsAttach ==
    ASSUME AttachInvariant, LeaseInvariant, LeaseInvariant',
           NEW u \in Users, NEW z \in Sizes, TerminalResize(u, z)
    PROVE  AttachInvariant'
<1> USE DEF AttachInvariant
<1>1. /\ user[u] = "mounted" /\ size' = [size EXCEPT ![u] = z]
      /\ told' = IF id[u] = None THEN told ELSE [told EXCEPT ![id[u]] = z]
      /\ UNCHANGED <<leaseVars, channelVars, id, typed, typedAhead, sentKeys>>
    BY DEF TerminalResize
<1>2. AttachTypeOK'
    BY <1>1 DEF AttachTypeOK, LeaseInvariant, channelVars
<1>3. OneMountPerKey' /\ ChannelsKeepTheirKey'
    BY <1>1, PlacesStay DEF leaseVars, slotVars, userVars
<1>4. KnowsItsSession' /\ QueuedUntilKnown' /\ InputInOrder'
    BY <1>1 DEF KnowsItsSession, QueuedUntilKnown, InputInOrder, leaseVars, userVars, AttachTypeOK
<1>5. SessionKnowsTheSize'
    <2> SUFFICES ASSUME NEW v \in Users, user[v] = "mounted", id[v] # None, size'[v] # None
                 PROVE  told'[id[v]] = size'[v]
        BY <1>1 DEF SessionKnowsTheSize, leaseVars, userVars
    <2>1. id[v] = joined[v] /\ joined[v] \in Users
        BY DEF KnowsItsSession, AttachTypeOK
    <2>2. CASE v = u
        BY <1>1, <2>1, <2>2 DEF AttachTypeOK
    <2>3. CASE v # u
        <3>1. size'[v] = size[v] /\ told[id[v]] = size[v]
            BY <1>1, <2>3 DEF SessionKnowsTheSize, AttachTypeOK
        <3>2. id[u] # id[v]
            BY <1>1, <2>1, <2>3, MountsDiffer DEF KnowsItsSession
        <3> QED
            BY <1>1, <2>1, <3>1, <3>2 DEF AttachTypeOK
    <2> QED
        BY <2>2, <2>3
<1> QED
    BY <1>2, <1>3, <1>4, <1>5

(* An unmounted tab has no more say. *)
LEMMA DisposeKeepsAttach ==
    ASSUME AttachInvariant, LeaseInvariant, LeaseInvariant', NEW u \in Users, Dispose(u)
    PROVE  AttachInvariant'
<1> USE DEF AttachInvariant
<1>1. /\ user[u] = "mounted" /\ user' = [user EXCEPT ![u] = "gone"]
      /\ typed' = [typed EXCEPT ![u] = 0] /\ sentKeys' = [sentKeys EXCEPT ![u] = <<>>]
      /\ UNCHANGED <<keyOf, joined, opening, channelVars, id, typedAhead, size, told>>
    BY DEF Dispose, Release
<1>2. AttachTypeOK'
    <2>1. <<>> \in Seq(1..MaxTyped) /\ 0 \in 0..MaxTyped
        BY EmptySeq, AttachAssumption
    <2> QED
        BY <1>1, <2>1 DEF AttachTypeOK, LeaseInvariant, channelVars
<1>3. \A v \in Users : /\ user'[v] = "mounted" => user[v] = "mounted" /\ v # u
                       /\ user'[v] = "idle" <=> user[v] = "idle"
    BY <1>1 DEF AttachTypeOK, LeaseTypeOK
<1>4. OneMountPerKey' /\ ChannelsKeepTheirKey'
    BY <1>1, <1>3 DEF OneMountPerKey, ChannelsKeepTheirKey, channelVars, AttachTypeOK
<1>5. KnowsItsSession'
    BY <1>1 DEF KnowsItsSession, AttachTypeOK, LeaseTypeOK
<1>6. QueuedUntilKnown' /\ InputInOrder' /\ SessionKnowsTheSize'
    BY <1>1, <1>3 DEF QueuedUntilKnown, InputInOrder, SessionKnowsTheSize, AttachTypeOK
<1> QED
    BY <1>2, <1>4, <1>5, <1>6

(* What happens in the lease alone leaves the tabs as they are; a close     *)
(* forgets the channel of its key.                                          *)
LEMMA LeaseStepsKeepAttach ==
    ASSUME AttachInvariant, LeaseInvariant, LeaseInvariant', NEW s \in Users,
           \/ AttachTick(s) \/ AttachSettle(s, "open") \/ AttachSettle(s, "failed")
           \/ ClosePty(s)
    PROVE  AttachInvariant'
<1> USE DEF AttachInvariant
<1>1. UNCHANGED <<userVars, chan, bound, given, inputVars>>
    BY DEF AttachTick, Tick, AttachSettle, Settle, ClosePty, CloseRuns, channelVars
<1>2. \A t \in Users : opening'[t] # "none" => opening[t] # "none"
    BY DEF AttachTick, Tick, AttachSettle, Settle, ClosePty, CloseRuns, AttachTypeOK, LeaseTypeOK
<1>3. /\ channels' \in [Keys -> Users \cup {None}]
      /\ \A k \in Keys : channels'[k] \in {channels[k], None}
    BY DEF AttachTick, AttachSettle, ClosePty, channelVars, AttachTypeOK
<1>4. AttachTypeOK'
    BY <1>1, <1>3 DEF AttachTypeOK, LeaseInvariant, inputVars
<1>5. OneMountPerKey' /\ ChannelsKeepTheirKey'
    BY <1>1, <1>2, <1>3 DEF OneMountPerKey, ChannelsKeepTheirKey, userVars
<1>6. KnowsItsSession' /\ QueuedUntilKnown' /\ InputInOrder' /\ SessionKnowsTheSize'
    BY <1>1 DEF KnowsItsSession, QueuedUntilKnown, InputInOrder, SessionKnowsTheSize, userVars,
                inputVars
<1> QED
    BY <1>4, <1>5, <1>6

-----------------------------------------------------------------------------
(* The inductive invariant: whose channel each session feeds, what each     *)
(* mount knows, has queued and has sent.                                    *)
THEOREM AttachIsInvariant == AttachSpec => [](LeaseInvariant /\ AttachInvariant)
<1>1. ASSUME LeaseInvariant, AttachInvariant, [AttachNext]_attachVars
      PROVE  LeaseInvariant' /\ AttachInvariant'
    <2>1. LeaseInvariant'
        BY <1>1, AttachSteps, LeaseSteps
    <2>2. CASE UNCHANGED attachVars
        BY <1>1, <2>1, <2>2
           DEF attachVars, leaseVars, slotVars, userVars, channelVars, inputVars, AttachInvariant,
               AttachTypeOK, LeaseInvariant, OneMountPerKey, ChannelsKeepTheirKey,
               KnowsItsSession, QueuedUntilKnown, InputInOrder, SessionKnowsTheSize
    <2>3. CASE AttachNext
        BY <1>1, <2>1, <2>3, MountKeepsAttach, OpenedKeepsAttach, WriteKeepsAttach,
           ResizeKeepsAttach, DisposeKeepsAttach, LeaseStepsKeepAttach DEF AttachNext
    <2> QED
        BY <1>1, <2>1, <2>2, <2>3
<1> QED
    BY InitInvariant, AttachStarts, <1>1, PTL DEF AttachSpec, AttachInit

(* Bytes never cross tabs: createAttach hands a key's channel only to a     *)
(* mount of that key.                                                       *)
THEOREM EventsStay == AttachSpec => []EventsStayInTheTab
<1>1. AttachInvariant => EventsStayInTheTab
    <2> SUFFICES ASSUME AttachInvariant, NEW s \in Users, Running(s)
                 PROVE  keyOf[bound[given[s]]] = keyOf[s]
        BY DEF EventsStayInTheTab, Listener
    <2>1. given[s] \in Users /\ bound[given[s]] # None /\ keyOf[given[s]] = keyOf[s]
        BY DEF Running, AttachInvariant, AttachTypeOK, ChannelsKeepTheirKey
    <2> QED
        BY <2>1 DEF AttachInvariant, ChannelsKeepTheirKey
<1> QED
    BY <1>1, AttachIsInvariant, PTL

(* The queue of write() neither loses, doubles nor reorders input.          *)
THEOREM InputStaysInOrder == AttachSpec => []InputInOrder
BY AttachIsInvariant, PTL DEF AttachInvariant

(* A session that is known has been told the last size, queued or not.      *)
THEOREM SizeArrives == AttachSpec => []SessionKnowsTheSize
BY AttachIsInvariant, PTL DEF AttachInvariant

(* A terminal that hears its session hears it until it is unmounted: a      *)
(* handler is taken over only by the next mount of its tab, and a session   *)
(* is not closed under the mount.                                           *)
THEOREM HearingStays == AttachSpec => HearingLasts
<1>1. ASSUME LeaseInvariant, AttachInvariant, [AttachNext]_attachVars,
             NEW u \in Users, user[u] = "mounted", Hears(u), user'[u] = "mounted"
      PROVE  Hears(u)'
    <2> DEFINE s == joined[u]
               c == given[s]
    <2>1. /\ s \in Users /\ opening[s] = "open" /\ closes[s] = 0 /\ bound[c] = u
          /\ c \in Users /\ c # None /\ user[c] # "idle" /\ keyOf[c] = keyOf[u]
          /\ keyOf[s] = keyOf[u]
        BY <1>1, LeaseAssumption
           DEF Hears, Running, Listener, LeaseInvariant, UnmountedIsBlank, AttachInvariant,
               AttachTypeOK, ChannelsKeepTheirKey
    <2>2. CASE UNCHANGED attachVars
        BY <1>1, <2>2 DEF attachVars, leaseVars, slotVars, userVars, channelVars, Hears, Running,
                          Listener
    <2>3. ASSUME NEW v \in Users, NEW k \in Keys, AttachMount(v, k)
          PROVE  Hears(u)'
        <3>1. v # u /\ v # s /\ v # c /\ user[v] = "idle" /\ keyOf[u] # k
            BY <1>1, <2>1, <2>3 DEF AttachMount, AcquireJoins, AcquireOpens, Mount, FirstOfItsTab,
                                    LeaseInvariant, UnmountedIsBlank
        <3>2. ChannelFor(v, k) # c
            <4>1. channels[k] # None => keyOf[channels[k]] = k
                BY <1>1 DEF AttachInvariant, ChannelsKeepTheirKey
            <4> QED
                BY <2>1, <3>1, <4>1 DEF ChannelFor
        <3>3. /\ joined'[u] = s /\ opening'[s] = "open" /\ closes'[s] = 0 /\ given'[s] = c
              /\ bound'[c] = u
            BY <1>1, <2>1, <2>3, <3>1, <3>2
               DEF AttachMount, AcquireJoins, AcquireOpens, Mount, AttachInvariant, AttachTypeOK,
                   LeaseTypeOK
        <3> QED
            BY <3>3 DEF Hears, Running, Listener
    <2>4. ASSUME NEW v \in Users, ClosePty(v)
          PROVE  Hears(u)'
        <3>1. due[s] = 0
            BY <1>1, HoldersKeepOpen DEF HeldIsNotClosed
        <3>2. v # s
            BY <2>4, <3>1 DEF ClosePty, CloseRuns
        <3> QED
            BY <1>1, <2>1, <2>4, <3>2
               DEF ClosePty, CloseRuns, userVars, Hears, Running, Listener, LeaseInvariant,
                   LeaseTypeOK
    <2>5. ASSUME NEW v \in Users,
                 \/ AttachOpened(v) \/ Write(v) \/ \E z \in Sizes : TerminalResize(v, z)
                 \/ Dispose(v) \/ AttachTick(v)
                 \/ AttachSettle(v, "open") \/ AttachSettle(v, "failed")
          PROVE  Hears(u)'
        <3>1. UNCHANGED <<joined, closes, given, bound>>
            BY <2>5 DEF AttachOpened, Write, TerminalResize, Dispose, Release, AttachTick, Tick,
                        AttachSettle, Settle, leaseVars, slotVars, userVars, channelVars
        <3>2. opening'[s] = "open"
            BY <1>1, <2>1, <2>5
               DEF AttachOpened, Write, TerminalResize, Dispose, Release, AttachTick, Tick,
                   AttachSettle, Settle, leaseVars, slotVars, LeaseInvariant, LeaseTypeOK
        <3> QED
            BY <2>1, <3>1, <3>2 DEF Hears, Running, Listener
    <2> QED
        BY <1>1, <2>2, <2>3, <2>4, <2>5 DEF AttachNext
<1>2. LeaseInvariant /\ AttachInvariant /\ [AttachNext]_attachVars
      => [\A u \in Users : user[u] = "mounted" /\ Hears(u) /\ user'[u] = "mounted"
              => Hears(u)']_attachVars
    BY <1>1
<1> QED
    BY <1>2, AttachIsInvariant, PTL DEF AttachSpec, HearingLasts
=============================================================================
