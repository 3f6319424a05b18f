--------------------------- MODULE LuaPoolProofs ----------------------------
(***************************************************************************)
(* Isolation, Footprint and QuietAtRest of LuaPool, for any number of      *)
(* concurrent calls, any luaPoolSize and any number of VMs.                *)
(***************************************************************************)
EXTENDS LuaPool, FunctionTheorems, FiniteSetTheorems, TLAPS

Labels == {"idle", "inline", "start", "dispatch", "close", "wait", "blocked"}
Lives  == {"free", "inline", "boot", "offer", "parked", "taken"}

PoolTypeOK ==
    /\ pc \in [Callers -> Labels]
    /\ mine \in [Callers -> VMs]
    /\ vm \in [VMs -> Lives]
    /\ served \subseteq VMs
    /\ exiting \in Nat
    /\ count \in Nat
    /\ waiters \subseteq Callers
    /\ woken \subseteq Callers

(* The VM of a call is its own until the call closes it, and a VM has run a *)
(* command only while its call is about to close it.                        *)
Ownership ==
    /\ \A c, d \in Holding : mine[c] = mine[d] => c = d
    /\ \A c \in Holding : vm[mine[c]] = IF pc[c] = "inline" THEN "inline" ELSE "taken"
    /\ \A v \in VMs : vm[v] \in {"inline", "taken"} => \E c \in Holding : mine[c] = v
    /\ \A v \in served : \E c \in Callers : pc[c] = "close" /\ mine[c] = v

Parked  == In("parked")
Warming == {v \in VMs : vm[v] \in {"boot", "offer"}}
Started == {c \in Callers : pc[c] \in {"dispatch", "close", "wait", "blocked"}}
Blocked == {c \in Callers : pc[c] = "blocked"}

(* The WaitGroup counts the goroutines of startWarming, those that hold a   *)
(* VM and those past their select; each was started by a call that has not  *)
(* returned: a call returns only once the counter is zero.                  *)
Accounts ==
    /\ Cardinality(Parked) <= PoolSize
    /\ count = Cardinality(Warming) + exiting
    /\ count <= Cardinality(Started)

PoolInv ==
    /\ PoolTypeOK
    /\ Ownership
    /\ Accounts
    /\ waiters \cup woken \subseteq Blocked
    /\ collected => Parked = {}

-----------------------------------------------------------------------------
(* Cardinalities.                                                          *)

LEMMA FiniteParts ==
    /\ \A S \in SUBSET VMs : IsFiniteSet(S) /\ Cardinality(S) \in Nat
    /\ \A S \in SUBSET Callers : IsFiniteSet(S) /\ Cardinality(S) \in Nat
<1>1. IsFiniteSet(VMs) /\ IsFiniteSet(Callers)
  BY PoolAssumption, FS_Interval DEF VMs
<1> QED
  BY <1>1, FS_Subset, FS_CardinalityType

LEMMA AddVM ==
    ASSUME NEW S \in SUBSET VMs, NEW v \in VMs, v \notin S
    PROVE  Cardinality(S \cup {v}) = Cardinality(S) + 1
BY FiniteParts, FS_AddElement

LEMMA DropVM ==
    ASSUME NEW S \in SUBSET VMs, NEW v \in S
    PROVE  Cardinality(S \ {v}) = Cardinality(S) - 1
BY FiniteParts, FS_RemoveElement

LEMMA AddCaller ==
    ASSUME NEW S \in SUBSET Callers, NEW c \in Callers, c \notin S
    PROVE  Cardinality(S \cup {c}) = Cardinality(S) + 1
BY FiniteParts, FS_AddElement

LEMMA CardinalityOfUnion ==
    ASSUME NEW S \in SUBSET VMs, NEW T \in SUBSET VMs
    PROVE  Cardinality(S \cup T) <= Cardinality(S) + Cardinality(T)
<1>1. /\ IsFiniteSet(S) /\ IsFiniteSet(T)
      /\ Cardinality(S) \in Nat /\ Cardinality(T) \in Nat
  BY FiniteParts
<1>2. Cardinality(S \cup T) = Cardinality(S) + Cardinality(T) - Cardinality(S \cap T)
  BY <1>1, FS_Union
<1>3. S \cap T \in SUBSET VMs
  OBVIOUS
<1>4. Cardinality(S \cap T) \in Nat
  BY <1>3, FiniteParts
<1> QED
  BY <1>1, <1>2, <1>4

(* The sets counted, before a step.                                        *)
LEMMA Counts ==
    /\ Parked \in SUBSET VMs /\ Warming \in SUBSET VMs /\ Started \in SUBSET Callers
    /\ Cardinality(Parked) \in Nat
    /\ Cardinality(Warming) \in Nat
    /\ Cardinality(Started) \in Nat
<1>1. Parked \in SUBSET VMs /\ Warming \in SUBSET VMs /\ Started \in SUBSET Callers
  BY DEF Parked, In, Warming, Started
<1> QED
  BY <1>1, FiniteParts

-----------------------------------------------------------------------------
(* What PoolInv gives.                                                     *)

LEMMA PoolInvIsolation == PoolInv => Isolation
BY DEF PoolInv, PoolTypeOK, Ownership, Isolation, Holding

LEMMA PoolInvQuiet == PoolInv => QuietAtRest
<1> SUFFICES ASSUME PoolInv, \A c \in Callers : pc[c] = "idle"
             PROVE  /\ count = 0 /\ exiting = 0
                    /\ \A v \in VMs : vm[v] \in {"free", "parked"}
                    /\ collected => In("parked") = {}
  BY DEF QuietAtRest
<1>1. Started = {} /\ Holding = {}
  BY DEF Started, Holding
<1>2. Cardinality(Started) = 0
  BY <1>1, FS_EmptySet
<1>3. count = 0 /\ exiting = 0 /\ Cardinality(Warming) = 0
  BY <1>2, Counts DEF PoolInv, PoolTypeOK, Accounts
<1>4. Warming = {}
  BY <1>3, Counts, FiniteParts, FS_EmptySet
<1>5. \A v \in VMs : vm[v] \in {"free", "parked"}
  BY <1>1, <1>4 DEF PoolInv, PoolTypeOK, Ownership, Warming, Lives
<1> QED
  BY <1>3, <1>5 DEF PoolInv, Parked

LEMMA PoolInvFootprint == PoolInv => Footprint
<1> SUFFICES ASSUME PoolInv PROVE Footprint
  OBVIOUS
<1> DEFINE Held == {v \in VMs : vm[v] \in {"inline", "taken"}}
           Free == In("free")
           owner == [v \in Held |-> CHOOSE c \in Holding : mine[c] = v]
<1>1. Held \in SUBSET VMs /\ Free \in SUBSET VMs
  BY DEF In
<1>2. Cardinality(Held) <= Cardinality(Callers)
  <2>1. \A v \in Held : owner[v] \in Callers /\ mine[owner[v]] = v
    BY DEF PoolInv, Ownership, Holding
  <2>2. owner \in [Held -> Callers] /\ \A u, v \in Held : owner[u] = owner[v] => u = v
    BY ZenonT(40), <2>1
  <2> HIDE DEF owner
  <2>3. owner \in Injection(Held, Callers)
    BY <2>2 DEF Injection, IsInjective
  <2> QED
    BY <2>3, FiniteParts, FS_Injection
<1>3. Cardinality(Warming) <= Cardinality(Callers)
  <2>1. Cardinality(Started) <= Cardinality(Callers)
    BY Counts, FiniteParts, FS_Subset
  <2> QED
    BY <2>1, Counts, FiniteParts DEF PoolInv, PoolTypeOK, Accounts
<1>4. VMs \ Free = (Parked \cup Warming) \cup Held
  BY DEF PoolInv, PoolTypeOK, Lives, Parked, Warming, In
<1>5. Cardinality(VMs \ Free) = MaxVMs - Cardinality(Free)
  <2>1. Cardinality(VMs) = MaxVMs /\ IsFiniteSet(VMs)
    BY PoolAssumption, FS_Interval DEF VMs
  <2>2. VMs \cap Free = Free
    BY <1>1
  <2> QED
    BY <2>1, <2>2, FS_Difference
<1>6. Cardinality(VMs \ Free)
         <= Cardinality(Parked) + Cardinality(Warming) + Cardinality(Held)
  <2> HIDE DEF Held, Free
  <2>1. Cardinality(Parked \cup Warming) <= Cardinality(Parked) + Cardinality(Warming)
    BY CardinalityOfUnion, Counts
  <2>2. Parked \cup Warming \in SUBSET VMs
    BY Counts
  <2>3. Cardinality((Parked \cup Warming) \cup Held)
           <= Cardinality(Parked \cup Warming) + Cardinality(Held)
    BY <1>1, <2>2, CardinalityOfUnion
  <2>4. Cardinality(Parked \cup Warming) \in Nat /\ Cardinality(Held) \in Nat
    BY <1>1, <2>2, FiniteParts
  <2>5. (Parked \cup Warming) \cup Held \in SUBSET VMs
    BY <1>1, <2>2
  <2>6. Cardinality((Parked \cup Warming) \cup Held) \in Nat
    BY <2>5, FiniteParts
  <2>7. Cardinality(VMs \ Free) = Cardinality((Parked \cup Warming) \cup Held)
    BY <1>4
  <2>8. \A p, q, pq, h, a \in Nat : pq <= p + q /\ a <= pq + h => a <= p + q + h
    OBVIOUS
  <2> QED
    BY <2>1, <2>3, <2>4, <2>6, <2>7, <2>8, Counts, Zenon
<1> HIDE DEF Held
<1>7. Cardinality(Held) \in Nat /\ Cardinality(Callers) \in Nat
      /\ Cardinality(Free) \in Nat
  BY <1>1, FiniteParts
<1>8. Cardinality(Parked) <= PoolSize
  BY DEF PoolInv, Accounts
<1> QED
  BY <1>2, <1>3, <1>5, <1>6, <1>7, <1>8, Counts, PoolAssumption DEF Footprint, Parked

-----------------------------------------------------------------------------
(* The steps of a call.                                                    *)

LEMMA InitPool == Init => PoolInv
<1> SUFFICES ASSUME Init PROVE PoolInv
  OBVIOUS
<1>1. PoolTypeOK
  BY PoolAssumption DEF Init, PoolTypeOK, Labels, Lives, VMs
<1>2. Holding = {} /\ Parked = {} /\ Warming = {} /\ Started = {}
  BY DEF Init, Holding, Parked, In, Warming, Started
<1>3. Accounts
  BY <1>2, FS_EmptySet, PoolAssumption DEF Init, Accounts
<1>4. Ownership
  BY <1>2 DEF Init, Ownership
<1> QED
  BY <1>1, <1>2, <1>3, <1>4 DEF PoolInv, Init

LEMMA FreshIsFree == In("free") # {} => Fresh \in VMs /\ vm[Fresh] = "free"
BY DEF Fresh, In

LEMMA TakeWarmInv ==
    ASSUME PoolInv, NEW c \in Callers, TakeWarm(c)
    PROVE  PoolInv'
<1> USE DEF PoolInv
<1>1. PICK v \in VMs :
         /\ vm[v] = "parked"
         /\ pc[c] = "idle"
         /\ mine' = [mine EXCEPT ![c] = v]
         /\ vm' = [vm EXCEPT ![v] = "taken"]
         /\ pc' = [pc EXCEPT ![c] = "start"]
         /\ ~ collected
         /\ UNCHANGED <<served, exiting, count, waiters, woken, panicked, collected>>
  BY DEF TakeWarm, In, Goto, Running
<1>2. PoolTypeOK'
  BY <1>1 DEF PoolTypeOK, Labels, Lives
<1>3. Holding' = Holding \cup {c} /\ c \notin Holding
  BY <1>1 DEF Holding, PoolTypeOK
<1>4. Ownership'
  BY <1>1, <1>3 DEF Ownership, PoolTypeOK, Holding
<1>5. /\ Parked' = Parked \ {v} /\ v \in Parked /\ Warming' = Warming
      /\ Started' = Started /\ Blocked' = Blocked
  BY <1>1 DEF PoolTypeOK, Parked, In, Warming, Started, Blocked
<1>6. Accounts'
  BY <1>1, <1>5, Counts, DropVM, PoolAssumption DEF Accounts
<1> QED
  BY <1>1, <1>2, <1>4, <1>5, <1>6

LEMMA WarmInlineInv ==
    ASSUME PoolInv, NEW c \in Callers, WarmInline(c)
    PROVE  PoolInv'
<1> USE DEF PoolInv
<1>1. PICK v \in VMs :
         /\ vm[v] = "free"
         /\ pc[c] = "idle"
         /\ mine' = [mine EXCEPT ![c] = v]
         /\ vm' = [vm EXCEPT ![v] = "inline"]
         /\ pc' = [pc EXCEPT ![c] = "inline"]
         /\ ~ collected
         /\ UNCHANGED <<served, exiting, count, waiters, woken, panicked, collected>>
  BY FreshIsFree DEF WarmInline, Goto, Running
<1>2. PoolTypeOK'
  BY <1>1 DEF PoolTypeOK, Labels, Lives
<1>3. Holding' = Holding \cup {c} /\ c \notin Holding
  BY <1>1 DEF Holding, PoolTypeOK
<1>4. Ownership'
  BY <1>1, <1>3 DEF Ownership, PoolTypeOK, Holding
<1>5. /\ Parked' = Parked /\ Warming' = Warming
      /\ Started' = Started /\ Blocked' = Blocked
  BY <1>1 DEF PoolTypeOK, Parked, In, Warming, Started, Blocked
<1> QED
  BY <1>1, <1>2, <1>4, <1>5 DEF Accounts

LEMMA InlineInv ==
    ASSUME PoolInv, NEW c \in Callers, InlineWarmed(c) \/ InlineFailed(c)
    PROVE  PoolInv'
<1> USE DEF PoolInv
<1>1. /\ pc[c] = "inline" /\ c \in Holding /\ vm[mine[c]] = "inline" /\ mine[c] \in VMs
      /\ ~ collected
      /\ UNCHANGED <<mine, served, exiting, count, waiters, woken, panicked, collected>>
  BY DEF InlineWarmed, InlineFailed, Running, Ownership, Holding, PoolTypeOK
<1>2. \/ vm' = [vm EXCEPT ![mine[c]] = "taken"] /\ pc' = [pc EXCEPT ![c] = "start"]
      \/ vm' = [vm EXCEPT ![mine[c]] = "free"] /\ pc' = [pc EXCEPT ![c] = "idle"]
  BY DEF InlineWarmed, InlineFailed, Goto
<1>3. PoolTypeOK'
  BY <1>1, <1>2 DEF PoolTypeOK, Labels, Lives
<1>4. Holding' = IF pc'[c] = "start" THEN Holding ELSE Holding \ {c}
  BY <1>1, <1>2 DEF Holding, PoolTypeOK
<1>5. Ownership'
  BY <1>1, <1>2, <1>4 DEF Ownership, PoolTypeOK, Holding
<1>6. /\ Parked' = Parked /\ Warming' = Warming
      /\ Started' = Started /\ Blocked' = Blocked
  BY <1>1, <1>2 DEF PoolTypeOK, Parked, In, Warming, Started, Blocked
<1> QED
  BY <1>1, <1>3, <1>5, <1>6 DEF Accounts

LEMMA StartWarmingInv ==
    ASSUME PoolInv, NEW c \in Callers, StartWarming(c)
    PROVE  PoolInv'
<1> USE DEF PoolInv
<1>1. PICK v \in VMs :
         /\ vm[v] = "free"
         /\ pc[c] = "start"
         /\ count' = count + 1
         /\ vm' = [vm EXCEPT ![v] = "boot"]
         /\ pc' = [pc EXCEPT ![c] = "dispatch"]
         /\ ~ collected
         /\ UNCHANGED <<mine, served, exiting, waiters, woken, panicked, collected>>
  BY FreshIsFree DEF StartWarming, Goto, Running
<1>2. PoolTypeOK'
  BY <1>1 DEF PoolTypeOK, Labels, Lives
<1>3. Holding' = Holding
  BY <1>1 DEF Holding, PoolTypeOK
<1>4. Ownership'
  BY <1>1, <1>3 DEF Ownership, PoolTypeOK, Holding
<1>5. /\ Parked' = Parked /\ Blocked' = Blocked
      /\ Warming' = Warming \cup {v} /\ v \notin Warming
      /\ Started' = Started \cup {c} /\ c \notin Started
  BY <1>1 DEF PoolTypeOK, Parked, In, Warming, Started, Blocked
<1>6. /\ Cardinality(Warming \cup {v}) = Cardinality(Warming) + 1
      /\ Cardinality(Started \cup {c}) = Cardinality(Started) + 1
  BY <1>5, Counts, AddVM, AddCaller
<1>7. Accounts'
  BY <1>1, <1>5, <1>6, Counts DEF Accounts, PoolTypeOK
<1> QED
  BY <1>1, <1>2, <1>4, <1>5, <1>7

LEMMA DispatchInv ==
    ASSUME PoolInv, NEW c \in Callers, Dispatch(c)
    PROVE  PoolInv'
<1> USE DEF PoolInv
<1>1. /\ pc[c] = "dispatch"
      /\ served' = served \cup {mine[c]}
      /\ pc' = [pc EXCEPT ![c] = "close"]
      /\ ~ collected
      /\ UNCHANGED <<mine, vm, exiting, count, waiters, woken, panicked, collected>>
  BY DEF Dispatch, Goto, Running
<1>2. PoolTypeOK'
  BY <1>1 DEF PoolTypeOK, Labels
<1>3. Holding' = Holding
  BY <1>1 DEF Holding, PoolTypeOK
<1>4. Ownership'
  BY <1>1, <1>3 DEF Ownership, PoolTypeOK, Holding
<1>5. Parked' = Parked /\ Warming' = Warming /\ Started' = Started /\ Blocked' = Blocked
  BY <1>1 DEF PoolTypeOK, Parked, In, Warming, Started, Blocked
<1> QED
  BY <1>1, <1>2, <1>4, <1>5 DEF Accounts

LEMMA CloseInv ==
    ASSUME PoolInv, NEW c \in Callers, Close(c)
    PROVE  PoolInv'
<1> USE DEF PoolInv
<1>1. /\ pc[c] = "close" /\ c \in Holding /\ vm[mine[c]] = "taken" /\ mine[c] \in VMs
      /\ vm' = [vm EXCEPT ![mine[c]] = "free"]
      /\ served' = served \ {mine[c]}
      /\ pc' = [pc EXCEPT ![c] = "wait"]
      /\ ~ collected
      /\ UNCHANGED <<mine, exiting, count, waiters, woken, panicked, collected>>
  BY DEF Close, Goto, Running, Ownership, Holding, PoolTypeOK
<1>2. PoolTypeOK'
  BY <1>1 DEF PoolTypeOK, Labels, Lives
<1>3. Holding' = Holding \ {c}
  BY <1>1 DEF Holding, PoolTypeOK
<1>4. Ownership'
  BY <1>1, <1>3 DEF Ownership, PoolTypeOK, Holding
<1>5. Parked' = Parked /\ Warming' = Warming /\ Started' = Started /\ Blocked' = Blocked
  BY <1>1 DEF PoolTypeOK, Parked, In, Warming, Started, Blocked
<1> QED
  BY <1>1, <1>2, <1>4, <1>5 DEF Accounts

(* A caller that leaves release leaves a counter of zero behind.           *)
LEMMA WaitInv ==
    ASSUME PoolInv, NEW c \in Callers, Wait(c)
    PROVE  PoolInv'
<1> USE DEF PoolInv
<1>1. /\ pc[c] = "wait"
      /\ ~ collected
      /\ UNCHANGED <<mine, vm, served, exiting, count, woken, panicked, collected>>
  BY DEF Wait, Running
<1>2. \/ count = 0 /\ pc' = [pc EXCEPT ![c] = "idle"] /\ waiters' = waiters
      \/ pc' = [pc EXCEPT ![c] = "blocked"] /\ waiters' = waiters \cup {c}
  BY DEF Wait, Goto
<1>3. PoolTypeOK'
  BY <1>1, <1>2 DEF PoolTypeOK, Labels
<1>4. Holding' = Holding
  BY <1>1, <1>2 DEF Holding, PoolTypeOK
<1>5. Ownership'
  BY <1>1, <1>2, <1>4 DEF Ownership, PoolTypeOK, Holding
<1>6. Parked' = Parked /\ Warming' = Warming
  BY <1>1 DEF Parked, In, Warming
<1>7. (waiters \cup woken \subseteq Blocked)'
  BY <1>1, <1>2 DEF Blocked, PoolTypeOK
<1>8. count <= Cardinality(Started')
  <2>1. CASE count = 0
    <3>1. Started' \in SUBSET Callers
      BY DEF Started
    <3> QED
      BY <2>1, <3>1, FiniteParts
  <2>2. CASE count # 0
    <3>1. Started' = Started
      BY <1>1, <1>2, <2>2 DEF Started, PoolTypeOK
    <3> QED
      BY <3>1 DEF Accounts
  <2> QED
    BY <2>1, <2>2
<1> QED
  BY <1>1, <1>3, <1>5, <1>6, <1>7, <1>8 DEF Accounts

LEMMA WaitReturnsInv ==
    ASSUME PoolInv, NEW c \in Callers, WaitReturns(c)
    PROVE  PoolInv'
<1> USE DEF PoolInv
<1>1. /\ pc[c] = "blocked"
      /\ woken' = woken \ {c}
      /\ ~ collected
      /\ UNCHANGED <<mine, vm, served, exiting, count, waiters, collected>>
  BY DEF WaitReturns, Running, Blocked
<1>2. \/ count = 0 /\ waiters = {} /\ pc' = [pc EXCEPT ![c] = "idle"]
      \/ pc' = pc
  BY DEF WaitReturns, Goto
<1>3. PoolTypeOK'
  BY <1>1, <1>2 DEF PoolTypeOK, Labels
<1>4. Holding' = Holding
  BY <1>1, <1>2 DEF Holding, PoolTypeOK
<1>5. Ownership'
  BY <1>1, <1>2, <1>4 DEF Ownership, PoolTypeOK, Holding
<1>6. Parked' = Parked /\ Warming' = Warming
  BY <1>1 DEF Parked, In, Warming
<1>7. (waiters \cup woken \subseteq Blocked)'
  BY <1>1, <1>2 DEF Blocked, PoolTypeOK
<1>8. count <= Cardinality(Started')
  <2>1. CASE count = 0
    <3>1. Started' \in SUBSET Callers
      BY DEF Started
    <3> QED
      BY <2>1, <3>1, FiniteParts
  <2>2. CASE count # 0
    <3>1. Started' = Started
      BY <1>2, <2>2 DEF Started
    <3> QED
      BY <3>1 DEF Accounts
  <2> QED
    BY <2>1, <2>2
<1> QED
  BY <1>1, <1>3, <1>5, <1>6, <1>7, <1>8 DEF Accounts

-----------------------------------------------------------------------------
(* The steps of the warm-up goroutines and of the finalizer.               *)

LEMMA WarmerInv ==
    ASSUME PoolInv, NEW v \in VMs, Warmer(v)
    PROVE  PoolInv'
<1> USE DEF PoolInv
<1>1. /\ vm[v] \in {"boot", "offer"}
      /\ ~ collected
      /\ UNCHANGED <<pc, mine, served, count, waiters, woken, collected>>
  BY DEF Warmer, Warmed, WarmFailed, Park, Running
<1>2. \/ vm' = [vm EXCEPT ![v] = "offer"] /\ exiting' = exiting
      \/ vm' = [vm EXCEPT ![v] = "free"] /\ exiting' = exiting + 1
      \/ /\ vm' = [vm EXCEPT ![v] = "parked"] /\ exiting' = exiting + 1
         /\ Cardinality(Parked) < PoolSize
  BY DEF Warmer, Warmed, WarmFailed, Park, Parked
<1>3. PoolTypeOK'
  BY <1>1, <1>2 DEF PoolTypeOK, Lives
<1>4. Holding' = Holding /\ Started' = Started /\ Blocked' = Blocked
  BY <1>1 DEF Holding, Started, Blocked
<1>5. Ownership'
  BY <1>1, <1>2, <1>4 DEF Ownership, PoolTypeOK, Holding
<1>6. Cardinality(Parked') <= PoolSize
  <2>1. v \notin Parked
    BY <1>1 DEF Parked, In
  <2>2. \/ Parked' = Parked
        \/ Parked' = Parked \cup {v} /\ Cardinality(Parked) < PoolSize
    BY <1>1, <1>2 DEF Parked, In, PoolTypeOK
  <2>3. Cardinality(Parked \cup {v}) = Cardinality(Parked) + 1
    BY <2>1, Counts, AddVM
  <2>4. CASE Parked' = Parked
    BY <2>4 DEF Accounts
  <2>5. CASE Parked' = Parked \cup {v} /\ Cardinality(Parked) < PoolSize
    BY <2>3, <2>5, Counts, PoolAssumption
  <2> QED
    BY <2>2, <2>4, <2>5
<1>7. count = Cardinality(Warming') + exiting'
  <2>1. v \in Warming
    BY <1>1 DEF Warming
  <2>2. \/ Warming' = Warming /\ exiting' = exiting
        \/ Warming' = Warming \ {v} /\ exiting' = exiting + 1
    BY <1>1, <1>2 DEF Warming, PoolTypeOK
  <2>3. Cardinality(Warming \ {v}) = Cardinality(Warming) - 1
    BY <2>1, Counts, DropVM
  <2>4. CASE Warming' = Warming /\ exiting' = exiting
    BY <2>4 DEF Accounts
  <2>5. CASE Warming' = Warming \ {v} /\ exiting' = exiting + 1
    BY <2>3, <2>5, Counts DEF Accounts, PoolTypeOK
  <2> QED
    BY <2>2, <2>4, <2>5
<1> QED
  BY <1>1, <1>3, <1>4, <1>5, <1>6, <1>7 DEF Accounts

LEMMA DoneInv ==
    ASSUME PoolInv, Done
    PROVE  PoolInv'
<1> USE DEF PoolInv
<1>1. /\ exiting > 0 /\ exiting' = exiting - 1 /\ count' = count - 1
      /\ \/ woken' = woken \cup waiters /\ waiters' = {}
         \/ woken' = woken /\ waiters' = waiters
      /\ UNCHANGED <<pc, mine, vm, served, collected>>
  BY DEF Done
<1>2. /\ Holding' = Holding /\ Parked' = Parked /\ Warming' = Warming
      /\ Started' = Started /\ Blocked' = Blocked
  BY <1>1 DEF Holding, Parked, In, Warming, Started, Blocked
<1>3. Accounts'
  BY <1>1, <1>2, Counts DEF Accounts, PoolTypeOK
<1>4. PoolTypeOK'
  BY <1>1, Counts DEF PoolTypeOK, Accounts
<1>5. Ownership'
  BY <1>1, <1>2 DEF Ownership
<1> QED
  BY <1>1, <1>2, <1>3, <1>4, <1>5

LEMMA CleanupInv ==
    ASSUME PoolInv, Cleanup
    PROVE  PoolInv'
<1> USE DEF PoolInv
<1>1. /\ vm' = [v \in VMs |-> IF vm[v] = "parked" THEN "free" ELSE vm[v]]
      /\ UNCHANGED <<pc, mine, served, exiting, count, waiters, woken>>
  BY DEF Cleanup
<1>2. Parked' = {} /\ Warming' = Warming
  BY <1>1 DEF Parked, In, Warming
<1>3. Holding' = Holding /\ Started' = Started /\ Blocked' = Blocked
  BY <1>1 DEF Holding, Started, Blocked
<1>4. Accounts'
  BY <1>1, <1>2, <1>3, FS_EmptySet, PoolAssumption DEF Accounts
<1>5. PoolTypeOK'
  BY <1>1 DEF PoolTypeOK, Lives
<1>6. Ownership'
  BY <1>1, <1>3 DEF Ownership, PoolTypeOK, Holding
<1> QED
  BY <1>1, <1>2, <1>3, <1>4, <1>5, <1>6

LEMMA PoolStep ==
    ASSUME PoolInv, [Next]_vars
    PROVE  PoolInv'
<1>1. CASE UNCHANGED vars
  BY <1>1 DEF vars, PoolInv, PoolTypeOK, Ownership, Accounts, Holding, Parked, In,
              Warming, Started, Blocked
<1> QED
  BY <1>1, TakeWarmInv, WarmInlineInv, InlineInv, StartWarmingInv, DispatchInv,
     CloseInv, WaitInv, WaitReturnsInv, WarmerInv, DoneInv, CleanupInv DEF Next, Caller

LEMMA AlwaysPoolInv == Spec => []PoolInv
BY InitPool, PoolStep, PTL DEF Spec

-----------------------------------------------------------------------------

(* However calls on one engine overlap, no two hold the same VM and a VM    *)
(* about to run a command has run none: acquire hands a VM to one call, and *)
(* release closes it before it can be given to another.                     *)
THEOREM OneCallPerVM == Spec => []Isolation
BY AlwaysPoolInv, PoolInvIsolation, PTL

(* The engine never keeps more VMs than the pool holds plus two for each    *)
(* caller, whatever fails and however many warm-ups a caller's wait covers. *)
THEOREM BoundedFootprint == Spec => []Footprint
BY AlwaysPoolInv, PoolInvFootprint, PTL

(* Once every call has returned no goroutine of startWarming is left and    *)
(* every VM outside the pool is closed: release's Wait covers the warm-ups  *)
(* of the other calls too, and an error in warmVM does not leak one.        *)
THEOREM NothingRunsAtRest == Spec => []QuietAtRest
BY AlwaysPoolInv, PoolInvQuiet, PTL
=============================================================================
