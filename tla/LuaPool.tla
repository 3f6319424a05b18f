------------------------------ MODULE LuaPool -------------------------------
(***************************************************************************)
(* The pool of Lua VMs behind luaEngine.  A call takes a warm VM from the  *)
(* pool, or warms one itself; starts the warm-up of the next one in the    *)
(* background; runs its command; closes its VM and waits on the WaitGroup  *)
(* "warming" until no background warm-up is left.  Calls are concurrent:   *)
(* nothing in the engine serializes them.                                  *)
(***************************************************************************)
EXTENDS Naturals, FiniteSets

CONSTANTS
    Callers,   \* the goroutines that call the engine
    PoolSize,  \* luaPoolSize, the capacity of the pool channel
    MaxVMs     \* bound: the identities VMs are given

ASSUME PoolAssumption ==
    /\ IsFiniteSet(Callers)
    /\ PoolSize \in Nat
    /\ MaxVMs \in Nat \ {0}

VMs == 1..MaxVMs

VARIABLES
    pc,        \* caller -> where it is in callViaState or callRaw
    mine,      \* caller -> the VM it took or is warming
    vm,        \* VM -> its life: free, inline, boot, offer, parked or taken
    served,    \* the VMs that have run a command
    exiting,   \* warm-up goroutines past their select, before their Done
    count,     \* the counter of the WaitGroup
    waiters,   \* callers blocked in Wait
    woken,     \* callers Wait has released and that have not run since
    panicked,  \* a WaitGroup misuse panic took the process down
    collected  \* the engine was garbage-collected

vars == <<pc, mine, vm, served, exiting, count, waiters, woken, panicked, collected>>

In(state) == {v \in VMs : vm[v] = state}

(* A fresh VM.  Identities are reused once a VM is closed.                 *)
Fresh == CHOOSE v \in In("free") : TRUE

Running == ~ panicked /\ ~ collected

Goto(c, label) == pc' = [pc EXCEPT ![c] = label]

-----------------------------------------------------------------------------
(* acquire.                                                                *)

(* The receive case of acquire's select: a warm VM is parked.              *)
TakeWarm(c) ==
    \E v \in In("parked") :
        /\ Running
        /\ pc[c] = "idle"
        /\ mine' = [mine EXCEPT ![c] = v]
        /\ vm' = [vm EXCEPT ![v] = "taken"]
        /\ Goto(c, "start")
        /\ UNCHANGED <<served, exiting, count, waiters, woken, panicked, collected>>

(* The default case: newVM, then the help dispatch, in the caller itself.  *)
WarmInline(c) ==
    /\ Running
    /\ pc[c] = "idle"
    /\ In("parked") = {}
    /\ In("free") # {}
    /\ mine' = [mine EXCEPT ![c] = Fresh]
    /\ vm' = [vm EXCEPT ![Fresh] = "inline"]
    /\ Goto(c, "inline")
    /\ UNCHANGED <<served, exiting, count, waiters, woken, panicked, collected>>

InlineWarmed(c) ==
    /\ Running
    /\ pc[c] = "inline"
    /\ vm' = [vm EXCEPT ![mine[c]] = "taken"]
    /\ Goto(c, "start")
    /\ UNCHANGED <<mine, served, exiting, count, waiters, woken, panicked, collected>>

(* warmVM fails and closes its VM: the call returns the error, and does not *)
(* reach release.                                                           *)
InlineFailed(c) ==
    /\ Running
    /\ pc[c] = "inline"
    /\ vm' = [vm EXCEPT ![mine[c]] = "free"]
    /\ Goto(c, "idle")
    /\ UNCHANGED <<mine, served, exiting, count, waiters, woken, panicked, collected>>

(* startWarming: WaitGroup.Go adds one and starts the goroutine.           *)
StartWarming(c) ==
    /\ Running
    /\ pc[c] = "start"
    /\ In("free") # {}
    /\ count' = count + 1
    /\ vm' = [vm EXCEPT ![Fresh] = "boot"]
    /\ Goto(c, "dispatch")
    /\ UNCHANGED <<mine, served, exiting, waiters, woken, panicked, collected>>

(* The goroutine of startWarming: warmVM, then the send or the Close, then  *)
(* the Done of WaitGroup.Go.                                                *)
Warmed(v) ==
    /\ Running
    /\ vm[v] = "boot"
    /\ vm' = [vm EXCEPT ![v] = "offer"]
    /\ UNCHANGED <<pc, mine, served, exiting, count, waiters, woken, panicked, collected>>

WarmFailed(v) ==
    /\ Running
    /\ vm[v] = "boot"
    /\ vm' = [vm EXCEPT ![v] = "free"]
    /\ exiting' = exiting + 1
    /\ UNCHANGED <<pc, mine, served, count, waiters, woken, panicked, collected>>

\* Mutant: a second send is taken for granted.
ParkAlways(v) ==
    /\ Running
    /\ vm[v] = "offer"
    /\ vm' = [vm EXCEPT ![v] = "parked"]
    /\ exiting' = exiting + 1
    /\ UNCHANGED <<pc, mine, served, count, waiters, woken, panicked, collected>>

\* Mutant: a blocking send, without the default case.
ParkBlocking(v) ==
    /\ Running
    /\ vm[v] = "offer"
    /\ Cardinality(In("parked")) < PoolSize
    /\ vm' = [vm EXCEPT ![v] = "parked"]
    /\ exiting' = exiting + 1
    /\ UNCHANGED <<pc, mine, served, count, waiters, woken, panicked, collected>>

Park(v) ==
    /\ Running
    /\ vm[v] = "offer"
    /\ vm' = [vm EXCEPT ![v] =
                 IF Cardinality(In("parked")) < PoolSize THEN "parked" ELSE "free"]
    /\ exiting' = exiting + 1
    /\ UNCHANGED <<pc, mine, served, count, waiters, woken, panicked, collected>>

(* Done: the last one releases every blocked Wait.                         *)
Done ==
    /\ Running
    /\ exiting > 0
    /\ exiting' = exiting - 1
    /\ count' = count - 1
    /\ IF count = 1
       THEN woken' = woken \cup waiters /\ waiters' = {}
       ELSE UNCHANGED <<woken, waiters>>
    /\ UNCHANGED <<pc, mine, vm, served, panicked, collected>>

-----------------------------------------------------------------------------
(* The dispatch and release.                                               *)

(* L.DoString, which may fail: release is deferred and runs either way.    *)
Dispatch(c) ==
    /\ Running
    /\ pc[c] = "dispatch"
    /\ served' = served \cup {mine[c]}
    /\ Goto(c, "close")
    /\ UNCHANGED <<mine, vm, exiting, count, waiters, woken, panicked, collected>>

\* Mutant: the VM goes back to the pool.
Recycle(c) ==
    /\ Running
    /\ pc[c] = "close"
    /\ vm' = [vm EXCEPT ![mine[c]] =
                 IF Cardinality(In("parked")) < PoolSize THEN "parked" ELSE "free"]
    /\ Goto(c, "wait")
    /\ UNCHANGED <<mine, served, exiting, count, waiters, woken, panicked, collected>>

Close(c) ==
    /\ Running
    /\ pc[c] = "close"
    /\ vm' = [vm EXCEPT ![mine[c]] = "free"]
    /\ served' = served \ {mine[c]}
    /\ Goto(c, "wait")
    /\ UNCHANGED <<mine, exiting, count, waiters, woken, panicked, collected>>

\* Mutant: the warm-up is left running.
NoWait(c) ==
    /\ Running
    /\ pc[c] = "wait"
    /\ Goto(c, "idle")
    /\ UNCHANGED <<mine, vm, served, exiting, count, waiters, woken, panicked, collected>>

(* Wait returns at once when the counter is zero, else blocks.             *)
Wait(c) ==
    /\ Running
    /\ pc[c] = "wait"
    /\ IF count = 0
       THEN Goto(c, "idle") /\ UNCHANGED waiters
       ELSE Goto(c, "blocked") /\ waiters' = waiters \cup {c}
    /\ UNCHANGED <<mine, vm, served, exiting, count, woken, panicked, collected>>

(* A released Wait panics if the WaitGroup is in use again by the time its  *)
(* goroutine runs.                                                          *)
WaitReturns(c) ==
    /\ Running
    /\ c \in woken
    /\ woken' = woken \ {c}
    /\ IF count = 0 /\ waiters = {}
       THEN Goto(c, "idle") /\ UNCHANGED panicked
       ELSE panicked' = TRUE /\ UNCHANGED pc
    /\ UNCHANGED <<mine, vm, served, exiting, count, waiters, collected>>

(* The finalizer: nothing refers to the engine, so no call and no warm-up   *)
(* is in progress.  cleanup closes what is parked.                          *)
Cleanup ==
    /\ Running
    /\ \A c \in Callers : pc[c] = "idle"
    /\ In("boot") = {} /\ In("offer") = {} /\ exiting = 0
    /\ vm' = [v \in VMs |-> IF vm[v] = "parked" THEN "free" ELSE vm[v]]
    /\ collected' = TRUE
    /\ UNCHANGED <<pc, mine, served, exiting, count, waiters, woken, panicked>>

-----------------------------------------------------------------------------

Init ==
    /\ pc = [c \in Callers |-> "idle"]
    /\ mine = [c \in Callers |-> 1]
    /\ vm = [v \in VMs |-> "free"]
    /\ served = {}
    /\ exiting = 0
    /\ count = 0
    /\ waiters = {}
    /\ woken = {}
    /\ panicked = FALSE
    /\ collected = FALSE

Caller(c) ==
    \/ InlineWarmed(c)
    \/ InlineFailed(c)
    \/ StartWarming(c)
    \/ Dispatch(c)
    \/ Close(c)
    \/ Wait(c)
    \/ WaitReturns(c)

Warmer(v) == Warmed(v) \/ WarmFailed(v) \/ Park(v)

Next ==
    \/ \E c \in Callers : TakeWarm(c) \/ WarmInline(c) \/ Caller(c)
    \/ \E v \in VMs : Warmer(v)
    \/ Done
    \/ Cleanup

(* Goroutines that can run do run: the Go scheduler is fair.  Nobody has to *)
(* make a call, and the collector need not run.                             *)
Fairness ==
    /\ \A c \in Callers : WF_vars(Caller(c))
    /\ \A v \in VMs : WF_vars(Warmer(v))
    /\ WF_vars(Done)

Spec == Init /\ [][Next]_vars /\ Fairness

-----------------------------------------------------------------------------
(* Properties.                                                             *)

Holding == {c \in Callers : pc[c] \in {"inline", "start", "dispatch", "close"}}

(* One VM per dispatch, never reused: two calls never hold the same VM, and *)
(* a VM about to run a command has run none before.                         *)
Isolation ==
    /\ \A c, d \in Holding : mine[c] = mine[d] => c = d
    /\ \A c \in Holding : pc[c] # "close" => mine[c] \notin served

(* The engine's footprint: a call accounts for at most two VMs, its own and *)
(* the one it started to warm, beyond what the pool holds.                  *)
Footprint ==
    /\ Cardinality(In("parked")) <= PoolSize
    /\ MaxVMs - Cardinality(In("free")) <= PoolSize + 2 * Cardinality(Callers)

(* Once every call has returned, no warm-up of ours is still running and    *)
(* every VM is closed but those in the pool.                                *)
QuietAtRest ==
    (\A c \in Callers : pc[c] = "idle") =>
        /\ count = 0 /\ exiting = 0
        /\ \A v \in VMs : vm[v] \in {"free", "parked"}
        /\ collected => In("parked") = {}

(* Every call returns, however the warm-ups and the other calls end, unless *)
(* the process panics.                                                      *)
EveryCallReturns ==
    \A c \in Callers : (pc[c] # "idle") ~> (pc[c] = "idle" \/ panicked)

(* Concurrent calls on one engine never panic.                             *)
NeverPanics == ~ panicked
=============================================================================
