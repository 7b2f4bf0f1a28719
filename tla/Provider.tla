------------------------------ MODULE Provider ------------------------------
(***************************************************************************)
(* CSampleProvider, the DLL's reference count and the lifetimes they are   *)
(* meant to control, with LogonUI as a COM client that releases only the   *)
(* references it holds and enumerates tiles only after SetUsageScenario    *)
(* has succeeded.  Each instance owns two tiles and a CCommandWindow, made *)
(* together; the window's thread runs code of the DLL.  What the window    *)
(* does is in CommandWindow; here a call of GetConnectedStatus is one step *)
(* that is taken when, and if, it returns.                                 *)
(***************************************************************************)
EXTENDS Integers, FiniteSets

CONSTANTS
  Instances,   \* provider objects that can be created in a process
  Sinks,       \* LogonUI's callback objects
  NoSink,      \* the NULL callback
  MaxRefs,     \* bound: references of each kind LogonUI takes at a time
  MaxFailures  \* bound: failed SetUsageScenario calls in a process

\* NULL is no callback, and the bounds are numbers.
ASSUME ProviderAssumption ==
  /\ NoSink \notin Sinks
  /\ MaxRefs \in Nat
  /\ MaxFailures \in Nat

VARIABLES
  g_cRef,        \* the DLL's count
  locks,         \* LockServer(TRUE) calls not undone
  factoryStage,  \* the class factory last made: "none", "live" or "deleted"
  factoryRef,    \* its _cRef
  factoryHeld,   \* references LogonUI has to it
  stage,         \* each instance: "none", "live" or "deleted"
  cRef,          \* its _cRef
  held,          \* references LogonUI has to it
  ready,         \* its _pCredential, _pMessageCredential and _pCommandWindow are set
  thread,        \* its window's thread is running
  fConnected,    \* its window's _fConnected
  told,          \* the tile LogonUI has been told about, "closed" before it may ask
  tileRef,       \* the _cRef of each of its tiles
  tileHeld,      \* references LogonUI has to each
  pcpe,          \* its _pcpe
  sinkRefs,      \* references the instances have to each callback
  failures       \* failed SetUsageScenario calls so far

factoryVars == <<factoryStage, factoryRef, factoryHeld>>
vars == <<g_cRef, locks, factoryVars, stage, cRef, held, ready, thread,
          fConnected, told, tileRef, tileHeld, pcpe, sinkRefs, failures>>

Tiles == {"credential", "message"}

Init ==
  /\ g_cRef = 0
  /\ locks = 0
  /\ factoryStage = "none"
  /\ factoryRef = 0
  /\ factoryHeld = 0
  /\ stage = [p \in Instances |-> "none"]
  /\ cRef = [p \in Instances |-> 0]
  /\ held = [p \in Instances |-> 0]
  /\ ready = [p \in Instances |-> FALSE]
  /\ thread = [p \in Instances |-> FALSE]
  /\ fConnected = [p \in Instances |-> FALSE]
  /\ told = [p \in Instances |-> "closed"]
  /\ tileRef = [p \in Instances |-> [t \in Tiles |-> 0]]
  /\ tileHeld = [p \in Instances |-> [t \in Tiles |-> 0]]
  /\ pcpe = [p \in Instances |-> NoSink]
  /\ sinkRefs = [s \in Sinks |-> 0]
  /\ failures = 0

tileVars == <<ready, thread, fConnected, told, tileRef, tileHeld, failures>>
sinkVars == <<pcpe, sinkRefs>>

\* LogonUI can call an instance it holds a reference to.
Callable(p) == held[p] > 0

instanceVars == <<stage, cRef, held>>

(***************************************************************************)
(* DllGetClassObject makes a factory of its own for each call; LogonUI     *)
(* asks for another one when it has let go of the last.  As below, the     *)
(* reference of the constructor is released, and a factory nobody got      *)
(* stays with a count of 0.  The DLL's count does not include factories.   *)
(***************************************************************************)
DllGetClassObject(known) ==
  /\ factoryHeld = 0
  /\ factoryStage' = "live"
  /\ factoryRef' = IF known THEN 1 ELSE 0
  /\ factoryHeld' = IF known THEN 1 ELSE 0
  /\ UNCHANGED <<g_cRef, locks, instanceVars, tileVars, sinkVars>>

FactoryAddRef ==
  /\ factoryHeld \in 1 .. MaxRefs - 1
  /\ factoryRef' = factoryRef + 1
  /\ factoryHeld' = factoryHeld + 1
  /\ UNCHANGED <<g_cRef, locks, factoryStage, instanceVars, tileVars, sinkVars>>

FactoryRelease ==
  /\ factoryHeld > 0
  /\ factoryRef' = factoryRef - 1
  /\ factoryStage' = IF factoryRef = 0 THEN "deleted" ELSE factoryStage
  /\ factoryHeld' = factoryHeld - 1
  /\ UNCHANGED <<g_cRef, locks, instanceVars, tileVars, sinkVars>>

\* A variant of CreateInstance that does not count the object in the DLL.
CreateInstance_NotCounted(p, known) ==
  /\ factoryHeld > 0
  /\ stage[p] = "none"
  /\ stage' = [stage EXCEPT ![p] = "live"]
  /\ cRef' = [cRef EXCEPT ![p] = IF known THEN 1 ELSE 0]
  /\ held' = [held EXCEPT ![p] = IF known THEN 1 ELSE 0]
  /\ UNCHANGED <<g_cRef, locks, tileVars, sinkVars, factoryVars>>

(***************************************************************************)
(* CSampleProvider_CreateInstance: the constructor's reference is released *)
(* after QueryInterface took another for the caller, if it knows the       *)
(* interface.  Release deletes on the count it found BEFORE decrementing,  *)
(* so an object nobody got stays, with a count of 0.                       *)
(***************************************************************************)
CreateInstance(p, known) ==
  /\ factoryHeld > 0
  /\ stage[p] = "none"
  /\ stage' = [stage EXCEPT ![p] = "live"]
  /\ g_cRef' = g_cRef + 1
  /\ cRef' = [cRef EXCEPT ![p] = IF known THEN 1 ELSE 0]
  /\ held' = [held EXCEPT ![p] = IF known THEN 1 ELSE 0]
  /\ UNCHANGED <<locks, tileVars, sinkVars, factoryVars>>

AddRef(p) ==
  /\ Callable(p)
  /\ held[p] < MaxRefs
  /\ cRef' = [cRef EXCEPT ![p] = @ + 1]
  /\ held' = [held EXCEPT ![p] = @ + 1]
  /\ UNCHANGED <<g_cRef, locks, stage, tileVars, sinkVars, factoryVars>>

\* The count falls, and the object goes when it was 0 already.
Released(p) ==
  /\ cRef' = [cRef EXCEPT ![p] = @ - 1]
  /\ stage' = [stage EXCEPT ![p] = IF cRef[p] = 0 THEN "deleted" ELSE @]

Release(p) ==
  /\ Callable(p)
  /\ Released(p)
  /\ held' = [held EXCEPT ![p] = @ - 1]
  /\ told' = [told EXCEPT ![p] = IF held[p] = 1 THEN "closed" ELSE @]
  /\ UNCHANGED <<g_cRef, locks, ready, thread, fConnected, tileRef, tileHeld,
                 failures, sinkVars, factoryVars>>

LockServer(lock) ==
  /\ factoryHeld > 0
  /\ IF lock THEN locks < MaxRefs ELSE locks > 0
  /\ locks' = IF lock THEN locks + 1 ELSE locks - 1
  /\ g_cRef' = IF lock THEN g_cRef + 1 ELSE g_cRef - 1
  /\ UNCHANGED <<stage, cRef, held, tileVars, sinkVars, factoryVars>>
-----------------------------------------------------------------------------
\* A scenario the provider does not take, or whose tiles exist already.
SetUsageScenario(p, supported) ==
  /\ Callable(p)
  /\ supported => ready[p]
  /\ told' = [told EXCEPT ![p] = IF supported THEN "nothing" ELSE "closed"]
  /\ UNCHANGED <<g_cRef, locks, stage, cRef, held, ready, thread, fConnected,
                 tileRef, tileHeld, failures, sinkVars, factoryVars>>

\* The first one taken: two tiles are made, and a window that refers to the
\* provider and has a thread of its own.
SetUpTiles(p) ==
  /\ Callable(p)
  /\ ~ready[p]
  /\ ready' = [ready EXCEPT ![p] = TRUE]
  /\ thread' = [thread EXCEPT ![p] = TRUE]
  /\ g_cRef' = g_cRef + 2
  /\ cRef' = [cRef EXCEPT ![p] = @ + 1]
  /\ tileRef' = [tileRef EXCEPT ![p] = [t \in Tiles |-> 1]]
  /\ told' = [told EXCEPT ![p] = "nothing"]
  /\ UNCHANGED <<locks, stage, held, fConnected, tileHeld, failures, sinkVars,
                 factoryVars>>

\* A variant of SetUpFails with a window that takes no reference to the provider.
SetUpFails_NoAddRef(p) ==
  /\ Callable(p)
  /\ ~ready[p]
  /\ failures < MaxFailures
  /\ failures' = failures + 1
  /\ Released(p)
  /\ g_cRef' = g_cRef + 2
  /\ told' = [told EXCEPT ![p] = "closed"]
  /\ UNCHANGED <<locks, held, ready, thread, fConnected, tileRef, tileHeld,
                 sinkVars, factoryVars>>

(***************************************************************************)
(* The window's thread cannot be created.  The window is deleted and gives *)
(* back the reference it took; the tiles are released and forgotten, which *)
(* does not delete them, so that the DLL counts them for ever.             *)
(***************************************************************************)
SetUpFails(p) ==
  /\ Callable(p)
  /\ ~ready[p]
  /\ failures < MaxFailures
  /\ failures' = failures + 1
  /\ g_cRef' = g_cRef + 2
  /\ told' = [told EXCEPT ![p] = "closed"]
  /\ UNCHANGED <<locks, stage, cRef, held, ready, thread, fConnected, tileRef,
                 tileHeld, sinkVars, factoryVars>>

\* The window is closed or cannot be created: its thread ends.
ThreadEnds(p) ==
  /\ thread[p]
  /\ thread' = [thread EXCEPT ![p] = FALSE]
  /\ UNCHANGED <<g_cRef, locks, stage, cRef, held, ready, fConnected, told,
                 tileRef, tileHeld, failures, sinkVars, factoryVars>>
-----------------------------------------------------------------------------
\* GetConnectedStatus returns when a card has been accepted, and not before.
GetConnectedStatus(p) == fConnected' = [fConnected EXCEPT ![p] = TRUE]

\* The tile the answer of GetConnectedStatus chooses.
Chosen(p) == IF fConnected'[p] THEN "credential" ELSE "message"

\* GetFieldDescriptorCount and GetFieldDescriptorAt describe the chosen tile.
GetFieldDescriptors(p) ==
  /\ Callable(p)
  /\ told[p] # "closed"
  /\ GetConnectedStatus(p)
  /\ told' = [told EXCEPT ![p] = Chosen(p)]
  /\ UNCHANGED <<g_cRef, locks, stage, cRef, held, ready, thread, tileRef,
                 tileHeld, failures, sinkVars, factoryVars>>

GetCredentialAt(p) ==
  /\ Callable(p)
  /\ told[p] # "closed"
  /\ GetConnectedStatus(p)
  /\ tileHeld[p][Chosen(p)] < MaxRefs
  /\ told' = [told EXCEPT ![p] = Chosen(p)]
  /\ tileRef' = [tileRef EXCEPT ![p][Chosen(p)] = @ + 1]
  /\ tileHeld' = [tileHeld EXCEPT ![p][Chosen(p)] = @ + 1]
  /\ UNCHANGED <<g_cRef, locks, stage, cRef, held, ready, thread, failures,
                 sinkVars, factoryVars>>

\* The provider keeps a reference of its own, so a tile is not deleted here.
ReleaseTile(p, t) ==
  /\ tileHeld[p][t] > 0
  /\ tileRef' = [tileRef EXCEPT ![p][t] = @ - 1]
  /\ tileHeld' = [tileHeld EXCEPT ![p][t] = @ - 1]
  /\ UNCHANGED <<g_cRef, locks, stage, cRef, held, ready, thread, fConnected,
                 told, failures, sinkVars, factoryVars>>
-----------------------------------------------------------------------------
\* References to s when an instance lets go of its _pcpe and takes `new`.
Swapped(p, new, s) ==
  sinkRefs[s] - (IF s = pcpe[p] THEN 1 ELSE 0) + (IF s = new THEN 1 ELSE 0)

\* A variant of Advise that forgets the callback it had.
Advise_NoRelease(p, s) ==
  /\ Callable(p)
  /\ pcpe' = [pcpe EXCEPT ![p] = s]
  /\ sinkRefs' = [sinkRefs EXCEPT ![s] = @ + 1]
  /\ UNCHANGED <<g_cRef, locks, stage, cRef, held, tileVars, factoryVars>>

Advise(p, s) ==
  /\ Callable(p)
  /\ pcpe' = [pcpe EXCEPT ![p] = s]
  /\ sinkRefs' = [x \in Sinks |-> Swapped(p, s, x)]
  /\ UNCHANGED <<g_cRef, locks, stage, cRef, held, tileVars, factoryVars>>

UnAdvise(p) ==
  /\ Callable(p)
  /\ pcpe' = [pcpe EXCEPT ![p] = NoSink]
  /\ sinkRefs' = [x \in Sinks |-> Swapped(p, NoSink, x)]
  /\ UNCHANGED <<g_cRef, locks, stage, cRef, held, tileVars, factoryVars>>
-----------------------------------------------------------------------------
InstanceNext(p) ==
  \/ \E known \in BOOLEAN : CreateInstance(p, known)
  \/ AddRef(p) \/ Release(p)
  \/ \E supported \in BOOLEAN : SetUsageScenario(p, supported)
  \/ SetUpTiles(p) \/ SetUpFails(p) \/ ThreadEnds(p)
  \/ GetFieldDescriptors(p) \/ GetCredentialAt(p)
  \/ \E t \in Tiles : ReleaseTile(p, t)
  \/ \E s \in Sinks : Advise(p, s)
  \/ UnAdvise(p)

Next ==
  \/ \E p \in Instances : InstanceNext(p)
  \/ \E known \in BOOLEAN : DllGetClassObject(known)
  \/ FactoryAddRef \/ FactoryRelease
  \/ \E lock \in BOOLEAN : LockServer(lock)

Spec == Init /\ [][Next]_vars
-----------------------------------------------------------------------------
\* The types of all variables.
TypeOK ==
  /\ g_cRef \in Nat
  /\ locks \in 0 .. MaxRefs
  /\ factoryStage \in {"none", "live", "deleted"}
  /\ factoryRef \in Nat
  /\ factoryHeld \in Nat
  /\ stage \in [Instances -> {"none", "live", "deleted"}]
  /\ cRef \in [Instances -> Nat]
  /\ held \in [Instances -> Nat]
  /\ ready \in [Instances -> BOOLEAN]
  /\ thread \in [Instances -> BOOLEAN]
  /\ fConnected \in [Instances -> BOOLEAN]
  /\ told \in [Instances -> {"closed", "nothing"} \cup Tiles]
  /\ tileRef \in [Instances -> [Tiles -> Nat]]
  /\ tileHeld \in [Instances -> [Tiles -> Nat]]
  /\ pcpe \in [Instances -> Sinks \cup {NoSink}]
  /\ sinkRefs \in [Sinks -> Nat]
  /\ failures \in 0 .. MaxFailures

(***************************************************************************)
(* Whatever LogonUI does, and however often setting the tiles up fails,    *)
(* an instance's count is the references LogonUI has and the window's; a   *)
(* tile's is LogonUI's and the provider's, the factory's LogonUI's.  So    *)
(* nothing LogonUI can call has been deleted.                              *)
(***************************************************************************)
RefsAccounted ==
  /\ factoryRef = factoryHeld
  /\ factoryHeld > 0 => factoryStage = "live"
  /\ \A p \in Instances :
    /\ cRef[p] = held[p] + (IF ready[p] THEN 1 ELSE 0)
    /\ held[p] > 0 => stage[p] = "live"
    /\ \A t \in Tiles : tileRef[p][t] = tileHeld[p][t] + (IF ready[p] THEN 1 ELSE 0)

(***************************************************************************)
(* When DllCanUnloadNow says yes, no instance lives and no window thread   *)
(* is left to run code that is no longer there.  Factories are not         *)
(* counted: LogonUI has to lock the server while it keeps one.             *)
(***************************************************************************)
UnloadSafe ==
  g_cRef = 0 => \A p \in Instances : stage[p] # "live" /\ ~thread[p]

(***************************************************************************)
(* Each callback has exactly the references of the instances that will     *)
(* call it, however Advise and UnAdvise are repeated: it is neither leaked *)
(* nor released twice.                                                     *)
(***************************************************************************)
SinksBalanced ==
  \A s \in Sinks :
    sinkRefs[s] = Cardinality({p \in Instances : pcpe[p] = s})
=============================================================================
