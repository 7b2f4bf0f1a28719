--------------------------- MODULE ProviderProofs ---------------------------
(***************************************************************************)
(* The reference counts of Provider, for any number of instances,          *)
(* callbacks, references and failures.                                     *)
(***************************************************************************)
EXTENDS Provider, FiniteSetTheorems, TLAPS

USE DEF factoryVars

(***************************************************************************)
(* RefsAccounted is inductive together with the types of the variables it  *)
(* speaks of: a count can be shown not to fall below zero only because it  *)
(* includes the reference LogonUI is about to release.                     *)
(***************************************************************************)
LifeTypes ==
  /\ factoryStage \in {"none", "live", "deleted"}
  /\ factoryRef \in Nat
  /\ factoryHeld \in Nat
  /\ stage \in [Instances -> {"none", "live", "deleted"}]
  /\ cRef \in [Instances -> Nat]
  /\ held \in [Instances -> Nat]
  /\ ready \in [Instances -> BOOLEAN]
  /\ tileRef \in [Instances -> [Tiles -> Nat]]
  /\ tileHeld \in [Instances -> [Tiles -> Nat]]
  /\ told \in [Instances -> {"closed", "nothing"} \cup Tiles]

lifeVars == <<factoryVars, stage, cRef, held, ready, tileRef, tileHeld, told>>

LifeInv == LifeTypes /\ RefsAccounted

\* An instance that is not there yet has no reference and no tiles; and LogonUI
\* neither asks for tiles nor has any before they are made.
Unborn ==
  \A p \in Instances :
    /\ stage[p] = "none" => cRef[p] = 0 /\ ~ready[p]
    /\ ~ready[p] => told[p] = "closed" /\ \A t \in Tiles : tileHeld[p][t] = 0

\* Initially nothing exists and nothing is counted.
LEMMA LifeInit == Init => LifeInv /\ Unborn
  BY DEF Init, LifeInv, LifeTypes, RefsAccounted, Unborn, Tiles

\* A step that leaves the counted objects alone preserves their accounts.
LEMMA LifeStutter ==
  ASSUME LifeInv, Unborn, UNCHANGED lifeVars
  PROVE  LifeInv' /\ Unborn'
  BY DEF LifeInv, LifeTypes, RefsAccounted, Unborn, lifeVars

\* The factory's count is LogonUI's references, and is above 0 when one is released.
LEMMA LifeFactory ==
  ASSUME LifeInv, Unborn,
         \/ \E known \in BOOLEAN : DllGetClassObject(known)
         \/ FactoryAddRef \/ FactoryRelease
  PROVE  LifeInv' /\ Unborn'
  <1>1. UNCHANGED <<stage, cRef, held, ready, tileRef, tileHeld, told>>
    BY DEF DllGetClassObject, FactoryAddRef, FactoryRelease, instanceVars, tileVars
  <1>2. /\ factoryStage' \in {"none", "live", "deleted"}
        /\ factoryRef' \in Nat /\ factoryHeld' \in Nat
        /\ factoryRef' = factoryHeld'
        /\ factoryHeld' > 0 => factoryStage' = "live"
    BY DEF DllGetClassObject, FactoryAddRef, FactoryRelease, LifeInv, LifeTypes,
       RefsAccounted
  <1> QED
    BY <1>1, <1>2 DEF LifeInv, LifeTypes, RefsAccounted, Unborn

\* Creating an instance counts the reference the caller got, if any.
LEMMA LifeCreate ==
  ASSUME LifeInv, Unborn, NEW p \in Instances, NEW known \in BOOLEAN,
         CreateInstance(p, known)
  PROVE  LifeInv' /\ Unborn'
  <1>1. cRef[p] = 0 /\ ~ready[p] /\ held[p] = 0
    BY DEF CreateInstance, Unborn, LifeInv, LifeTypes, RefsAccounted
  <1>2. LifeTypes'
    BY DEF CreateInstance, LifeInv, LifeTypes, tileVars
  <1>3. RefsAccounted'
    BY <1>1 DEF CreateInstance, LifeInv, LifeTypes, RefsAccounted, tileVars
  <1>4. Unborn'
    BY DEF CreateInstance, LifeInv, LifeTypes, Unborn, tileVars
  <1> QED
    BY <1>2, <1>3, <1>4 DEF LifeInv

\* LogonUI takes a reference to an instance it can call.
LEMMA LifeAddRef ==
  ASSUME LifeInv, Unborn, NEW p \in Instances, AddRef(p)
  PROVE  LifeInv' /\ Unborn'
  <1>1. stage[p] = "live"
    BY DEF AddRef, Callable, LifeInv, RefsAccounted
  <1> QED
    BY <1>1 DEF AddRef, LifeInv, LifeTypes, RefsAccounted, Unborn, tileVars

\* LogonUI's release never finds a count of 0, so it never deletes.
LEMMA LifeRelease ==
  ASSUME LifeInv, Unborn, NEW p \in Instances, Release(p)
  PROVE  LifeInv' /\ Unborn'
  <1>1. cRef[p] > 0 /\ stage[p] = "live"
    BY DEF Release, Callable, LifeInv, LifeTypes, RefsAccounted
  <1>2. stage' = stage
    BY <1>1 DEF Release, Released, LifeInv, LifeTypes
  <1> QED
    BY <1>1, <1>2 DEF Release, Released, Callable, LifeInv, LifeTypes,
       RefsAccounted, Unborn

\* Setting up counts the window's reference and the provider's to its tiles.
LEMMA LifeSetUp ==
  ASSUME LifeInv, Unborn, NEW p \in Instances, SetUpTiles(p)
  PROVE  LifeInv' /\ Unborn'
  <1>1. stage[p] = "live" /\ ~ready[p]
    BY DEF SetUpTiles, Callable, LifeInv, RefsAccounted
  <1>2. \A t \in Tiles : tileRef[p][t] = 0 /\ tileHeld[p][t] = 0
    BY <1>1 DEF LifeInv, LifeTypes, RefsAccounted, Unborn
  <1>3. LifeTypes'
    BY DEF SetUpTiles, LifeInv, LifeTypes
  <1>4. RefsAccounted'
    BY <1>1, <1>2 DEF SetUpTiles, LifeInv, LifeTypes, RefsAccounted
  <1>5. Unborn'
    BY <1>1 DEF SetUpTiles, LifeInv, LifeTypes, Unborn
  <1> QED
    BY <1>3, <1>4, <1>5 DEF LifeInv

\* Where LogonUI is in its enumeration matters to no count.
LEMMA LifeTold ==
  ASSUME LifeInv, Unborn, NEW p \in Instances,
         UNCHANGED <<factoryVars, stage, cRef, held, ready, tileRef, tileHeld>>,
         NEW new \in {"closed", "nothing"} \cup Tiles,
         told' = [told EXCEPT ![p] = new],
         ready[p] \/ new = "closed"
  PROVE  LifeInv' /\ Unborn'
  <1>1. LifeInv'
    BY DEF LifeInv, LifeTypes, RefsAccounted
  <1>2. Unborn'
    BY DEF LifeInv, LifeTypes, Unborn
  <1> QED
    BY <1>1, <1>2

\* A tile handed out is counted once for LogonUI.
LEMMA LifeGetCredential ==
  ASSUME LifeInv, Unborn, NEW p \in Instances, GetCredentialAt(p)
  PROVE  LifeInv' /\ Unborn'
  <1>1. Chosen(p) \in Tiles
    BY DEF Chosen, Tiles
  <1>2. PICK t \in Tiles :
          /\ tileRef' = [tileRef EXCEPT ![p][t] = @ + 1]
          /\ tileHeld' = [tileHeld EXCEPT ![p][t] = @ + 1]
    BY <1>1 DEF GetCredentialAt
  <1>3. /\ UNCHANGED <<factoryVars, stage, cRef, held, ready>>
        /\ told' = [told EXCEPT ![p] = Chosen(p)]
    BY DEF GetCredentialAt
  <1>4. ready[p]
    BY DEF GetCredentialAt, Unborn
  <1> QED
    BY <1>1, <1>2, <1>3, <1>4 DEF LifeInv, LifeTypes, RefsAccounted, Unborn

\* A tile released was counted for LogonUI.
LEMMA LifeReleaseTile ==
  ASSUME LifeInv, Unborn, NEW p \in Instances, NEW t \in Tiles, ReleaseTile(p, t)
  PROVE  LifeInv' /\ Unborn'
  <1>0. /\ tileRef[p][t] \in Nat
        /\ tileHeld[p][t] \in Nat \ {0}
        /\ tileRef[p][t] = tileHeld[p][t] + (IF ready[p] THEN 1 ELSE 0)
        /\ ready[p]
    <2>1. tileRef[p] \in [Tiles -> Nat] /\ tileHeld[p] \in [Tiles -> Nat]
      BY DEF LifeInv, LifeTypes
    <2>2. tileRef[p][t] \in Nat /\ tileHeld[p][t] \in Nat
      BY <2>1
    <2>3. ready[p] \in BOOLEAN
      BY DEF LifeInv, LifeTypes
    <2>4. tileHeld[p][t] > 0
      BY DEF ReleaseTile
    <2>5. tileHeld[p][t] # 0
      BY <2>2, <2>4
    <2>6. ready[p]
      BY <2>5, <2>3 DEF Unborn
    <2> QED
      BY <2>2, <2>5, <2>6 DEF LifeInv, RefsAccounted
  <1>1. tileRef[p][t] \in Nat \ {0} /\ tileHeld[p][t] \in Nat \ {0}
    BY <1>0
  <1> QED
    BY <1>1 DEF ReleaseTile, LifeInv, LifeTypes, RefsAccounted, Unborn

\* Every step keeps the accounts.
LEMMA LifeNext == LifeInv /\ Unborn /\ [Next]_vars => LifeInv' /\ Unborn'
  <1> SUFFICES ASSUME LifeInv, Unborn, [Next]_vars PROVE LifeInv' /\ Unborn'
    OBVIOUS
  <1>1. CASE \E lock \in BOOLEAN : LockServer(lock)
    BY <1>1, LifeStutter DEF LockServer, lifeVars, tileVars
  <1>2. CASE UNCHANGED vars
    BY <1>2, LifeStutter DEF vars, lifeVars
  <1>3. ASSUME NEW p \in Instances, InstanceNext(p) PROVE LifeInv' /\ Unborn'
    <2>1. CASE \E known \in BOOLEAN : CreateInstance(p, known)
      BY <2>1, LifeCreate
    <2>2. CASE AddRef(p)
      BY <2>2, LifeAddRef
    <2>3. CASE Release(p)
      BY <2>3, LifeRelease
    <2>4. CASE \E supported \in BOOLEAN : SetUsageScenario(p, supported)
      <3>1. PICK supported \in BOOLEAN : SetUsageScenario(p, supported)
        BY <2>4
      <3> QED
        BY <3>1, LifeTold DEF SetUsageScenario
    <2>5. CASE SetUpTiles(p)
      BY <2>5, LifeSetUp
    <2>6. CASE SetUpFails(p)
      BY <2>6, LifeTold DEF SetUpFails
    <2>7. CASE ThreadEnds(p)
      BY <2>7, LifeStutter DEF ThreadEnds, lifeVars
    <2>8. CASE GetFieldDescriptors(p)
      BY <2>8, LifeTold DEF GetFieldDescriptors, Chosen, Tiles, Unborn
    <2>9. CASE GetCredentialAt(p)
      BY <2>9, LifeGetCredential
    <2>10. CASE \E t \in Tiles : ReleaseTile(p, t)
      BY <2>10, LifeReleaseTile
    <2>11. CASE \E s \in Sinks : Advise(p, s)
      BY <2>11, LifeStutter DEF Advise, lifeVars, tileVars
    <2>12. CASE UnAdvise(p)
      BY <2>12, LifeStutter DEF UnAdvise, lifeVars, tileVars
    <2> QED
      BY <1>3, <2>1, <2>2, <2>3, <2>4, <2>5, <2>6, <2>7, <2>8, <2>9, <2>10,
         <2>11, <2>12 DEF InstanceNext
  <1>4. CASE \/ \E known \in BOOLEAN : DllGetClassObject(known)
             \/ FactoryAddRef \/ FactoryRelease
    BY <1>4, LifeFactory
  <1> QED
    BY <1>1, <1>2, <1>3, <1>4 DEF Next

(***************************************************************************)
(* The counts of every instance and tile are the references that exist,    *)
(* and nothing LogonUI can call has been deleted.                          *)
(***************************************************************************)
THEOREM CountsAccounted == Spec => []RefsAccounted
  <1>1. LifeInv => RefsAccounted
    BY DEF LifeInv
  <1> QED
    BY <1>1, LifeInit, LifeNext, PTL DEF Spec

(***************************************************************************)
(* Unloading.  The DLL's count is never below the locks LogonUI has plus   *)
(* one for each instance ever made (no instance's destructor runs), so it  *)
(* can be 0 only before the first instance, and a window's thread needs an *)
(* instance that made it.                                                  *)
(***************************************************************************)
DllInv ==
  /\ g_cRef \in Nat
  /\ locks \in 0 .. MaxRefs
  /\ g_cRef >= locks
  /\ thread \in [Instances -> BOOLEAN]
  /\ \A p \in Instances :
       /\ stage[p] # "none" => g_cRef > locks
       /\ thread[p] => stage[p] # "none"

dllVars == <<g_cRef, locks, stage, thread>>

\* A step that leaves the DLL's count and what it counts alone.
LEMMA DllStutter == ASSUME DllInv, UNCHANGED dllVars PROVE DllInv'
  BY DEF DllInv, dllVars

\* Every step keeps the DLL's count above what must keep it loaded.
LEMMA DllNext ==
  ASSUME LifeInv, DllInv, [Next]_vars PROVE DllInv'
  <1> USE ProviderAssumption
  <1>1. CASE \E lock \in BOOLEAN : LockServer(lock)
    BY <1>1 DEF LockServer, DllInv, tileVars
  <1>2. CASE UNCHANGED vars
    BY <1>2, DllStutter DEF vars, dllVars
  <1>3. ASSUME NEW p \in Instances, InstanceNext(p) PROVE DllInv'
    <2>1. CASE \E known \in BOOLEAN : CreateInstance(p, known)
      BY <2>1 DEF CreateInstance, DllInv, tileVars, LifeInv, LifeTypes
    <2>2. CASE AddRef(p)
      BY <2>2, DllStutter DEF AddRef, dllVars, tileVars
    <2>3. CASE Release(p)
      <3>1. stage' = stage
        BY <2>3 DEF Release, Released, Callable, LifeInv, LifeTypes, RefsAccounted
      <3> QED
        BY <2>3, <3>1, DllStutter DEF Release, dllVars
    <2>4. CASE \E supported \in BOOLEAN : SetUsageScenario(p, supported)
      BY <2>4, DllStutter DEF SetUsageScenario, dllVars
    <2>5. CASE SetUpTiles(p)
      <3>1. stage[p] = "live"
        BY <2>5 DEF SetUpTiles, Callable, LifeInv, RefsAccounted
      <3> QED
        BY <2>5, <3>1 DEF SetUpTiles, DllInv
    <2>6. CASE SetUpFails(p)
      BY <2>6 DEF SetUpFails, DllInv
    <2>7. CASE ThreadEnds(p)
      BY <2>7 DEF ThreadEnds, DllInv
    <2>8. CASE GetFieldDescriptors(p)
      BY <2>8, DllStutter DEF GetFieldDescriptors, dllVars
    <2>9. CASE GetCredentialAt(p)
      BY <2>9, DllStutter DEF GetCredentialAt, dllVars
    <2>10. CASE \E t \in Tiles : ReleaseTile(p, t)
      BY <2>10, DllStutter DEF ReleaseTile, dllVars
    <2>11. CASE \E s \in Sinks : Advise(p, s)
      BY <2>11, DllStutter DEF Advise, dllVars, tileVars
    <2>12. CASE UnAdvise(p)
      BY <2>12, DllStutter DEF UnAdvise, dllVars, tileVars
    <2> QED
      BY <1>3, <2>1, <2>2, <2>3, <2>4, <2>5, <2>6, <2>7, <2>8, <2>9, <2>10,
         <2>11, <2>12 DEF InstanceNext
  <1>4. CASE \/ \E known \in BOOLEAN : DllGetClassObject(known)
             \/ FactoryAddRef \/ FactoryRelease
    BY <1>4, DllStutter DEF DllGetClassObject, FactoryAddRef, FactoryRelease,
       dllVars, instanceVars, tileVars
  <1> QED
    BY <1>1, <1>2, <1>3, <1>4 DEF Next

(***************************************************************************)
(* DllCanUnloadNow never says yes while an instance lives or a window's    *)
(* thread runs, whatever LogonUI locks, creates, releases and sets up.     *)
(***************************************************************************)
THEOREM NeverUnloadedInUse == Spec => []UnloadSafe
  <1>1. Init => DllInv
    BY ProviderAssumption DEF Init, DllInv
  <1>2. LifeInv /\ DllInv => UnloadSafe
    BY DEF LifeInv, DllInv, UnloadSafe, LifeTypes
  <1>3. LifeInv /\ DllInv /\ [Next]_vars => DllInv'
    BY DllNext
  <1> QED
    BY <1>1, <1>2, <1>3, LifeInit, LifeNext, PTL DEF Spec

ConnectedType == fConnected \in [Instances -> BOOLEAN]

\* GetConnectedStatus is the only call that assigns _fConnected.
LEMMA ConnectedNext ==
  ASSUME ConnectedType, [Next]_vars PROVE ConnectedType'
  <1> USE DEF ConnectedType
  <1>1. CASE UNCHANGED fConnected
    BY <1>1
  <1>2. CASE \E p \in Instances : GetConnectedStatus(p)
    BY <1>2 DEF GetConnectedStatus
  <1> QED
    BY <1>1, <1>2 DEF Next, InstanceNext, vars, tileVars, LockServer,
       DllGetClassObject, FactoryAddRef, FactoryRelease,
       CreateInstance, AddRef, Release, SetUsageScenario, SetUpTiles,
       SetUpFails, ThreadEnds, GetFieldDescriptors, GetCredentialAt,
       ReleaseTile, Advise, UnAdvise

(***************************************************************************)
(* The callbacks of finitely many instances.                               *)
(***************************************************************************)
Users(s) == {p \in Instances : pcpe[p] = s}

SinkInv ==
  /\ pcpe \in [Instances -> Sinks \cup {NoSink}]
  /\ sinkRefs \in [Sinks -> Nat]
  /\ SinksBalanced

\* Letting go of one callback and taking another moves one reference.
LEMMA SinkSwap ==
  ASSUME IsFiniteSet(Instances), SinkInv, NEW p \in Instances,
         NEW new \in Sinks \cup {NoSink},
         pcpe' = [pcpe EXCEPT ![p] = new],
         sinkRefs' = [x \in Sinks |-> Swapped(p, new, x)]
  PROVE  SinkInv'
  <1>1. pcpe' \in [Instances -> Sinks \cup {NoSink}]
    BY DEF SinkInv
  <1>2. ASSUME NEW s \in Sinks
        PROVE  sinkRefs'[s] \in Nat /\ sinkRefs'[s] = Cardinality(Users(s)')
    <2> DEFINE Others == Users(s) \ {p}
    <2>1. IsFiniteSet(Users(s)) /\ IsFiniteSet(Others)
      BY FS_Subset DEF Users
    <2>2. Cardinality(Others) \in Nat
      BY <2>1, FS_CardinalityType
    <2>3. sinkRefs[s] = Cardinality(Users(s)) /\ sinkRefs[s] \in Nat
      BY DEF SinkInv, SinksBalanced, Users
    <2>4. sinkRefs[s] = Cardinality(Others) + (IF s = pcpe[p] THEN 1 ELSE 0)
      <3>1. CASE s = pcpe[p]
        <4>1. p \in Users(s)
          BY <3>1 DEF Users
        <4> QED
          BY <2>1, <2>2, <2>3, <3>1, <4>1, FS_RemoveElement
      <3>2. CASE s # pcpe[p]
        <4>1. Others = Users(s)
          BY <3>2 DEF Users
        <4> QED
          BY <2>3, <3>2, <4>1
      <3> QED
        BY <3>1, <3>2
    <2>5. Cardinality(Users(s)') = Cardinality(Others) + (IF s = new THEN 1 ELSE 0)
      <3>1. CASE s = new
        <4>1. Users(s)' = Others \cup {p}
          BY <3>1 DEF Users, SinkInv
        <4> QED
          BY <2>1, <2>2, <3>1, <4>1, FS_AddElement
      <3>2. CASE s # new
        <4>1. Users(s)' = Others
          BY <3>2 DEF Users, SinkInv
        <4> QED
          BY <2>2, <3>2, <4>1
      <3> QED
        BY <3>1, <3>2
    <2>6. sinkRefs'[s] = Cardinality(Others) + (IF s = new THEN 1 ELSE 0)
      BY <2>2, <2>4 DEF Swapped
    <2> HIDE DEF Others
    <2> QED
      BY <2>2, <2>5, <2>6
  <1>3. sinkRefs' \in [Sinks -> Nat]
    BY <1>2
  <1> QED
    BY <1>1, <1>2, <1>3 DEF SinkInv, SinksBalanced, Users

\* Only Advise and UnAdvise touch the callbacks.
LEMMA SinkNext ==
  ASSUME IsFiniteSet(Instances), SinkInv, [Next]_vars PROVE SinkInv'
  <1>1. CASE UNCHANGED sinkVars
    BY <1>1 DEF sinkVars, SinkInv, SinksBalanced
  <1>2. ASSUME NEW p \in Instances, NEW s \in Sinks, Advise(p, s) PROVE SinkInv'
    BY <1>2, SinkSwap DEF Advise
  <1>3. ASSUME NEW p \in Instances, UnAdvise(p) PROVE SinkInv'
    BY <1>3, SinkSwap DEF UnAdvise
  <1>4. CASE \E lock \in BOOLEAN : LockServer(lock)
    BY <1>4, <1>1 DEF LockServer
  <1>5. CASE UNCHANGED vars
    BY <1>5, <1>1 DEF vars, sinkVars
  <1>6. ASSUME NEW p \in Instances, InstanceNext(p) PROVE SinkInv'
    <2>1. CASE \/ \E known \in BOOLEAN : CreateInstance(p, known)
               \/ AddRef(p) \/ Release(p)
               \/ \E supported \in BOOLEAN : SetUsageScenario(p, supported)
               \/ SetUpTiles(p) \/ SetUpFails(p) \/ ThreadEnds(p)
               \/ GetFieldDescriptors(p) \/ GetCredentialAt(p)
               \/ \E t \in Tiles : ReleaseTile(p, t)
      BY <2>1, <1>1 DEF CreateInstance, AddRef, Release, SetUsageScenario,
         SetUpTiles, SetUpFails, ThreadEnds, GetFieldDescriptors,
         GetCredentialAt, ReleaseTile
    <2> QED
      BY <1>6, <1>2, <1>3, <2>1 DEF InstanceNext
  <1>7. CASE \/ \E known \in BOOLEAN : DllGetClassObject(known)
             \/ FactoryAddRef \/ FactoryRelease
    BY <1>7, <1>1 DEF DllGetClassObject, FactoryAddRef, FactoryRelease
  <1> QED
    BY <1>4, <1>5, <1>6, <1>7 DEF Next

(***************************************************************************)
(* However Advise and UnAdvise are repeated, by any finite number of       *)
(* instances over any callbacks, none is leaked or released twice.         *)
(***************************************************************************)
THEOREM CallbacksBalanced ==
  ASSUME IsFiniteSet(Instances) PROVE Spec => []SinksBalanced
  <1>1. Init => SinkInv
    <2> SUFFICES ASSUME Init PROVE SinkInv
      OBVIOUS
    <2>1. \A s \in Sinks : Users(s) = {}
      BY ProviderAssumption DEF Init, Users
    <2> QED
      BY <2>1, FS_EmptySet DEF Init, SinkInv, SinksBalanced, Users
  <1>2. SinkInv => SinksBalanced
    BY DEF SinkInv
  <1>3. SinkInv /\ [Next]_vars => SinkInv'
    BY SinkNext
  <1> QED
    BY <1>1, <1>2, <1>3, PTL DEF Spec

FailuresInv == failures \in 0 .. MaxFailures

\* Failures are counted up to the bound.
LEMMA FailuresNext ==
  ASSUME FailuresInv, [Next]_vars PROVE FailuresInv'
  <1> USE ProviderAssumption DEF FailuresInv
  <1>1. CASE failures' \in {failures, failures + 1} /\ failures' <= MaxFailures
    BY <1>1
  <1>2. CASE UNCHANGED failures
    BY <1>2
  <1> QED
    BY <1>1, <1>2 DEF Next, InstanceNext, vars, tileVars, LockServer,
       DllGetClassObject, FactoryAddRef, FactoryRelease,
       CreateInstance, AddRef, Release, SetUsageScenario, SetUpTiles,
       SetUpFails, ThreadEnds, GetFieldDescriptors, GetCredentialAt,
       ReleaseTile, Advise, UnAdvise

(***************************************************************************)
(* Every variable keeps its type: in particular no count falls below zero, *)
(* the callbacks' neither.                                                 *)
(***************************************************************************)
THEOREM ProviderTypes ==
  ASSUME IsFiniteSet(Instances) PROVE Spec => []TypeOK
  <1>1. Init => LifeInv /\ Unborn /\ DllInv /\ ConnectedType /\ SinkInv /\ FailuresInv
    <2> SUFFICES ASSUME Init
                 PROVE  LifeInv /\ Unborn /\ DllInv /\ ConnectedType /\ SinkInv /\ FailuresInv
      OBVIOUS
    <2>1. \A s \in Sinks : Users(s) = {}
      BY ProviderAssumption DEF Init, Users
    <2>2. SinkInv
      BY <2>1, FS_EmptySet DEF Init, SinkInv, SinksBalanced, Users
    <2> QED
      BY <2>2, LifeInit, ProviderAssumption
         DEF Init, DllInv, ConnectedType, FailuresInv, Tiles
  <1>2. LifeInv /\ DllInv /\ ConnectedType /\ SinkInv /\ FailuresInv => TypeOK
    BY DEF LifeInv, LifeTypes, DllInv, ConnectedType, SinkInv, FailuresInv, TypeOK
  <1> QED
    BY <1>1, <1>2, LifeNext, DllNext, ConnectedNext, SinkNext, FailuresNext, PTL
       DEF Spec
=============================================================================
