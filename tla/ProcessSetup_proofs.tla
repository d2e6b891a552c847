------------------------- MODULE ProcessSetup_proofs -------------------------
(***************************************************************************)
(* The process setup for any number of threads, registries, images and     *)
(* setups: types, the inductive invariant SetupInv, that a latched setup   *)
(* stands, that the locks and failures implement SetupOnce, which failures *)
(* unlock a record, that a memo entry stands, what survives Ctrl-C, and    *)
(* that no lock outlives its open.                                         *)
(***************************************************************************)
EXTENDS ProcessSetup, TLAPS

(* The initial values have their types. *)
LEMMA TypeInit == Init => TypeOK
<1> USE ConstantsAssumption DEF TypeOK
<1> SUFFICES ASSUME Init PROVE TypeOK
  OBVIOUS
<1> USE DEF Init, PCs, Loading, ConstantsAssumption
<1>1. state \in Setups \cup {NoSetup} /\ latched \in BOOLEAN /\ replaceable \in BOOLEAN
  OBVIOUS
<1>2. generation \in Nat /\ lock \in Thread \cup {NoThread}
  OBVIOUS
<1>3. /\ imageZone \in [Image -> Zones \cup {NoZone}]
      /\ imageDefaults \in [Image -> DefaultSets]
      /\ images \subseteq Image
  OBVIOUS
<1>4. /\ registryLock \in [Registry -> Thread \cup {NoThread}]
      /\ memo \in [Registry -> [Request -> Image \cup {NoImage}]]
  OBVIOUS
<1>5. /\ pc \in [Thread -> PCs]
      /\ registry \in [Thread -> Registry \cup {NoRegistry}]
      /\ request \in [Thread -> Request \cup {NoRequest}]
      /\ image \in [Thread -> Image \cup {NoImage}]
      /\ began \in [Thread -> Nat]
      /\ under \in [Thread -> Setups \cup {NoSetup}]
      /\ calls \in [Thread -> Nat]
  OBVIOUS
<1>6. settled \subseteq Nat /\ lastSettled \in Nat \cup {-1}
  OBVIOUS
<1>7. QED
  BY <1>1, <1>2, <1>3, <1>4, <1>5, <1>6

(* Every step keeps the types. *)
LEMMA TypeNext == TypeOK /\ [Next]_vars => TypeOK'
<1> USE ConstantsAssumption DEF TypeOK
<1> SUFFICES ASSUME TypeOK, [Next]_vars PROVE TypeOK'
  OBVIOUS
<1> USE DEF PCs, Loading, Goto, Spend, EnterLock, FailHolding, RegistryLocksWithout,
            setupVars, imageVars, localVars, historyVars
<1>1. ASSUME NEW t \in Thread, NEW s \in Setups, Setup(t, s) PROVE TypeOK'
  <2>1. CASE state = s \/ Refuses(s)
    BY <1>1, <2>1 DEF Setup
  <2>2. CASE ~(state = s \/ Refuses(s))
    <3>1. generation' \in Nat /\ calls' \in [Thread -> Nat]
      BY <1>1, <2>2 DEF Setup
    <3>2. state' \in Setups /\ replaceable' \in BOOLEAN
      BY <1>1, <2>2 DEF Setup
    <3>3. UNCHANGED <<latched, lock, imageVars, registryLock, memo, pc, localVars, historyVars>>
      BY <1>1, <2>2 DEF Setup
    <3>4. QED
      BY <3>1, <3>2, <3>3
  <2>3. QED
    BY <2>1, <2>2
<1>2. ASSUME NEW t \in Thread, NEW r \in Registry, ReturnAtOnce(t, r) PROVE TypeOK'
  BY <1>2 DEF ReturnAtOnce
<1>3. ASSUME NEW t \in Thread, NEW r \in Registry, NEW q \in Request,
             EnterRegistry(t, r, q)
      PROVE TypeOK'
  BY <1>3 DEF EnterRegistry
<1>4. ASSUME NEW t \in Thread, NEW i \in Image, BeginUnverified(t, i) PROVE TypeOK'
  BY <1>4 DEF BeginUnverified
<1>5. ASSUME NEW t \in Thread, BeginAttempt(t) PROVE TypeOK'
  BY <1>5 DEF BeginAttempt
<1>6. ASSUME NEW t \in Thread, NEW i \in Image, Resolve(t, i) PROVE TypeOK'
  BY <1>6 DEF Resolve
<1>7. ASSUME NEW t \in Thread, ResolveFails(t) PROVE TypeOK'
  BY <1>7 DEF ResolveFails
<1>8. ASSUME NEW t \in Thread, Claim(t) PROVE TypeOK'
  BY <1>8 DEF Claim, Effective, EmptySetup, Setups
<1>9. ASSUME NEW t \in Thread, Reuse(t) PROVE TypeOK'
  BY <1>9 DEF Reuse
<1>10. ASSUME NEW t \in Thread, LoadFails(t) PROVE TypeOK'
  BY <1>10 DEF LoadFails
<1>11. ASSUME NEW t \in Thread, Initialize(t) PROVE TypeOK'
  BY <1>11 DEF Initialize, Setups
<1>12. ASSUME NEW t \in Thread, InitializeFails(t) PROVE TypeOK'
  BY <1>12 DEF InitializeFails
<1>13. ASSUME NEW t \in Thread, SetDefaults(t) PROVE TypeOK'
  BY <1>13 DEF SetDefaults, DefaultsAfter, Setups
<1>14. ASSUME NEW t \in Thread, SetDefaultsFails(t) PROVE TypeOK'
  BY <1>14 DEF SetDefaultsFails
<1>15. ASSUME NEW t \in Thread, Latch(t) PROVE TypeOK'
  BY <1>15 DEF Latch, LatchRecord
<1>16. ASSUME NEW t \in Thread, Publish(t) PROVE TypeOK'
  BY <1>16 DEF Publish
<1>17. ASSUME NEW t \in Thread, BuildInfoMalformed(t) PROVE TypeOK'
  BY <1>17 DEF BuildInfoMalformed
<1>18. ASSUME NEW t \in Thread, Return(t) PROVE TypeOK'
  BY <1>18 DEF Return
<1>19. ASSUME NEW t \in Thread, OutsideRequest(t) PROVE TypeOK'
  BY <1>19 DEF OutsideRequest
<1>20. ASSUME NEW t \in Thread, OpenFailed(t) PROVE TypeOK'
  <2>1. replaceable' \in BOOLEAN
    BY <1>20, Zenon DEF OpenFailed
  <2>2. settled' = settled \cup {began[t]} /\ lastSettled' = began[t]
    BY <1>20, Zenon DEF OpenFailed
  <2>3. settled' \subseteq Nat /\ lastSettled' \in Nat
    <3>1. began[t] \in Nat /\ settled \subseteq Nat
      OBVIOUS
    <3>2. QED
      BY <2>2, <3>1, Zenon
  <2>4. QED
    BY <1>20, <2>1, <2>3 DEF OpenFailed
<1>21. CASE UNCHANGED vars
  BY <1>21 DEF vars
<1>22. QED
  BY <1>1, <1>2, <1>3, <1>4, <1>5, <1>6, <1>7, <1>8, <1>9, <1>10, <1>11, <1>12,
     <1>13, <1>14, <1>15, <1>16, <1>17, <1>18, <1>19, <1>20, <1>21
     DEF Next, Step, CallIn, Finished

(* Ctrl-C in an open keeps the types. *)
LEMMA TypeInterrupt ==
    ASSUME TypeOK, NEW t \in Thread, Interrupt(t)
    PROVE  TypeOK'
BY ConstantsAssumption
   DEF TypeOK, Interrupt, RegistryLocksWithout, Goto, PCs, Loading, setupVars, imageVars,
       localVars, historyVars

(* Every variable keeps its type along every behaviour of the process. *)
THEOREM TypeCorrect == Spec => []TypeOK
BY TypeInit, TypeNext, PTL DEF Spec

(* The same where Ctrl-C may end any open. *)
THEOREM TypeCorrectInterrupted == InterruptibleSpec => []TypeOK
<1>1. TypeOK /\ [Next \/ \E t \in Thread : Interrupt(t)]_vars => TypeOK'
  BY TypeNext, TypeInterrupt
<1>2. QED
  BY <1>1, TypeInit, PTL DEF InterruptibleSpec

(* A step that moves one thread between labels outside a load, and touches   *)
(* neither the record, the setup lock nor an image, keeps SetupInv.          *)
LEMMA OutsideStep ==
    ASSUME TypeOK, SetupInv, NEW t \in Thread, NEW label \in PCs \ Loading,
           pc[t] \notin Loading, pc' = [pc EXCEPT ![t] = label],
           \A u \in Thread : pc[u] \in Loading => image'[u] = image[u] /\ under'[u] = under[u],
           UNCHANGED <<state, latched, lock, imageVars>>
    PROVE  SetupInv'
<1> USE DEF TypeOK, SetupInv, imageVars
<1>1. \A u \in Thread : pc'[u] \in Loading <=> pc[u] \in Loading
  BY DEF PCs
<1>2. \A u \in Thread : pc'[u] \in Loading => pc'[u] = pc[u]
  BY <1>1
<1>3. LockHeldByLoader'
  BY <1>1 DEF LockHeldByLoader
<1>4. LoadProgress'
  BY <1>1, <1>2 DEF LoadProgress, Loading
<1>5. NoLeftoverDefaults'
  BY <1>1, <1>2 DEF NoLeftoverDefaults, Loading
<1>6. OpenUnderSetup'
  BY DEF OpenUnderSetup
<1>7. QED
  BY <1>3, <1>4, <1>5, <1>6

(* A load that fails releases the lock and leaves the record and the images. *)
LEMMA FailStep ==
    ASSUME TypeOK, SetupInv, NEW t \in Thread,
           pc[t] \in Loading \ {"configured"},
           FailHolding(t),
           UNCHANGED <<setupVars, imageVars, localVars>>
    PROVE  SetupInv'
<1> USE ConstantsAssumption
        DEF TypeOK, SetupInv, FailHolding, Goto, setupVars, imageVars, localVars
<1>1. \A u \in Thread : u # t => pc'[u] = pc[u] /\ pc[u] \notin Loading
  BY DEF LockHeldByLoader
<1>2. pc'[t] = "failed" /\ lock' = NoThread
  OBVIOUS
<1>3. LockHeldByLoader'
  BY <1>1, <1>2 DEF LockHeldByLoader, Loading
<1>4. LoadProgress'
  BY <1>1, <1>2 DEF LoadProgress, Loading
<1>5. NoLeftoverDefaults'
  BY <1>1, <1>2 DEF NoLeftoverDefaults, Loading
<1>6. OpenUnderSetup'
  BY DEF OpenUnderSetup
<1>7. QED
  BY <1>3, <1>4, <1>5, <1>6

(* The inductive invariant holds along every behaviour. *)
THEOREM SetupInvariant == Spec => []SetupInv
<1>1. Init => SetupInv
  BY ConstantsAssumption
     DEF Init, SetupInv, LockHeldByLoader, LoadProgress, NoLeftoverDefaults,
         OpenUnderSetup, Loading
<1>2. TypeOK /\ SetupInv /\ [Next]_vars => SetupInv'
  <2> SUFFICES ASSUME TypeOK, SetupInv, [Next]_vars PROVE SetupInv'
    OBVIOUS
  <2> USE ConstantsAssumption DEF imageVars, localVars, setupVars, Goto
  <2>1. ASSUME NEW t \in Thread, NEW s \in Setups, Setup(t, s) PROVE SetupInv'
    <3>1. /\ pc[t] = "idle" /\ lock = NoThread
          /\ UNCHANGED <<pc, latched, lock, imageVars, localVars>>
      BY <2>1 DEF Setup, Spend, EnterLock
    <3>2. CASE state' = state
      <4>1. pc' = [pc EXCEPT ![t] = "idle"]
        BY <3>1 DEF TypeOK
      <4>2. QED
        BY <3>1, <3>2, <4>1, OutsideStep DEF PCs, Loading
    <3>3. CASE state' # state
      <4>1. ~latched
        BY <2>1, <3>3 DEF Setup, Refuses, SetupInv
      <4>2. \A u \in Thread : pc[u] \notin Loading
        BY <3>1 DEF SetupInv, LockHeldByLoader
      <4>3. LockHeldByLoader' /\ LoadProgress'
        BY <3>1, <4>2 DEF LockHeldByLoader, LoadProgress
      <4>4. NoLeftoverDefaults'
        BY <3>1, <4>1, <4>2 DEF NoLeftoverDefaults, SetupInv, Loading
      <4>5. OpenUnderSetup'
        BY <3>1, <4>1 DEF OpenUnderSetup, SetupInv
      <4>6. QED
        BY <3>1, <4>1, <4>3, <4>4, <4>5 DEF SetupInv
    <3>4. QED
      BY <3>2, <3>3
  <2>2. ASSUME NEW t \in Thread, NEW r \in Registry, ReturnAtOnce(t, r) PROVE SetupInv'
    <3>1. pc' = [pc EXCEPT ![t] = "idle"] /\ pc[t] = "idle"
      BY <2>2 DEF ReturnAtOnce, Spend, TypeOK
    <3>2. QED
      BY <2>2, <3>1, OutsideStep DEF ReturnAtOnce, PCs, Loading
  <2>3. ASSUME NEW t \in Thread, NEW r \in Registry, NEW q \in Request,
               EnterRegistry(t, r, q)
        PROVE SetupInv'
    BY <2>3, OutsideStep DEF EnterRegistry, Spend, PCs, Loading
  <2>4. ASSUME NEW t \in Thread, NEW i \in Image, BeginUnverified(t, i) PROVE SetupInv'
    <3>1. \A u \in Thread : pc[u] \in Loading => image'[u] = image[u] /\ under'[u] = under[u]
      BY <2>4 DEF BeginUnverified, Spend, Loading, TypeOK
    <3>2. QED
      BY <2>4, <3>1, OutsideStep DEF BeginUnverified, Spend, PCs, Loading
  <2>5. ASSUME NEW t \in Thread, BeginAttempt(t) PROVE SetupInv'
    BY <2>5, OutsideStep DEF BeginAttempt, PCs, Loading
  <2>6. ASSUME NEW t \in Thread, NEW i \in Image, Resolve(t, i) PROVE SetupInv'
    <3>1. \A u \in Thread : pc[u] \in Loading => image'[u] = image[u] /\ under'[u] = under[u]
      BY <2>6 DEF Resolve, Loading, TypeOK
    <3>2. QED
      BY <2>6, <3>1, OutsideStep DEF Resolve, PCs, Loading
  <2>7. ASSUME NEW t \in Thread, ResolveFails(t) PROVE SetupInv'
    BY <2>7, OutsideStep DEF ResolveFails, PCs, Loading
  <2>8. ASSUME NEW t \in Thread, Return(t) PROVE SetupInv'
    BY <2>8, OutsideStep DEF Return, PCs, Loading
  <2>9. ASSUME NEW t \in Thread, OutsideRequest(t) PROVE SetupInv'
    BY <2>9, OutsideStep DEF OutsideRequest, PCs, Loading
  <2>10. ASSUME NEW t \in Thread, OpenFailed(t) PROVE SetupInv'
    <3>1. /\ pc[t] = "failed" /\ pc' = [pc EXCEPT ![t] = "idle"]
          /\ UNCHANGED <<state, latched, lock, imageVars, localVars>>
      BY <2>10, Zenon DEF OpenFailed
    <3>2. QED
      BY <3>1, OutsideStep DEF PCs, Loading
  <2>11. ASSUME NEW t \in Thread, Claim(t) PROVE SetupInv'
    <3>1. \A u \in Thread : pc[u] \notin Loading
      BY <2>11 DEF Claim, EnterLock, SetupInv, LockHeldByLoader
    <3>2. /\ lock' = t /\ state' = Effective
          /\ pc' = [pc EXCEPT ![t] = "claimed"]
          /\ under' = [under EXCEPT ![t] = Effective]
          /\ UNCHANGED <<latched, imageVars, image>>
      BY <2>11 DEF Claim
    <3>3. latched => state' = state
      BY <3>2 DEF Effective, SetupInv
    <3>4. LockHeldByLoader'
      BY <3>1, <3>2 DEF LockHeldByLoader, Loading, TypeOK
    <3>5. LoadProgress'
      BY <3>1, <3>2 DEF LoadProgress, Loading, TypeOK
    <3>6. NoLeftoverDefaults'
      BY <3>1, <3>2, <3>3 DEF NoLeftoverDefaults, SetupInv, Loading
    <3>7. OpenUnderSetup'
      BY <3>2, <3>3 DEF OpenUnderSetup, SetupInv
    <3>8. QED
      BY <3>2, <3>3, <3>4, <3>5, <3>6, <3>7 DEF SetupInv
  <2>12. ASSUME NEW t \in Thread, Reuse(t) PROVE SetupInv'
    <3>1. \A u \in Thread : u # t => pc[u] \notin Loading
      BY <2>12 DEF Reuse, SetupInv, LockHeldByLoader, Loading
    <3>2. pc[t] = "claimed" /\ lock' = NoThread /\ pc' = [pc EXCEPT ![t] = "opened"]
      BY <2>12 DEF Reuse
    <3>3. LockHeldByLoader' /\ LoadProgress'
      BY <3>1, <3>2 DEF LockHeldByLoader, LoadProgress, Loading, TypeOK
    <3>4. NoLeftoverDefaults'
      BY <2>12, <3>1, <3>2 DEF Reuse, NoLeftoverDefaults, SetupInv, Loading, TypeOK
    <3>5. OpenUnderSetup'
      BY <2>12 DEF Reuse, OpenUnderSetup, SetupInv
    <3>6. QED
      BY <2>12, <3>3, <3>4, <3>5 DEF Reuse, SetupInv
  <2>13. ASSUME NEW t \in Thread, LoadFails(t) PROVE SetupInv'
    BY <2>13, FailStep DEF LoadFails, Loading
  <2>14. ASSUME NEW t \in Thread, InitializeFails(t) PROVE SetupInv'
    BY <2>14, FailStep DEF InitializeFails, Loading
  <2>15. ASSUME NEW t \in Thread, SetDefaultsFails(t) PROVE SetupInv'
    BY <2>15, FailStep DEF SetDefaultsFails, Loading
  <2>16. ASSUME NEW t \in Thread, BuildInfoMalformed(t) PROVE SetupInv'
    BY <2>16, FailStep DEF BuildInfoMalformed, Loading
  <2>17. ASSUME NEW t \in Thread, Initialize(t) PROVE SetupInv'
    <3>1. \A u \in Thread : u # t => pc[u] \notin Loading /\ pc'[u] = pc[u]
      BY <2>17 DEF Initialize, SetupInv, LockHeldByLoader, Loading, TypeOK
    <3>2. /\ pc[t] = "claimed" /\ pc'[t] = "initialized"
          /\ state = under[t] /\ lock = t /\ image[t] \in Image /\ under[t] \in Setups
          /\ UNCHANGED <<state, latched, lock, imageDefaults, images, under, image>>
      BY <2>17 DEF Initialize, SetupInv, LockHeldByLoader, LoadProgress, Loading, TypeOK
    <3>3. /\ imageZone' = [imageZone EXCEPT ![image[t]] = under[t].zone]
          /\ image[t] \notin images
      BY <2>17 DEF Initialize
    <3>4. LockHeldByLoader' /\ LoadProgress'
      BY <3>1, <3>2, <3>3 DEF LockHeldByLoader, LoadProgress, SetupInv, Loading, TypeOK
    <3>5. NoLeftoverDefaults'
      BY <3>1, <3>2 DEF NoLeftoverDefaults, SetupInv, Loading
    <3>6. OpenUnderSetup'
      BY <3>2, <3>3 DEF OpenUnderSetup, SetupInv, TypeOK
    <3>7. QED
      BY <3>2, <3>4, <3>5, <3>6 DEF SetupInv
  <2>18. ASSUME NEW t \in Thread, SetDefaults(t) PROVE SetupInv'
    <3>1. \A u \in Thread : u # t => pc[u] \notin Loading /\ pc'[u] = pc[u]
      BY <2>18 DEF SetDefaults, SetupInv, LockHeldByLoader, Loading, TypeOK
    <3>2. /\ pc[t] = "initialized" /\ pc'[t] = "configured"
          /\ state = under[t] /\ lock = t /\ image[t] \in Image /\ under[t] \in Setups
          /\ UNCHANGED <<state, latched, lock, imageZone, images, under, image>>
      BY <2>18 DEF SetDefaults, SetupInv, LockHeldByLoader, LoadProgress, Loading, TypeOK
    <3>3. imageDefaults' = DefaultsAfter(t)
      BY <2>18 DEF SetDefaults
    <3>4. imageDefaults'[image[t]] = state.defaults
      <4>1. CASE under[t].defaults = NoDefaults
        BY <3>1, <3>2, <3>3, <4>1 DEF DefaultsAfter, NoLeftoverDefaults, SetupInv, Loading
      <4>2. CASE under[t].defaults # NoDefaults
        BY <3>2, <3>3, <4>2 DEF DefaultsAfter, TypeOK
      <4>3. QED
        BY <4>1, <4>2
    <3>5. \A i \in Image : i # image[t] => imageDefaults'[i] = imageDefaults[i]
      BY <3>2, <3>3 DEF DefaultsAfter, TypeOK
    <3>6. image[t] \notin images
      BY <3>2 DEF LoadProgress, SetupInv, Loading
    <3>7. LockHeldByLoader' /\ LoadProgress'
      BY <3>1, <3>2, <3>4 DEF LockHeldByLoader, LoadProgress, SetupInv, Loading
    <3>8. NoLeftoverDefaults'
      BY <3>1, <3>2, <3>5 DEF NoLeftoverDefaults, SetupInv, Loading
    <3>9. OpenUnderSetup'
      BY <3>2, <3>5, <3>6 DEF OpenUnderSetup, SetupInv, TypeOK
    <3>10. QED
      BY <3>2, <3>7, <3>8, <3>9 DEF SetupInv
  <2>19. ASSUME NEW t \in Thread, Latch(t) PROVE SetupInv'
    <3>1. \A u \in Thread : u # t => pc[u] \notin Loading /\ pc'[u] = pc[u]
      BY <2>19 DEF Latch, SetupInv, LockHeldByLoader, Loading, TypeOK
    <3>2. /\ pc[t] = "configured" /\ pc'[t] = "latched"
          /\ state = under[t] /\ lock = t /\ image[t] \in Image /\ under[t] \in Setups
          /\ UNCHANGED <<state, lock, imageZone, imageDefaults, images, under, image>>
      BY <2>19 DEF Latch, SetupInv, LockHeldByLoader, LoadProgress, Loading, TypeOK
    <3>3. latched'
      BY <2>19 DEF Latch, LatchRecord
    <3>4. LockHeldByLoader' /\ LoadProgress'
      BY <3>1, <3>2, <3>3 DEF LockHeldByLoader, LoadProgress, SetupInv, Loading
    <3>5. NoLeftoverDefaults'
      BY <3>1, <3>2, <3>3 DEF NoLeftoverDefaults, LoadProgress, SetupInv, Loading
    <3>6. OpenUnderSetup'
      BY <3>2 DEF OpenUnderSetup, SetupInv
    <3>7. QED
      BY <3>2, <3>3, <3>4, <3>5, <3>6 DEF SetupInv, Setups, ConstantsAssumption
  <2>20. ASSUME NEW t \in Thread, Publish(t) PROVE SetupInv'
    <3>1. \A u \in Thread : u # t => pc[u] \notin Loading /\ pc'[u] = pc[u]
      BY <2>20 DEF Publish, SetupInv, LockHeldByLoader, Loading, TypeOK
    <3>2. /\ pc[t] = "latched" /\ pc'[t] = "opened"
          /\ state = under[t] /\ lock = t /\ image[t] \in Image /\ under[t] \in Setups
          /\ UNCHANGED <<state, latched, imageZone, imageDefaults, under, image>>
      BY <2>20 DEF Publish, SetupInv, LockHeldByLoader, LoadProgress, Loading, TypeOK
    <3>3. images' = images \cup {image[t]} /\ lock' = NoThread
      BY <2>20 DEF Publish
    <3>4. latched /\ imageZone[image[t]] = state.zone /\ imageDefaults[image[t]] = state.defaults
      BY <3>2 DEF LoadProgress, SetupInv, Loading
    <3>5. LockHeldByLoader' /\ LoadProgress'
      BY <3>1, <3>2, <3>3 DEF LockHeldByLoader, LoadProgress, Loading
    <3>6. NoLeftoverDefaults'
      BY <3>1, <3>2 DEF NoLeftoverDefaults, SetupInv, Loading
    <3>7. OpenUnderSetup'
      BY <3>2, <3>3, <3>4 DEF OpenUnderSetup, SetupInv
    <3>8. QED
      BY <3>2, <3>4, <3>5, <3>6, <3>7 DEF SetupInv
  <2>21. CASE UNCHANGED vars
    BY <2>21 DEF vars, SetupInv, LockHeldByLoader, LoadProgress, NoLeftoverDefaults,
                 OpenUnderSetup
  <2>22. QED
    BY <2>1, <2>2, <2>3, <2>4, <2>5, <2>6, <2>7, <2>8, <2>9, <2>10, <2>11, <2>12,
       <2>13, <2>14, <2>15, <2>16, <2>17, <2>18, <2>19, <2>20, <2>21
       DEF Next, Step, CallIn, Finished
<1>3. QED
  BY <1>1, <1>2, TypeCorrect, PTL DEF Spec

(* bindings-v1.md section 6: every open image runs under the setup in effect, *)
(* for any number of threads, registries and images.                          *)
THEOREM OpenUnderSetupAlways == Spec => []OpenUnderSetup
<1>1. SetupInv => OpenUnderSetup
  BY DEF SetupInv
<1>2. QED
  BY <1>1, SetupInvariant, PTL

(* No setup() call swaps the record while a load that claimed it runs. *)
THEOREM NoSwapAlways == Spec => []NoSwapUnderLoad
<1>1. SetupInv => NoSwapUnderLoad
  BY DEF SetupInv, LoadProgress, NoSwapUnderLoad
<1>2. QED
  BY <1>1, SetupInvariant, PTL

(* Only setup() and a claim write the record, and only on these terms. *)
LEMMA RecordStep ==
    ASSUME TypeOK, SetupInv, [Next]_vars, state' # state
    PROVE  /\ ~latched /\ ~latched' /\ images = {}
           /\ UNCHANGED imageVars
           /\ state' \in Setups
<1> USE DEF setupVars, imageVars, localVars, historyVars
<1>1. ASSUME NEW t \in Thread, NEW s \in Setups, Setup(t, s)
      PROVE  ~latched /\ UNCHANGED <<latched, imageVars>> /\ state' \in Setups
  BY <1>1 DEF Setup, Refuses, SetupInv
<1>2. ASSUME NEW t \in Thread, Claim(t)
      PROVE  ~latched /\ UNCHANGED <<latched, imageVars>> /\ state' \in Setups
  BY <1>2, ConstantsAssumption
     DEF Claim, Effective, SetupInv, Setups, EmptySetup, ConstantsAssumption
<1>3. ASSUME NEW t \in Thread, OpenFailed(t) PROVE FALSE
  <2>1. UNCHANGED state
    BY <1>3, Zenon DEF OpenFailed
  <2>2. QED
    BY <2>1
<1>4. \/ \E t \in Thread, s \in Setups : Setup(t, s)
      \/ \E t \in Thread : Claim(t) \/ OpenFailed(t)
  BY DEF Next, Step, CallIn, Finished, vars, ReturnAtOnce, EnterRegistry,
         BeginUnverified, BeginAttempt, Resolve, ResolveFails, Reuse, LoadFails,
         Initialize, InitializeFails, SetDefaults, SetDefaultsFails, Latch, Publish,
         BuildInfoMalformed, Return, OutsideRequest
<1>5. ~latched => images = {}
  BY DEF SetupInv
<1>6. QED
  BY <1>1, <1>2, <1>3, <1>4, <1>5

(* Nothing resets the latch. *)
LEMMA LatchStep == [Next]_vars /\ latched => latched'
<1> SUFFICES ASSUME [Next]_vars, latched PROVE latched'
  OBVIOUS
<1> USE DEF setupVars
<1>1. ASSUME NEW t \in Thread, OpenFailed(t) PROVE latched'
  <2>1. UNCHANGED latched
    BY <1>1, Zenon DEF OpenFailed
  <2>2. QED
    BY <2>1
<1>2. ASSUME NEW t \in Thread, NEW s \in Setups, Setup(t, s) PROVE latched'
  BY <1>2 DEF Setup
<1>3. CASE \A t \in Thread : ~OpenFailed(t) /\ \A s \in Setups : ~Setup(t, s)
  BY <1>3 DEF Next, Step, CallIn, Finished, vars, ReturnAtOnce, EnterRegistry,
         BeginUnverified, BeginAttempt, Resolve, ResolveFails, Claim, Reuse, LoadFails,
         Initialize, InitializeFails, SetDefaults, SetDefaultsFails, Latch, LatchRecord,
         Publish, BuildInfoMalformed, Return, OutsideRequest
<1>4. QED
  BY <1>1, <1>2, <1>3

(* Rule 2: a latched setup stands for the process's life. *)
THEOREM LatchedStandsAlways == Spec => LatchedStands
<1>1. TypeOK /\ SetupInv /\ [Next]_vars => [latched => latched' /\ state' = state]_vars
  BY RecordStep, LatchStep
<1>2. QED
  BY <1>1, TypeCorrect, SetupInvariant, PTL DEF Spec, LatchedStands

(* Every step of the process is a step of the abstract setup or a stutter. *)
THEOREM Implements == Spec => ImplementsSetupOnce
<1> DEFINE run == [i \in Image |->
                     IF i \in images
                     THEN [zone |-> imageZone[i], defaults |-> imageDefaults[i]]
                     ELSE NoSetup]
<1> USE ConstantsAssumption
<1>1. Init => Abstract!Init
  BY DEF Init, Abstract!Init
<1>2. TypeOK /\ TypeOK' /\ SetupInv /\ SetupInv' /\ [Next]_vars
        => [Abstract!Next]_(Abstract!vars)
  <2> SUFFICES ASSUME TypeOK, TypeOK', SetupInv, SetupInv', [Next]_vars
               PROVE  Abstract!Next \/ UNCHANGED <<state, run>>
    BY DEF Abstract!vars
  <2>1. CASE state' # state
    <3>1. images = {} /\ UNCHANGED imageVars /\ state' \in Setups
      BY <2>1, RecordStep
    <3>2. Abstract!Open = {} /\ UNCHANGED run
      BY <3>1 DEF Abstract!Open, imageVars
    <3>3. Abstract!Record(state')
      BY <3>2 DEF Abstract!Record
    <3>4. QED
      BY <3>1, <3>3 DEF Abstract!Next
  <2>2. ASSUME state' = state, NEW t \in Thread, Publish(t)
        PROVE  Abstract!Next \/ UNCHANGED <<state, run>>
    <3>1. /\ state = under[t] /\ state \in Setups /\ image[t] \in Image
          /\ image[t] \notin images
          /\ imageZone[image[t]] = state.zone /\ imageDefaults[image[t]] = state.defaults
      BY <2>2 DEF Publish, SetupInv, LoadProgress, TypeOK, Loading
    <3>2. images' = images \cup {image[t]} /\ UNCHANGED <<imageZone, imageDefaults>>
      BY <2>2 DEF Publish
    <3>3. state = [zone |-> state.zone, defaults |-> state.defaults]
      BY <3>1 DEF Setups
    <3>4. run[image[t]] = NoSetup
      BY <3>1
    <3>5. run' = [run EXCEPT ![image[t]] = state]
      BY <3>1, <3>2, <3>3
    <3>6. state # NoSetup
      BY <3>1 DEF ConstantsAssumption, Setups
    <3>7. Abstract!OpenImage(image[t])
      BY <2>2, <3>4, <3>5, <3>6 DEF Abstract!OpenImage
    <3>8. QED
      <4>1. \E i \in Image : Abstract!OpenImage(i)
        <5>1. image[t] \in Image
          BY <3>1
        <5>2. QED
          BY <5>1, <3>7, Zenon DEF Abstract!OpenImage
      <4>2. QED
        BY <4>1, Zenon DEF Abstract!Next
  <2> DEFINE OpenKept ==
               /\ UNCHANGED images
               /\ \A i \in images : UNCHANGED <<imageZone[i], imageDefaults[i]>>
  <2>3. CASE state' = state /\ OpenKept
    BY <2>3
  <2>4. (\E t \in Thread : Publish(t)) \/ OpenKept
    <3> USE DEF imageVars
    <3>1. ASSUME NEW t \in Thread, Initialize(t) PROVE OpenKept
      BY <3>1 DEF Initialize, TypeOK
    <3>2. ASSUME NEW t \in Thread, SetDefaults(t) PROVE OpenKept
      <4>1. image[t] \notin images
        BY <3>2 DEF SetDefaults, SetupInv, LoadProgress, Loading
      <4>2. QED
        BY <3>2, <4>1 DEF SetDefaults, DefaultsAfter, TypeOK
    <3>3. ASSUME NEW t \in Thread, OpenFailed(t) PROVE OpenKept
      <4>1. UNCHANGED imageVars
        BY <3>3, Zenon DEF OpenFailed
      <4>2. QED
        BY <4>1
    <3>4. CASE \A t \in Thread : ~OpenFailed(t) /\ ~Initialize(t) /\ ~SetDefaults(t)
      BY <3>4 DEF Next, Step, CallIn, Finished, vars, Setup, ReturnAtOnce, EnterRegistry,
             BeginUnverified, BeginAttempt, Resolve, ResolveFails, Claim, Reuse, LoadFails,
             InitializeFails, SetDefaultsFails, Latch, BuildInfoMalformed, Return,
             OutsideRequest
    <3>5. QED
      BY <3>1, <3>2, <3>3, <3>4
  <2>5. QED
    BY <2>1, <2>2, <2>3, <2>4
<1>3. QED
  BY <1>1, <1>2, TypeCorrect, SetupInvariant, PTL
     DEF Spec, ImplementsSetupOnce, Abstract!Spec

-----------------------------------------------------------------------------
(* Rule 4: failed attempts. *)

(* A record is replaceable only after a failure under its own generation. *)
ReplaceableEarned == replaceable => generation \in settled

(* What a step does to the record and its counters: setup() replaces it, a *)
(* claim locks it, a settled failure may unlock it, a latch locks it for   *)
(* good, and nothing else touches it.                                      *)
LEMMA CounterStep ==
    ASSUME [Next \/ \E t \in Thread : Interrupt(t)]_vars
    PROVE  \/ UNCHANGED <<state, latched, replaceable, generation, historyVars>>
           \/ \E t \in Thread, s \in Setups : Setup(t, s)
           \/ \E t \in Thread : Claim(t) \/ Latch(t) \/ OpenFailed(t)
BY DEF Next, Step, CallIn, Finished, vars, setupVars, historyVars, ReturnAtOnce,
       EnterRegistry, BeginUnverified, BeginAttempt, Resolve, ResolveFails, Reuse,
       LoadFails, Initialize, InitializeFails, SetDefaults, SetDefaultsFails, Publish,
       BuildInfoMalformed, Return, OutsideRequest, Interrupt

(* What a settled failure does to the record: only a failure of the record's *)
(* own generation unlocks it.                                                *)
LEMMA FailureStep ==
    ASSUME NEW t \in Thread, OpenFailed(t)
    PROVE  /\ UNCHANGED <<state, latched, generation, began>>
           /\ settled' = settled \cup {began[t]} /\ lastSettled' = began[t]
           /\ replaceable' => replaceable \/ UnlocksFrom(t)
           /\ replaceable \/ UnlocksFrom(t) => replaceable'
           /\ pc[t] = "failed" /\ pc' = [pc EXCEPT ![t] = "idle"]
BY Zenon DEF OpenFailed, localVars, Goto

(* A record is replaceable only after its own failure, on every path. *)
LEMMA EarnedStep ==
    ASSUME TypeOK, ReplaceableEarned,
           [Next \/ \E t \in Thread : Interrupt(t)]_vars
    PROVE  ReplaceableEarned'
<1> USE DEF ReplaceableEarned
<1>1. ASSUME NEW t \in Thread, NEW s \in Setups, Setup(t, s) PROVE ReplaceableEarned'
  BY <1>1 DEF Setup, setupVars, historyVars
<1>2. ASSUME NEW t \in Thread, Claim(t) PROVE ReplaceableEarned'
  BY <1>2 DEF Claim
<1>3. ASSUME NEW t \in Thread, Latch(t) PROVE ReplaceableEarned'
  BY <1>3 DEF Latch, LatchRecord
<1>4. ASSUME NEW t \in Thread, OpenFailed(t) PROVE ReplaceableEarned'
  <2>1. CASE UnlocksFrom(t)
    <3>1. generation' = began[t] /\ began[t] \in settled'
      BY <1>4, <2>1, FailureStep DEF UnlocksFrom
    <3>2. QED
      BY <3>1
  <2>2. CASE ~UnlocksFrom(t)
    <3>1. replaceable' => generation \in settled
      BY <1>4, <2>2, FailureStep
    <3>2. settled \subseteq settled' /\ generation' = generation
      BY <1>4, FailureStep
    <3>3. QED
      BY <3>1, <3>2
  <2>3. QED
    BY <2>1, <2>2
<1>5. CASE UNCHANGED <<state, latched, replaceable, generation, historyVars>>
  BY <1>5 DEF historyVars
<1>6. QED
  BY <1>1, <1>2, <1>3, <1>4, <1>5, CounterStep

(* Rule 4: a record gives way to a different one only after an open that     *)
(* began under that very record failed, although Ctrl-C may end any open.    *)
THEOREM OwnFailureReplacesAlways == InterruptibleSpec => OwnFailureReplaces
<1>1. Init => ReplaceableEarned
  BY DEF Init, ReplaceableEarned
<1>2. TypeOK /\ ReplaceableEarned /\ [Next \/ \E t \in Thread : Interrupt(t)]_vars
        => ReplaceableEarned'
  BY EarnedStep
<1>3. ReplaceableEarned /\ [Next \/ \E t \in Thread : Interrupt(t)]_vars
        => [state # NoSetup /\ state' # state => generation \in settled]_vars
  <2> SUFFICES ASSUME ReplaceableEarned, state # NoSetup, state' # state,
                      [Next \/ \E t \in Thread : Interrupt(t)]_vars
               PROVE  generation \in settled
    OBVIOUS
  <2>1. ASSUME NEW t \in Thread, NEW s \in Setups, Setup(t, s)
        PROVE  generation \in settled
    BY <2>1 DEF Setup, Refuses, setupVars, ReplaceableEarned
  <2>2. ASSUME NEW t \in Thread, Claim(t) \/ Latch(t) \/ OpenFailed(t) PROVE FALSE
    <3>1. state' = state
      BY <2>2, FailureStep DEF Claim, Effective, Latch
    <3>2. QED
      BY <3>1
  <2>3. QED
    BY <2>1, <2>2, CounterStep
<1>4. QED
  BY <1>1, <1>2, <1>3, TypeCorrectInterrupted, PTL
     DEF InterruptibleSpec, OwnFailureReplaces

(* No attempt is younger than the record, settled or not. *)
AttemptsBounded ==
    /\ \A t \in Thread : began[t] <= generation
    /\ lastSettled <= generation

(* An open that has left its load without failing left the latch set. *)
OpenedLatched ==
    \A t \in Thread : pc[t] \in {"latched", "opened"} => latched

(* A record whose own attempt was the last to fail and that is locked again *)
(* was locked by an open that has not ended: that open will latch it, or    *)
(* fail and settle in its turn.                                             *)
LockedByAnOpen ==
    ~latched /\ state # NoSetup /\ lastSettled = generation =>
        \/ replaceable
        \/ \E t \in Thread : pc[t] \in Loading \cup {"opened", "failed"}

FailureInv == AttemptsBounded /\ OpenedLatched /\ LockedByAnOpen

(* No step makes an attempt younger than the record. *)
LEMMA AttemptsStep ==
    ASSUME TypeOK, AttemptsBounded, [Next]_vars
    PROVE  AttemptsBounded'
<1> USE DEF TypeOK, AttemptsBounded
<1>1. ASSUME NEW t \in Thread, NEW s \in Setups, Setup(t, s) PROVE AttemptsBounded'
  <2>1. generation' = generation \/ generation' = generation + 1
    BY <1>1 DEF Setup, setupVars
  <2>2. UNCHANGED <<began, lastSettled>>
    BY <1>1 DEF Setup, localVars, historyVars
  <2>3. QED
    BY <2>1, <2>2
<1>2. ASSUME NEW t \in Thread, OpenFailed(t) PROVE AttemptsBounded'
  <2>1. began' = began /\ generation' = generation /\ lastSettled' = began[t]
    BY <1>2, FailureStep
  <2>2. QED
    BY <2>1
<1>3. ASSUME NEW t \in Thread,
             BeginAttempt(t) \/ \E i \in Image : BeginUnverified(t, i)
      PROVE  AttemptsBounded'
  BY <1>3 DEF BeginAttempt, BeginUnverified, setupVars, historyVars
<1>4. \/ UNCHANGED <<generation, began, lastSettled>>
      \/ \E t \in Thread, s \in Setups : Setup(t, s)
      \/ \E t \in Thread : OpenFailed(t)
      \/ \E t \in Thread : BeginAttempt(t) \/ \E i \in Image : BeginUnverified(t, i)
  BY DEF Next, Step, CallIn, Finished, vars, setupVars, localVars, historyVars,
         ReturnAtOnce, EnterRegistry, Resolve, ResolveFails, Claim, Reuse, LoadFails,
         Initialize, InitializeFails, SetDefaults, SetDefaultsFails, Latch, Publish,
         BuildInfoMalformed, Return, OutsideRequest
<1>5. QED
  BY <1>1, <1>2, <1>3, <1>4

(* Only a load that latched, or an image that was open before, comes to the *)
(* end of an open.                                                          *)
LEMMA OpenedStep ==
    ASSUME TypeOK, SetupInv, OpenedLatched, [Next]_vars
    PROVE  OpenedLatched'
<1> USE DEF TypeOK, OpenedLatched, Goto
<1>1. latched => latched'
  BY LatchStep
<1>2. ASSUME NEW t \in Thread, NEW label \in PCs \ {"latched", "opened"},
             pc' = [pc EXCEPT ![t] = label]
      PROVE  OpenedLatched'
  BY <1>1, <1>2
<1>3. ASSUME UNCHANGED pc PROVE OpenedLatched'
  BY <1>1, <1>3
<1>4. ASSUME NEW t \in Thread, Latch(t) PROVE OpenedLatched'
  BY <1>4 DEF Latch, LatchRecord
<1>5. ASSUME NEW t \in Thread, Reuse(t) PROVE OpenedLatched'
  <2>1. latched
    BY <1>5 DEF Reuse, SetupInv
  <2>2. QED
    BY <1>1, <2>1
<1>6. ASSUME NEW t \in Thread, Publish(t) PROVE OpenedLatched'
  <2>1. latched
    BY <1>6 DEF Publish
  <2>2. QED
    BY <1>1, <2>1
<1>7. ASSUME NEW t \in Thread, Step(t) \/ CallIn(t),
             ~Latch(t), ~Reuse(t), ~Publish(t)
      PROVE  \/ UNCHANGED pc
             \/ \E label \in PCs \ {"latched", "opened"} : pc' = [pc EXCEPT ![t] = label]
  BY <1>7 DEF Step, CallIn, PCs, Loading, FailHolding, Setup, ReturnAtOnce,
              EnterRegistry, BeginUnverified, BeginAttempt, Resolve, ResolveFails, Claim,
              LoadFails, Initialize, InitializeFails, SetDefaults, SetDefaultsFails,
              BuildInfoMalformed, Return, OutsideRequest, OpenFailed
<1>8. QED
  BY <1>2, <1>3, <1>4, <1>5, <1>6, <1>7 DEF Next, Finished, vars

(* An open that has claimed the record stays in flight until it settles its *)
(* failure, unless the record is latched.                                   *)
LEMMA FlightStep ==
    ASSUME TypeOK, OpenedLatched, [Next]_vars,
           NEW u \in Thread, pc[u] \in Loading \cup {"opened", "failed"},
           ~OpenFailed(u), ~latched
    PROVE  pc'[u] \in Loading \cup {"opened", "failed"}
<1> USE DEF TypeOK, Goto, Loading
<1>1. ASSUME NEW t \in Thread, NEW label, pc' = [pc EXCEPT ![t] = label], t # u
      PROVE  pc'[u] = pc[u]
  BY <1>1
<1>2. ASSUME NEW t \in Thread, Step(t) \/ CallIn(t), t # u
      PROVE  pc'[u] = pc[u]
  <2>1. UNCHANGED pc \/ \E label : pc' = [pc EXCEPT ![t] = label]
    BY <1>2, Zenon
       DEF Step, CallIn, FailHolding, Setup, ReturnAtOnce, EnterRegistry,
           BeginUnverified, BeginAttempt, Resolve, ResolveFails, Claim, Reuse, LoadFails,
           Initialize, InitializeFails, SetDefaults, SetDefaultsFails, Latch, Publish,
           BuildInfoMalformed, Return, OutsideRequest, OpenFailed
  <2>2. QED
    BY <1>1, <1>2, <2>1
<1>3. CASE CallIn(u)
  BY <1>3 DEF CallIn, Spend, Setup, ReturnAtOnce, EnterRegistry, BeginUnverified
<1>4. CASE Step(u)
  <2>1. ~Return(u)
    BY DEF Return, OpenedLatched
  <2>2. \E label \in Loading \cup {"opened", "failed"} : pc' = [pc EXCEPT ![u] = label]
    BY <1>4, <2>1
       DEF Step, FailHolding, BeginAttempt, Resolve, ResolveFails, Claim, Reuse,
           LoadFails, Initialize, InitializeFails, SetDefaults, SetDefaultsFails, Latch,
           Publish, BuildInfoMalformed, OutsideRequest
  <2>3. QED
    BY <2>2
<1>5. QED
  BY <1>2, <1>3, <1>4 DEF Next, Finished, vars

(* A record locked after its own failure stays locked by an open in flight. *)
LEMMA LockedStep ==
    ASSUME TypeOK, SetupInv, FailureInv, [Next]_vars
    PROVE  LockedByAnOpen'
<1> SUFFICES ASSUME ~latched', state' # NoSetup, lastSettled' = generation'
             PROVE  \/ replaceable'
                    \/ \E t \in Thread : pc'[t] \in Loading \cup {"opened", "failed"}
  BY DEF LockedByAnOpen
<1>1. ~latched
  BY LatchStep
<1>2. ASSUME UNCHANGED <<state, latched, replaceable, generation, historyVars>>,
             \A t \in Thread : ~OpenFailed(t)
      PROVE  \/ replaceable'
             \/ \E t \in Thread : pc'[t] \in Loading \cup {"opened", "failed"}
  <2>1. replaceable \/ \E t \in Thread : pc[t] \in Loading \cup {"opened", "failed"}
    BY <1>1, <1>2 DEF FailureInv, LockedByAnOpen, historyVars
  <2>2. QED
    BY <1>1, <1>2, <2>1, FlightStep DEF FailureInv
<1>3. ASSUME NEW t \in Thread, NEW s \in Setups, Setup(t, s)
      PROVE  /\ UNCHANGED <<state, latched, replaceable, generation, historyVars>>
             /\ \A u \in Thread : ~OpenFailed(u)
  <2>1. lastSettled' = lastSettled /\ pc' = pc
    BY <1>3 DEF Setup, historyVars
  <2>2. generation' # generation + 1
    BY <2>1 DEF FailureInv, AttemptsBounded, TypeOK
  <2>3. \A u \in Thread : ~OpenFailed(u)
    <3>1. ASSUME NEW u \in Thread, OpenFailed(u) PROVE FALSE
      BY <2>1, <3>1, FailureStep DEF TypeOK
    <3>2. QED
      BY <3>1
  <2>4. QED
    BY <1>3, <2>2, <2>3 DEF Setup, setupVars, historyVars
<1>4. ASSUME NEW t \in Thread, Claim(t)
      PROVE  \E u \in Thread : pc'[u] \in Loading \cup {"opened", "failed"}
  BY <1>4 DEF Claim, Goto, Loading, TypeOK
<1>5. ASSUME NEW t \in Thread, Latch(t) PROVE FALSE
  BY <1>5 DEF Latch, LatchRecord
<1>6. ASSUME NEW t \in Thread, OpenFailed(t) PROVE replaceable'
  BY <1>1, <1>6, FailureStep DEF UnlocksFrom
<1>7. QED
  BY <1>2, <1>3, <1>4, <1>5, <1>6, CounterStep

(* Rule 4: a failed open can be corrected.  A record whose own attempt was the *)
(* last to fail is replaceable once no open is in flight, for any number of    *)
(* threads, opens and setups.                                                  *)
THEOREM CorrectableAlways == Spec => []Correctable
<1>1. Init => FailureInv
  BY ConstantsAssumption
     DEF Init, FailureInv, AttemptsBounded, OpenedLatched, LockedByAnOpen
<1>2. TypeOK /\ SetupInv /\ FailureInv /\ [Next]_vars => FailureInv'
  BY AttemptsStep, OpenedStep, LockedStep DEF FailureInv
<1>3. FailureInv => Correctable
  BY DEF FailureInv, LockedByAnOpen, Correctable, Quiescent, Loading
<1>4. QED
  BY <1>1, <1>2, <1>3, TypeCorrect, SetupInvariant, PTL DEF Spec

-----------------------------------------------------------------------------
(* The registry's memo. *)

(* An open of a registry holds that registry's lock from its memo miss to its *)
(* end, and what it missed is still missing.                                  *)
HoldsItsMiss ==
    \A t \in Thread : pc[t] # "idle" /\ registry[t] \in Registry =>
        /\ registryLock[registry[t]] = t
        /\ memo[registry[t]][request[t]] = NoImage

(* A step inside an open that leaves the registry, its lock and its memo. *)
LEMMA InsideStep ==
    ASSUME TypeOK, HoldsItsMiss, NEW t \in Thread, NEW label,
           pc[t] # "idle" \/ label = "idle", pc' = [pc EXCEPT ![t] = label],
           UNCHANGED <<registryLock, memo, registry, request>>
    PROVE  HoldsItsMiss'
BY DEF TypeOK, HoldsItsMiss

(* A step that ends an open frees its registry; the memo changes at most at *)
(* the request the open missed.                                             *)
LEMMA LeaveStep ==
    ASSUME TypeOK, HoldsItsMiss, NEW t \in Thread, pc[t] # "idle",
           pc' = [pc EXCEPT ![t] = "idle"],
           registryLock' = RegistryLocksWithout(t),
           UNCHANGED <<registry, request>>,
           \A r \in Registry, q \in Request :
               r # registry[t] => memo'[r][q] = memo[r][q]
    PROVE  HoldsItsMiss'
<1> USE DEF TypeOK, HoldsItsMiss
<1> SUFFICES ASSUME NEW u \in Thread, pc'[u] # "idle", registry[u] \in Registry
             PROVE  /\ registryLock'[registry[u]] = u
                    /\ memo'[registry[u]][request[u]] = NoImage
  OBVIOUS
<1>1. u # t /\ pc[u] # "idle"
  OBVIOUS
<1>2. registry[u] # registry[t]
  BY <1>1
<1>3. registryLock'[registry[u]] = registryLock[registry[u]]
  BY <1>2 DEF RegistryLocksWithout
<1>4. QED
  BY <1>1, <1>2, <1>3

(* Return sets the memo only at the request it missed. *)
LEMMA ReturnStep ==
    ASSUME TypeOK, HoldsItsMiss, NEW t \in Thread, Return(t)
    PROVE  /\ \A r \in Registry, q \in Request :
                  r # registry[t] => memo'[r][q] = memo[r][q]
           /\ \A r \in Registry, q \in Request :
                  memo[r][q] # NoImage => memo'[r][q] = memo[r][q]
BY DEF Return, TypeOK, HoldsItsMiss

(* Only Return writes the memo. *)
LEMMA MemoStep ==
    ASSUME [Next \/ \E t \in Thread : Interrupt(t)]_vars
    PROVE  UNCHANGED memo \/ \E t \in Thread : Return(t)
<1>1. ASSUME NEW t \in Thread, OpenFailed(t) PROVE UNCHANGED memo
  BY <1>1, Zenon DEF OpenFailed
<1>2. QED
  BY <1>1
     DEF Next, Step, CallIn, Finished, vars, Setup, ReturnAtOnce, EnterRegistry,
         BeginUnverified, BeginAttempt, Resolve, ResolveFails, Claim, Reuse, LoadFails,
         Initialize, InitializeFails, SetDefaults, SetDefaultsFails, Latch, Publish,
         BuildInfoMalformed, OutsideRequest, Interrupt

(* The lock, the arguments and the miss of an open stand on every step. *)
LEMMA MissStep ==
    ASSUME TypeOK, HoldsItsMiss, [Next \/ \E t \in Thread : Interrupt(t)]_vars
    PROVE  HoldsItsMiss'
<1> USE ConstantsAssumption DEF Goto, localVars
<1>1. ASSUME NEW t \in Thread, NEW s \in Setups, Setup(t, s) PROVE HoldsItsMiss'
  BY <1>1 DEF Setup, HoldsItsMiss
<1>2. ASSUME NEW t \in Thread, NEW r \in Registry, ReturnAtOnce(t, r)
      PROVE  HoldsItsMiss'
  BY <1>2 DEF ReturnAtOnce, HoldsItsMiss
<1>3. ASSUME NEW t \in Thread, NEW r \in Registry, NEW q \in Request,
             EnterRegistry(t, r, q)
      PROVE  HoldsItsMiss'
  <2>1. /\ pc[t] = "idle" /\ pc' = [pc EXCEPT ![t] = "entered"]
        /\ registryLock[r] = NoThread /\ memo[r][q] = NoImage /\ memo' = memo
        /\ registryLock' = [registryLock EXCEPT ![r] = t]
        /\ registry' = [registry EXCEPT ![t] = r]
        /\ request' = [request EXCEPT ![t] = q]
    BY <1>3 DEF EnterRegistry, Spend, Misses
  <2>2. \A u \in Thread : u # t /\ pc[u] # "idle" /\ registry[u] \in Registry
          => registry[u] # r
    BY <2>1 DEF HoldsItsMiss, ConstantsAssumption
  <2>3. QED
    BY <2>1, <2>2 DEF HoldsItsMiss, TypeOK
<1>4. ASSUME NEW t \in Thread, NEW i \in Image, BeginUnverified(t, i)
      PROVE  HoldsItsMiss'
  <2>1. registry'[t] \notin Registry
    BY <1>4 DEF BeginUnverified, TypeOK, ConstantsAssumption
  <2>2. \A u \in Thread : u # t =>
          pc'[u] = pc[u] /\ registry'[u] = registry[u] /\ request'[u] = request[u]
    BY <1>4 DEF BeginUnverified, TypeOK
  <2>3. UNCHANGED <<registryLock, memo>>
    BY <1>4 DEF BeginUnverified
  <2>4. QED
    BY <2>1, <2>2, <2>3 DEF HoldsItsMiss
<1>5. ASSUME NEW t \in Thread,
             \/ BeginAttempt(t) \/ ResolveFails(t) \/ Claim(t) \/ OutsideRequest(t)
             \/ \E i \in Image : Resolve(t, i)
      PROVE  HoldsItsMiss'
  BY <1>5, InsideStep DEF BeginAttempt, ResolveFails, Claim, OutsideRequest, Resolve
<1>6. ASSUME NEW t \in Thread,
             \/ Reuse(t) \/ LoadFails(t) \/ Initialize(t) \/ InitializeFails(t)
             \/ SetDefaults(t) \/ SetDefaultsFails(t) \/ Latch(t) \/ Publish(t)
             \/ BuildInfoMalformed(t)
      PROVE  HoldsItsMiss'
  <2>1. /\ pc[t] # "idle" /\ \E label : pc' = [pc EXCEPT ![t] = label]
        /\ UNCHANGED <<registryLock, memo, registry, request>>
    BY <1>6 DEF Reuse, LoadFails, Initialize, InitializeFails, SetDefaults,
                SetDefaultsFails, Latch, Publish, BuildInfoMalformed, FailHolding
  <2>2. QED
    BY <2>1, InsideStep
<1>7. ASSUME NEW t \in Thread, Return(t) PROVE HoldsItsMiss'
  <2>1. \A r \in Registry, q \in Request : r # registry[t] => memo'[r][q] = memo[r][q]
    BY <1>7, ReturnStep
  <2>2. QED
    BY <1>7, <2>1, LeaveStep DEF Return
<1>8. ASSUME NEW t \in Thread, OpenFailed(t) PROVE HoldsItsMiss'
  <2>1. /\ pc[t] = "failed" /\ pc' = [pc EXCEPT ![t] = "idle"]
        /\ registryLock' = RegistryLocksWithout(t)
        /\ UNCHANGED <<memo, registry, request>>
    BY <1>8, Zenon DEF OpenFailed
  <2>2. QED
    BY <2>1, LeaveStep
<1>9. ASSUME NEW t \in Thread, Interrupt(t) PROVE HoldsItsMiss'
  BY <1>9, LeaveStep DEF Interrupt
<1>10. CASE UNCHANGED vars
  BY <1>10 DEF vars, HoldsItsMiss
<1>11. QED
  BY <1>1, <1>2, <1>3, <1>4, <1>5, <1>6, <1>7, <1>8, <1>9, <1>10, ZenonT(30)
     DEF Next, Step, CallIn, Finished

(* Registry: what a request has been answered with is its answer for the    *)
(* registry's life, for any number of threads, also where Ctrl-C ends opens. *)
THEOREM MemoStandsAlways == InterruptibleSpec => MemoStands
<1>1. Init => HoldsItsMiss
  BY DEF Init, HoldsItsMiss
<1>2. TypeOK /\ HoldsItsMiss /\ [Next \/ \E t \in Thread : Interrupt(t)]_vars
        => HoldsItsMiss'
  BY MissStep
<1>3. TypeOK /\ HoldsItsMiss /\ [Next \/ \E t \in Thread : Interrupt(t)]_vars
        => [\A r \in Registry, q \in Request :
               memo[r][q] # NoImage => memo'[r][q] = memo[r][q]]_vars
  BY MemoStep, ReturnStep
<1>4. QED
  BY <1>1, <1>2, <1>3, TypeCorrectInterrupted, PTL DEF InterruptibleSpec, MemoStands

-----------------------------------------------------------------------------
(* Ctrl-C in an open: what survives it. *)

(* What holds between the claim and the end of a load, whatever defaults an   *)
(* interrupted open has left behind.                                          *)
LoadZone ==
    \A t \in Thread : pc[t] \in Loading =>
        /\ state = under[t]
        /\ pc[t] # "claimed" => imageZone[image[t]] = state.zone
        /\ pc[t] = "latched" => latched

(* SetupInv without its claims about defaults. *)
ZoneInv ==
    /\ LockHeldByLoader
    /\ LoadZone
    /\ OpenUnderZone
    /\ images # {} => latched
    /\ latched => state # NoSetup

(* A step outside the loads leaves them and the images as they are. *)
LEMMA ZoneOutside ==
    ASSUME TypeOK, ZoneInv, NEW t \in Thread, NEW label \in PCs \ Loading,
           pc[t] \notin Loading, pc' = [pc EXCEPT ![t] = label],
           \A u \in Thread : pc[u] \in Loading => image'[u] = image[u] /\ under'[u] = under[u],
           UNCHANGED <<state, latched, lock, imageZone, images>>
    PROVE  ZoneInv'
<1> USE DEF TypeOK, ZoneInv
<1>1. \A u \in Thread : pc'[u] \in Loading <=> pc[u] \in Loading
  OBVIOUS
<1>2. \A u \in Thread : pc'[u] \in Loading => pc'[u] = pc[u]
  OBVIOUS
<1>3. LockHeldByLoader'
  BY <1>1 DEF LockHeldByLoader
<1>4. LoadZone'
  BY <1>1, <1>2 DEF LoadZone
<1>5. OpenUnderZone'
  BY DEF OpenUnderZone
<1>6. QED
  BY <1>3, <1>4, <1>5

(* The end of a load releases the lock, however it ends; what was open stays *)
(* open, and an image is added only under the record's zone.                 *)
LEMMA ZoneLeave ==
    ASSUME TypeOK, ZoneInv, NEW t \in Thread, NEW label \in PCs \ Loading,
           pc[t] \in Loading, pc' = [pc EXCEPT ![t] = label], lock' = NoThread,
           UNCHANGED <<state, latched, imageZone>>,
           images' = images \/ (pc[t] = "latched" /\ images' = images \cup {image[t]})
    PROVE  ZoneInv'
<1> USE DEF TypeOK, ZoneInv
<1>1. \A u \in Thread : pc'[u] \notin Loading
  BY DEF LockHeldByLoader
<1>2. LockHeldByLoader' /\ LoadZone'
  BY <1>1, ConstantsAssumption DEF LockHeldByLoader, LoadZone, ConstantsAssumption
<1>3. pc[t] = "latched" => latched /\ imageZone[image[t]] = state.zone
  BY DEF LoadZone, Loading
<1>4. OpenUnderZone'
  BY <1>3 DEF OpenUnderZone
<1>5. images' # {} => latched'
  BY <1>3
<1>6. QED
  BY <1>2, <1>4, <1>5

(* A step of a load towards its latch: the zone of its own image is the only *)
(* zone it writes, and with the spelling the image had.                      *)
LEMMA ZoneForward ==
    ASSUME TypeOK, ZoneInv, NEW t \in Thread, NEW label \in Loading \ {"claimed"},
           pc[t] \in Loading, pc' = [pc EXCEPT ![t] = label],
           UNCHANGED <<state, lock, images, image, under>>,
           latched \/ label = "latched" => latched',
           latched' => latched \/ label = "latched",
           \/ pc[t] # "claimed" /\ imageZone' = imageZone
           \/ /\ imageZone[image[t]] \in {NoZone, under[t].zone}
              /\ imageZone' = [imageZone EXCEPT ![image[t]] = under[t].zone]
    PROVE  ZoneInv'
<1> USE DEF TypeOK, ZoneInv
<1>1. \A u \in Thread : u # t => pc[u] \notin Loading /\ pc'[u] = pc[u]
  BY DEF LockHeldByLoader
<1>2. state = under[t] /\ under[t] \in Setups /\ image[t] \in Image /\ lock = t
  BY DEF LoadZone, LockHeldByLoader
<1>3. imageZone'[image[t]] = state.zone
  BY <1>2 DEF LoadZone
<1>4. LockHeldByLoader'
  BY <1>1, <1>2 DEF LockHeldByLoader
<1>5. LoadZone'
  BY <1>1, <1>2, <1>3 DEF LoadZone
<1>6. \A i \in images : imageZone'[i] = imageZone[i]
  BY <1>2, <1>3 DEF OpenUnderZone
<1>7. OpenUnderZone'
  BY <1>6 DEF OpenUnderZone
<1>8. state # NoSetup
  BY <1>2, ConstantsAssumption DEF ConstantsAssumption, Setups
<1>9. (images' # {} => latched') /\ (latched' => state' # NoSetup)
  BY <1>8
<1>10. QED
  BY <1>4, <1>5, <1>7, <1>9

(* Every step, Ctrl-C included, keeps ZoneInv. *)
LEMMA ZoneStep ==
    ASSUME TypeOK, ZoneInv, [Next \/ \E t \in Thread : Interrupt(t)]_vars
    PROVE  ZoneInv'
<1> USE ConstantsAssumption DEF imageVars, localVars, setupVars, Goto
<1>1. ASSUME NEW t \in Thread, NEW s \in Setups, Setup(t, s) PROVE ZoneInv'
  <2>1. /\ pc[t] = "idle" /\ lock = NoThread
        /\ UNCHANGED <<pc, latched, lock, imageVars, localVars>>
    BY <1>1 DEF Setup, Spend, EnterLock
  <2>2. CASE state' = state
    <3>1. pc' = [pc EXCEPT ![t] = "idle"]
      BY <2>1 DEF TypeOK
    <3>2. QED
      BY <2>1, <2>2, <3>1, ZoneOutside DEF PCs, Loading
  <2>3. CASE state' # state
    <3>1. ~latched /\ state' \in Setups
      BY <1>1, <2>3 DEF Setup, Refuses, ZoneInv
    <3>2. \A u \in Thread : pc[u] \notin Loading
      BY <2>1 DEF ZoneInv, LockHeldByLoader
    <3>3. LockHeldByLoader' /\ LoadZone'
      BY <2>1, <3>2 DEF LockHeldByLoader, LoadZone
    <3>4. OpenUnderZone'
      BY <2>1, <3>1 DEF OpenUnderZone, ZoneInv
    <3>5. QED
      BY <2>1, <3>1, <3>3, <3>4 DEF ZoneInv
  <2>4. QED
    BY <2>2, <2>3
<1>2. ASSUME NEW t \in Thread,
             \/ \E r \in Registry : ReturnAtOnce(t, r)
             \/ \E r \in Registry, q \in Request : EnterRegistry(t, r, q)
             \/ \E i \in Image : BeginUnverified(t, i) \/ Resolve(t, i)
             \/ BeginAttempt(t) \/ ResolveFails(t) \/ Return(t) \/ OutsideRequest(t)
      PROVE  ZoneInv'
  <2>1. /\ pc[t] \notin Loading
        /\ \E label \in PCs \ Loading : pc' = [pc EXCEPT ![t] = label]
    BY <1>2 DEF ReturnAtOnce, EnterRegistry, BeginUnverified, Resolve, BeginAttempt,
                ResolveFails, Return, OutsideRequest, Spend, PCs, Loading, TypeOK
  <2>2. /\ \A u \in Thread : u # t => image'[u] = image[u] /\ under'[u] = under[u]
        /\ UNCHANGED <<state, latched, lock, imageZone, images>>
    BY <1>2 DEF ReturnAtOnce, EnterRegistry, BeginUnverified, Resolve, BeginAttempt,
                ResolveFails, Return, OutsideRequest, TypeOK
  <2>3. QED
    BY <2>1, <2>2, ZoneOutside
<1>3. ASSUME NEW t \in Thread, OpenFailed(t) PROVE ZoneInv'
  <2>1. /\ pc[t] = "failed" /\ pc' = [pc EXCEPT ![t] = "idle"]
        /\ UNCHANGED <<state, latched, lock, imageVars, localVars>>
    BY <1>3, Zenon DEF OpenFailed
  <2>2. QED
    BY <2>1, ZoneOutside DEF PCs, Loading
<1>4. ASSUME NEW t \in Thread, Claim(t) PROVE ZoneInv'
  <2>1. \A u \in Thread : pc[u] \notin Loading
    BY <1>4 DEF Claim, EnterLock, ZoneInv, LockHeldByLoader
  <2>2. /\ lock' = t /\ state' = Effective
        /\ pc' = [pc EXCEPT ![t] = "claimed"]
        /\ under' = [under EXCEPT ![t] = Effective]
        /\ UNCHANGED <<latched, imageVars, image>>
    BY <1>4 DEF Claim
  <2>3. latched => state' = state
    BY <2>2 DEF Effective, ZoneInv
  <2>4. LockHeldByLoader'
    BY <2>1, <2>2 DEF LockHeldByLoader, Loading, TypeOK
  <2>5. LoadZone'
    BY <2>1, <2>2 DEF LoadZone, Loading, TypeOK
  <2>6. OpenUnderZone'
    BY <2>2, <2>3 DEF OpenUnderZone, ZoneInv
  <2>7. QED
    BY <2>2, <2>3, <2>4, <2>5, <2>6 DEF ZoneInv
<1>5. ASSUME NEW t \in Thread,
             Reuse(t) \/ LoadFails(t) \/ InitializeFails(t) \/ SetDefaultsFails(t)
                \/ BuildInfoMalformed(t) \/ Publish(t)
      PROVE  ZoneInv'
  <2>1. pc[t] \in Loading /\ lock' = NoThread
    BY <1>5 DEF Reuse, LoadFails, InitializeFails, SetDefaultsFails, BuildInfoMalformed,
                Publish, FailHolding, Loading
  <2>2. pc' = [pc EXCEPT ![t] = "opened"] \/ pc' = [pc EXCEPT ![t] = "failed"]
    BY <1>5 DEF Reuse, LoadFails, InitializeFails, SetDefaultsFails, BuildInfoMalformed,
                Publish, FailHolding
  <2>3. {"opened", "failed"} \subseteq PCs \ Loading
    BY DEF PCs, Loading
  <2>4. /\ UNCHANGED <<state, latched, imageZone>>
        /\ images' = images \/ (pc[t] = "latched" /\ images' = images \cup {image[t]})
    BY <1>5 DEF Reuse, LoadFails, InitializeFails, SetDefaultsFails, BuildInfoMalformed,
                Publish
  <2>5. QED
    BY <2>1, <2>2, <2>3, <2>4, ZoneLeave
<1>6. ASSUME NEW t \in Thread, Initialize(t) PROVE ZoneInv'
  BY <1>6, ZoneForward DEF Initialize, Loading
<1>7. ASSUME NEW t \in Thread, SetDefaults(t) PROVE ZoneInv'
  BY <1>7, ZoneForward DEF SetDefaults, Loading
<1>8. ASSUME NEW t \in Thread, Latch(t) PROVE ZoneInv'
  BY <1>8, ZoneForward DEF Latch, LatchRecord, Loading
<1>9. ASSUME NEW t \in Thread, Interrupt(t) PROVE ZoneInv'
  <2>1. pc' = [pc EXCEPT ![t] = "idle"] /\ UNCHANGED <<state, latched, imageVars, localVars>>
    BY <1>9 DEF Interrupt
  <2>2. CASE pc[t] \in Loading
    <3>1. lock' = NoThread
      BY <1>9, <2>2 DEF Interrupt, ZoneInv, LockHeldByLoader
    <3>2. "idle" \in PCs \ Loading /\ UNCHANGED <<state, latched, imageZone, images>>
      BY <2>1 DEF PCs, Loading
    <3>3. QED
      BY <2>1, <2>2, <3>1, <3>2, ZoneLeave
  <2>3. CASE pc[t] \notin Loading
    <3>1. lock' = lock
      BY <1>9, <2>3 DEF Interrupt, ZoneInv, LockHeldByLoader
    <3>2. QED
      BY <2>1, <2>3, <3>1, ZoneOutside DEF PCs, Loading
  <2>4. QED
    BY <2>2, <2>3
<1>10. CASE UNCHANGED vars
  BY <1>10 DEF vars, ZoneInv, LockHeldByLoader, LoadZone, OpenUnderZone
<1>11. QED
  BY <1>1, <1>2, <1>3, <1>4, <1>5, <1>6, <1>7, <1>8, <1>9, <1>10, ZenonT(30)
     DEF Next, Step, CallIn, Finished

(* ZoneInv holds although Ctrl-C may end any open at any of its steps. *)
THEOREM ZoneInvariant == InterruptibleSpec => []ZoneInv
<1>1. Init => ZoneInv
  BY ConstantsAssumption
     DEF Init, ZoneInv, LockHeldByLoader, LoadZone, OpenUnderZone, Loading,
         ConstantsAssumption
<1>2. TypeOK /\ ZoneInv /\ [Next \/ \E t \in Thread : Interrupt(t)]_vars => ZoneInv'
  BY ZoneStep
<1>3. QED
  BY <1>1, <1>2, TypeCorrectInterrupted, PTL DEF InterruptibleSpec

(* Every open image has the recorded zone although an interrupted open may   *)
(* have left its defaults behind: the fair process, for any number of        *)
(* threads, registries and images.                                           *)
THEOREM OpenUnderZoneAlways == FairSpec => []OpenUnderZone
<1>1. ZoneInv => OpenUnderZone
  BY DEF ZoneInv
<1>2. QED
  BY <1>1, ZoneInvariant, PTL DEF FairSpec

(* No setup() call swaps the record under a load, whichever opens Ctrl-C ends. *)
THEOREM NoSwapInterrupted == InterruptibleSpec => []NoSwapUnderLoad
<1>1. ZoneInv => NoSwapUnderLoad
  BY DEF ZoneInv, LoadZone, NoSwapUnderLoad
<1>2. QED
  BY <1>1, ZoneInvariant, PTL

(* Rule 2 with Ctrl-C: the latched setup stands, and no interrupt unlatches it. *)
THEOREM LatchedStandsInterrupted == InterruptibleSpec => LatchedStands
<1>1. ASSUME ZoneInv, latched, [Next \/ \E t \in Thread : Interrupt(t)]_vars
      PROVE  latched' /\ state' = state
  <2>1. ASSUME NEW t \in Thread, NEW s \in Setups, Setup(t, s)
        PROVE  latched' /\ state' = state
    BY <1>1, <2>1 DEF Setup, Refuses, ZoneInv, setupVars
  <2>2. ASSUME NEW t \in Thread, Claim(t) \/ Latch(t) \/ OpenFailed(t)
        PROVE  latched' /\ state' = state
    BY <1>1, <2>2, FailureStep DEF Claim, Effective, Latch, LatchRecord, ZoneInv
  <2>3. QED
    BY <1>1, <2>1, <2>2, CounterStep
<1>2. ZoneInv /\ [Next \/ \E t \in Thread : Interrupt(t)]_vars
        => [latched => latched' /\ state' = state]_vars
  BY <1>1
<1>3. QED
  BY <1>2, ZoneInvariant, PTL DEF InterruptibleSpec, LatchedStands

-----------------------------------------------------------------------------
(* The safety half of EveryCallReturns: no lock outlives its open.  Whoever    *)
(* holds a registry's lock is inside an open of that registry; whoever holds   *)
(* the setup lock is inside a load, none of whose steps waits for a lock.      *)
RegistryLocksOwned ==
    \A r \in Registry : registryLock[r] # NoThread =>
        /\ pc[registryLock[r]] # "idle"
        /\ registry[registryLock[r]] = r

LocksOwned ==
    /\ lock # NoThread => pc[lock] \in Loading
    /\ RegistryLocksOwned

(* A step that keeps its open inside and its registry, or is no open's. *)
LEMMA OwnedInside ==
    ASSUME TypeOK, RegistryLocksOwned, NEW t \in Thread,
           \A u \in Thread : u # t => pc'[u] = pc[u] /\ registry'[u] = registry[u],
           \/ pc[t] = "idle"
           \/ pc'[t] # "idle" /\ registry'[t] = registry[t],
           UNCHANGED registryLock
    PROVE  RegistryLocksOwned'
BY DEF TypeOK, RegistryLocksOwned

(* A step that ends an open frees the one lock it held. *)
LEMMA OwnedLeave ==
    ASSUME TypeOK, RegistryLocksOwned, NEW t \in Thread,
           pc' = [pc EXCEPT ![t] = "idle"], UNCHANGED registry,
           registryLock' = RegistryLocksWithout(t)
    PROVE  RegistryLocksOwned'
<1> SUFFICES ASSUME NEW r \in Registry, registryLock'[r] # NoThread
             PROVE  pc'[registryLock'[r]] # "idle" /\ registry[registryLock'[r]] = r
  BY DEF RegistryLocksOwned
<1>1. registryLock'[r] = registryLock[r] /\ r # registry[t]
  BY DEF RegistryLocksWithout
<1>2. registryLock[r] \in Thread
  BY <1>1 DEF TypeOK
<1>3. pc[registryLock[r]] # "idle" /\ registry[registryLock[r]] = r
  BY <1>1 DEF RegistryLocksOwned
<1>4. registryLock[r] # t
  BY <1>1, <1>3
<1>5. QED
  BY <1>1, <1>2, <1>3, <1>4 DEF TypeOK

LEMMA OwnedStep ==
    ASSUME TypeOK, RegistryLocksOwned, [Next \/ \E t \in Thread : Interrupt(t)]_vars
    PROVE  RegistryLocksOwned'
<1> USE DEF Goto, localVars
<1>1. ASSUME NEW t \in Thread,
             \/ \E s \in Setups : Setup(t, s)
             \/ \E r \in Registry : ReturnAtOnce(t, r)
      PROVE  RegistryLocksOwned'
  BY <1>1 DEF Setup, ReturnAtOnce, RegistryLocksOwned
<1>2. ASSUME NEW t \in Thread, NEW r \in Registry, NEW q \in Request,
             EnterRegistry(t, r, q)
      PROVE  RegistryLocksOwned'
  <2>1. /\ pc[t] = "idle" /\ pc' = [pc EXCEPT ![t] = "entered"]
        /\ registryLock' = [registryLock EXCEPT ![r] = t]
        /\ registry' = [registry EXCEPT ![t] = r]
    BY <1>2 DEF EnterRegistry, Spend
  <2>2. \A s \in Registry : registryLock[s] # t
    BY <2>1, ConstantsAssumption DEF RegistryLocksOwned, ConstantsAssumption
  <2>3. QED
    BY <2>1, <2>2 DEF RegistryLocksOwned, TypeOK
<1>3. ASSUME NEW t \in Thread, NEW i \in Image, BeginUnverified(t, i)
      PROVE  RegistryLocksOwned'
  BY <1>3, OwnedInside DEF BeginUnverified, Spend, TypeOK
<1>4. ASSUME NEW t \in Thread,
             \/ BeginAttempt(t) \/ ResolveFails(t) \/ Claim(t) \/ OutsideRequest(t)
             \/ \E i \in Image : Resolve(t, i)
      PROVE  RegistryLocksOwned'
  BY <1>4, OwnedInside
     DEF BeginAttempt, ResolveFails, Claim, OutsideRequest, Resolve, TypeOK
<1>5. ASSUME NEW t \in Thread,
             \/ Reuse(t) \/ LoadFails(t) \/ Initialize(t) \/ InitializeFails(t)
             \/ SetDefaults(t) \/ SetDefaultsFails(t) \/ Latch(t) \/ Publish(t)
             \/ BuildInfoMalformed(t)
      PROVE  RegistryLocksOwned'
  <2>1. /\ \E label \in PCs \ {"idle"} : pc' = [pc EXCEPT ![t] = label]
        /\ UNCHANGED <<registryLock, registry>>
    BY <1>5 DEF Reuse, LoadFails, Initialize, InitializeFails, SetDefaults,
                SetDefaultsFails, Latch, Publish, BuildInfoMalformed, FailHolding,
                PCs, Loading
  <2>2. QED
    BY <2>1, OwnedInside DEF TypeOK
<1>6. ASSUME NEW t \in Thread, Return(t) PROVE RegistryLocksOwned'
  BY <1>6, OwnedLeave DEF Return
<1>7. ASSUME NEW t \in Thread, OpenFailed(t) PROVE RegistryLocksOwned'
  <2>1. /\ pc' = [pc EXCEPT ![t] = "idle"]
        /\ registryLock' = RegistryLocksWithout(t)
        /\ UNCHANGED registry
    BY <1>7, Zenon DEF OpenFailed
  <2>2. QED
    BY <2>1, OwnedLeave
<1>8. ASSUME NEW t \in Thread, Interrupt(t) PROVE RegistryLocksOwned'
  BY <1>8, OwnedLeave DEF Interrupt
<1>9. CASE UNCHANGED vars
  BY <1>9 DEF vars, RegistryLocksOwned
<1>10. QED
  BY <1>1, <1>2, <1>3, <1>4, <1>5, <1>6, <1>7, <1>8, <1>9, ZenonT(30)
     DEF Next, Step, CallIn, Finished

(* On no path out of an open, Ctrl-C included, is a lock left behind, for any  *)
(* number of threads and registries: a thread waits for a registry only while  *)
(* an open of it runs, for the setup only while a load runs, and a load waits  *)
(* for nobody, so threads never wait for each other in a circle.               *)
THEOREM LocksOwnedAlways == InterruptibleSpec => []LocksOwned
<1>1. Init => RegistryLocksOwned
  BY DEF Init, RegistryLocksOwned
<1>2. TypeOK /\ RegistryLocksOwned /\ [Next \/ \E t \in Thread : Interrupt(t)]_vars
        => RegistryLocksOwned'
  BY OwnedStep
<1>3. TypeOK /\ ZoneInv /\ RegistryLocksOwned => LocksOwned
  BY DEF TypeOK, ZoneInv, LockHeldByLoader, LocksOwned
<1>4. QED
  BY <1>1, <1>2, <1>3, TypeCorrectInterrupted, ZoneInvariant, PTL DEF InterruptibleSpec
=============================================================================
