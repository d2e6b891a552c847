----------------------------- MODULE ProcessSetup -----------------------------
(***************************************************************************)
(* The process setup and the opens that run under it: _setup.py, the two   *)
(* opens of library.py, Registry._open, and loader step 7 of               *)
(* _abi1/_loader.py.                                                       *)
(*                                                                         *)
(* Threads of one process call setup(), Registry.for_version and           *)
(* open_unverified in any interleaving.  One action is one stretch of code *)
(* that no other thread can observe half done: a block under a lock, or a  *)
(* call into the library made while the setup lock is held.  The library   *)
(* (chs_initialize, chs_set_defaults) is external: it keeps one zone per   *)
(* image for the process's life and replaces the defaults whole.           *)
(***************************************************************************)
EXTENDS Integers, FiniteSets

CONSTANTS
    Thread,       \* threads of the process
    Registry,     \* Registry objects, each with its own lock and memo
    Request,      \* version requests a registry is asked for
    Image,        \* library files, by device and inode
    Zones,        \* zone spellings a setup may name
    DefaultSets,  \* default settings a setup may name
    EmptyZone,    \* the zone of the empty setup
    NoDefaults,   \* no default settings: chs_set_defaults is not called
    MaxCalls,     \* bound: public calls a thread makes
    NoSetup, NoThread, NoRegistry, NoRequest, NoImage, NoZone

ASSUME ConstantsAssumption ==
    /\ EmptyZone \in Zones
    /\ NoDefaults \in DefaultSets
    /\ MaxCalls \in Nat
    /\ NoThread \notin Thread
    /\ NoRegistry \notin Registry
    /\ NoImage \notin Image
    /\ NoZone \notin Zones
    /\ NoSetup \notin [zone : Zones, defaults : DefaultSets]

Setups == [zone : Zones, defaults : DefaultSets]
EmptySetup == [zone |-> EmptyZone, defaults |-> NoDefaults]

VARIABLES
    state,         \* _state: the recorded setup, or NoSetup
    latched,       \* _latched
    replaceable,   \* _replaceable
    generation,    \* _generation
    lock,          \* owner of _setup.LOCK, held across a whole load
    imageZone,     \* per image, the zone chs_initialize gave it (external)
    imageDefaults, \* per image, the defaults chs_set_defaults gave it (external)
    images,        \* keys of library._IMAGES: the images open in the process
    registryLock,  \* owner of each Registry._lock
    memo,          \* Registry._memo
    pc,            \* where each thread stands in its open
    registry, request, image, \* the open's arguments and what it resolved to
    began,         \* generation() when the open's attempt began
    under,         \* the setup the open claimed for its load
    calls,         \* public calls the thread has left
    settled,       \* history: generations under which a failed open began
    lastSettled    \* history: the last of them, -1 before the first

setupVars   == <<state, latched, replaceable, generation>>
imageVars   == <<imageZone, imageDefaults, images>>
localVars   == <<registry, request, image, began, under>>
historyVars == <<settled, lastSettled>>
vars == <<setupVars, lock, imageVars, registryLock, memo, pc, localVars, calls,
          historyVars>>

Loading == {"claimed", "initialized", "configured", "latched"}
PCs == {"idle", "entered", "resolving", "resolved", "opened", "failed"} \cup Loading

Init ==
    /\ state = NoSetup
    /\ latched = FALSE
    /\ replaceable = FALSE
    /\ generation = 0
    /\ lock = NoThread
    /\ imageZone = [i \in Image |-> NoZone]
    /\ imageDefaults = [i \in Image |-> NoDefaults]
    /\ images = {}
    /\ registryLock = [r \in Registry |-> NoThread]
    /\ memo = [r \in Registry |-> [q \in Request |-> NoImage]]
    /\ pc = [t \in Thread |-> "idle"]
    /\ registry = [t \in Thread |-> NoRegistry]
    /\ request = [t \in Thread |-> NoRequest]
    /\ image = [t \in Thread |-> NoImage]
    /\ began = [t \in Thread |-> 0]
    /\ under = [t \in Thread |-> NoSetup]
    /\ calls = [t \in Thread |-> MaxCalls]
    /\ settled = {}
    /\ lastSettled = -1

-----------------------------------------------------------------------------
(* Helpers. *)

Goto(t, label) == pc' = [pc EXCEPT ![t] = label]

(* A public call begins: one less left. *)
Spend(t) == /\ pc[t] = "idle"
            /\ calls[t] > 0
            /\ calls' = [calls EXCEPT ![t] = @ - 1]

(* `with LOCK` is entered.  Mutant: nothing excludes the other threads. *)
EnterUnguarded == TRUE
EnterLock == lock = NoThread

(* `with self._lock` in Registry._open is left; open_unverified holds none. *)
RegistryLocksWithout(t) ==
    [r \in Registry |-> IF r = registry[t] THEN NoThread ELSE registryLock[r]]

(* An exception leaves `with LOCK` on the way to open_failed.  Mutant: the *)
(* lock stays taken.                                                       *)
FailStillHolding(t) == /\ lock' = lock
                       /\ Goto(t, "failed")
FailHolding(t) == /\ lock' = NoThread
                  /\ Goto(t, "failed")

-----------------------------------------------------------------------------
(* setup(): the whole body under LOCK.  The same setup is a no-op; with the *)
(* record locked or latched a different one is a UsageError.                *)

Refuses(s) == state # NoSetup /\ (latched \/ ~replaceable)

Setup(t, s) ==
    /\ Spend(t)
    /\ EnterLock
    /\ IF state = s \/ Refuses(s)
       THEN UNCHANGED setupVars
       ELSE /\ state' = s
            /\ replaceable' = FALSE
            /\ generation' = generation + 1
            /\ UNCHANGED latched
    /\ UNCHANGED <<lock, imageVars, registryLock, memo, pc, localVars, historyVars>>

-----------------------------------------------------------------------------
(* Registry._open: the memo and the spelling check under the registry lock, *)
(* which stays held until the call returns.                                 *)

(* A memo hit, or a version spelling Request() refuses: nothing changes. *)
ReturnAtOnce(t, r) ==
    /\ Spend(t)
    /\ registryLock[r] = NoThread
    /\ UNCHANGED <<setupVars, lock, imageVars, registryLock, memo, pc, localVars,
                   historyVars>>

(* Mutant: the memo is read before the registry lock is taken. *)
MissesUnlocked(r, q) == memo[r][q] = NoImage
Misses(r, q) == registryLock[r] = NoThread /\ memo[r][q] = NoImage

EnterRegistry(t, r, q) ==
    /\ Spend(t)
    /\ Misses(r, q)
    /\ registryLock' = [registryLock EXCEPT ![r] = t]
    /\ registry' = [registry EXCEPT ![t] = r]
    /\ request' = [request EXCEPT ![t] = q]
    /\ Goto(t, "entered")
    /\ UNCHANGED <<setupVars, lock, imageVars, memo, image, began, under, historyVars>>

(* generation(), under LOCK. *)
BeginAttempt(t) ==
    /\ pc[t] = "entered"
    /\ EnterLock
    /\ began' = [began EXCEPT ![t] = generation]
    /\ Goto(t, "resolving")
    /\ UNCHANGED <<setupVars, lock, imageVars, registryLock, memo, registry, request,
                   image, under, calls, historyVars>>

(* resolve_installed, or ensure on a miss: some installed build, or no     *)
(* answer.  Which one is the fetch layer's business.                       *)
Resolve(t, i) ==
    /\ pc[t] = "resolving"
    /\ image' = [image EXCEPT ![t] = i]
    /\ Goto(t, "resolved")
    /\ UNCHANGED <<setupVars, lock, imageVars, registryLock, memo, registry, request,
                   began, under, calls, historyVars>>

ResolveFails(t) ==
    /\ pc[t] = "resolving"
    /\ Goto(t, "failed")
    /\ UNCHANGED <<setupVars, lock, imageVars, registryLock, memo, localVars, calls,
                   historyVars>>

(* open_unverified past its opt-in check: no registry and nothing to resolve. *)
BeginUnverified(t, i) ==
    /\ Spend(t)
    /\ EnterLock
    /\ registry' = [registry EXCEPT ![t] = NoRegistry]
    /\ request' = [request EXCEPT ![t] = NoRequest]
    /\ image' = [image EXCEPT ![t] = i]
    /\ began' = [began EXCEPT ![t] = generation]
    /\ Goto(t, "resolved")
    /\ UNCHANGED <<setupVars, lock, imageVars, registryLock, memo, under, historyVars>>

-----------------------------------------------------------------------------
(* open_image and open_unverified, under LOCK from Claim to Reuse, Publish  *)
(* or a failure.                                                            *)

(* effective(): the empty setup if none was recorded, and the record locked. *)
Effective == IF state = NoSetup THEN EmptySetup ELSE state

Claim(t) ==
    /\ pc[t] = "resolved"
    /\ EnterLock
    /\ lock' = t
    /\ state' = Effective
    /\ replaceable' = FALSE
    /\ under' = [under EXCEPT ![t] = Effective]
    /\ Goto(t, "claimed")
    /\ UNCHANGED <<latched, generation, imageVars, registryLock, memo, registry, request,
                   image, began, calls, historyVars>>

(* The image is open already and passes recheck (steps 1 and 5). *)
Reuse(t) ==
    /\ pc[t] = "claimed"
    /\ image[t] \in images
    /\ lock' = NoThread
    /\ Goto(t, "opened")
    /\ UNCHANGED <<setupVars, imageVars, registryLock, memo, localVars, calls, historyVars>>

(* The file is gone (_image_key), recheck refuses, or loader steps 1 to 6 do. *)
LoadFails(t) ==
    /\ pc[t] = "claimed"
    /\ FailHolding(t)
    /\ UNCHANGED <<setupVars, imageVars, registryLock, memo, localVars, calls, historyVars>>

(* Step 7, chs_initialize: once per process and image, the same spelling    *)
(* again is a no-op.                                                        *)
Initialize(t) ==
    /\ pc[t] = "claimed"
    /\ image[t] \notin images
    /\ imageZone[image[t]] \in {NoZone, under[t].zone}
    /\ imageZone' = [imageZone EXCEPT ![image[t]] = under[t].zone]
    /\ Goto(t, "initialized")
    /\ UNCHANGED <<setupVars, lock, imageDefaults, images, registryLock, memo, localVars,
                   calls, historyVars>>

(* A zone DateLUT will not load, or another zone than the image has. *)
InitializeFails(t) ==
    /\ pc[t] = "claimed"
    /\ image[t] \notin images
    /\ imageZone[image[t]] # under[t].zone
    /\ FailHolding(t)
    /\ UNCHANGED <<setupVars, imageVars, registryLock, memo, localVars, calls, historyVars>>

(* Step 7, chs_set_defaults: not called when there are no defaults. *)
(* Mutant: it is never called.                                              *)
DefaultsSkipped(t) == imageDefaults
DefaultsAfter(t) ==
    IF under[t].defaults = NoDefaults THEN imageDefaults
    ELSE [imageDefaults EXCEPT ![image[t]] = under[t].defaults]

SetDefaults(t) ==
    /\ pc[t] = "initialized"
    /\ imageDefaults' = DefaultsAfter(t)
    /\ Goto(t, "configured")
    /\ UNCHANGED <<setupVars, lock, imageZone, images, registryLock, memo, localVars,
                   calls, historyVars>>

(* A refused default commits nothing; the zone the image got stays. *)
SetDefaultsFails(t) ==
    /\ pc[t] = "initialized"
    /\ under[t].defaults # NoDefaults
    /\ FailHolding(t)
    /\ UNCHANGED <<setupVars, imageVars, registryLock, memo, localVars, calls, historyVars>>

(* latch().  Mutant: it only locks the record again. *)
LatchForgotten == latched' = latched /\ replaceable' = FALSE
LatchRecord == latched' = TRUE /\ replaceable' = FALSE

Latch(t) ==
    /\ pc[t] = "configured"
    /\ LatchRecord
    /\ Goto(t, "latched")
    /\ UNCHANGED <<state, generation, lock, imageVars, registryLock, memo, localVars,
                   calls, historyVars>>

Publish(t) ==
    /\ pc[t] = "latched"
    /\ images' = images \cup {image[t]}
    /\ lock' = NoThread
    /\ Goto(t, "opened")
    /\ UNCHANGED <<setupVars, imageZone, imageDefaults, registryLock, memo, localVars,
                   calls, historyVars>>

(* Library(load, ...) decodes build_info after the latch, and a member of the *)
(* wrong type is an ArtifactCorruptError.                                     *)
BuildInfoMalformed(t) ==
    /\ pc[t] = "latched"
    /\ FailHolding(t)
    /\ UNCHANGED <<setupVars, imageVars, registryLock, memo, localVars, calls, historyVars>>

-----------------------------------------------------------------------------
(* The way out. *)

(* _check_within_request passes and the memo is set; open_unverified returns. *)
Return(t) ==
    /\ pc[t] = "opened"
    /\ memo' = [r \in Registry |->
                   IF r = registry[t] THEN [memo[r] EXCEPT ![request[t]] = image[t]]
                   ELSE memo[r]]
    /\ registryLock' = RegistryLocksWithout(t)
    /\ Goto(t, "idle")
    /\ UNCHANGED <<setupVars, lock, imageVars, localVars, calls, historyVars>>

(* The library reports a version outside the request: the open fails and the  *)
(* image stays open.                                                          *)
OutsideRequest(t) ==
    /\ pc[t] = "opened"
    /\ registry[t] # NoRegistry
    /\ Goto(t, "failed")
    /\ UNCHANGED <<setupVars, lock, imageVars, registryLock, memo, localVars, calls,
                   historyVars>>

(* open_failed(began), under LOCK, then the exception leaves the registry. *)
(* Mutants: an open unlocks a record made after it began; it unlocks nothing. *)
UnlocksFromAny(t) == ~latched /\ state # NoSetup
UnlocksNever(t) == FALSE
UnlocksFrom(t) == ~latched /\ state # NoSetup /\ generation = began[t]

OpenFailed(t) ==
    /\ pc[t] = "failed"
    /\ EnterLock
    /\ replaceable' = (UnlocksFrom(t) \/ replaceable)
    /\ registryLock' = RegistryLocksWithout(t)
    /\ settled' = settled \cup {began[t]}
    /\ lastSettled' = began[t]
    /\ Goto(t, "idle")
    /\ UNCHANGED <<state, latched, generation, lock, imageVars, memo, localVars, calls>>

(* KeyboardInterrupt is no Exception: every lock is left, open_failed is not *)
(* called.                                                                   *)
Interrupt(t) ==
    /\ pc[t] # "idle"
    /\ lock' = IF lock = t THEN NoThread ELSE lock
    /\ registryLock' = RegistryLocksWithout(t)
    /\ Goto(t, "idle")
    /\ UNCHANGED <<setupVars, imageVars, memo, localVars, calls, historyVars>>

-----------------------------------------------------------------------------
Step(t) ==
    \/ BeginAttempt(t)
    \/ \E i \in Image : Resolve(t, i)
    \/ ResolveFails(t)
    \/ Claim(t)
    \/ Reuse(t)
    \/ LoadFails(t)
    \/ Initialize(t)
    \/ InitializeFails(t)
    \/ SetDefaults(t)
    \/ SetDefaultsFails(t)
    \/ Latch(t)
    \/ Publish(t)
    \/ BuildInfoMalformed(t)
    \/ Return(t)
    \/ OutsideRequest(t)
    \/ OpenFailed(t)

CallIn(t) ==
    \/ \E s \in Setups : Setup(t, s)
    \/ \E r \in Registry : ReturnAtOnce(t, r)
    \/ \E r \in Registry, q \in Request : EnterRegistry(t, r, q)
    \/ \E i \in Image : BeginUnverified(t, i)

(* Every call of the bounded run has been made and has returned. *)
Finished == /\ \A t \in Thread : pc[t] = "idle" /\ calls[t] = 0
            /\ UNCHANGED vars

Next == \/ \E t \in Thread : Step(t) \/ CallIn(t)
        \/ Finished

Spec == Init /\ [][Next]_vars

(* The same process where Ctrl-C may end any open. *)
InterruptibleSpec == Init /\ [][Next \/ \E t \in Thread : Interrupt(t)]_vars

(* A thread that is inside an open runs on: only the scheduler could stop it. *)
FairSpec == InterruptibleSpec /\ \A t \in Thread : WF_vars(Step(t))

-----------------------------------------------------------------------------
(***************************************************************************)
(* Properties.                                                             *)
(***************************************************************************)

(* Every variable has its type; the locals hold real arguments where the *)
(* thread's position in _open says they are set.                         *)
TypeOK ==
    /\ state \in Setups \cup {NoSetup}
    /\ latched \in BOOLEAN
    /\ replaceable \in BOOLEAN
    /\ generation \in Nat
    /\ lock \in Thread \cup {NoThread}
    /\ imageZone \in [Image -> Zones \cup {NoZone}]
    /\ imageDefaults \in [Image -> DefaultSets]
    /\ images \subseteq Image
    /\ registryLock \in [Registry -> Thread \cup {NoThread}]
    /\ memo \in [Registry -> [Request -> Image \cup {NoImage}]]
    /\ pc \in [Thread -> PCs]
    /\ registry \in [Thread -> Registry \cup {NoRegistry}]
    /\ request \in [Thread -> Request \cup {NoRequest}]
    /\ image \in [Thread -> Image \cup {NoImage}]
    /\ began \in [Thread -> Nat]
    /\ under \in [Thread -> Setups \cup {NoSetup}]
    /\ calls \in [Thread -> Nat]
    /\ settled \subseteq Nat
    /\ lastSettled \in Nat \cup {-1}
    /\ \A t \in Thread :
           /\ pc[t] \in {"entered", "resolving"} => registry[t] \in Registry
           /\ registry[t] \in Registry => request[t] \in Request
           /\ pc[t] \in {"resolved", "opened"} \cup Loading => image[t] \in Image
           /\ pc[t] \in Loading => under[t] \in Setups

(* bindings-v1.md section 6, rules 1 to 3: every image open in the process *)
(* runs under exactly the setup that is in effect now, whatever was        *)
(* recorded, replaced or half applied before it opened.                    *)
OpenUnderSetup ==
    \A i \in images : /\ state # NoSetup
                      /\ imageZone[i] = state.zone
                      /\ imageDefaults[i] = state.defaults

(* The zone half of it, which holds even when Ctrl-C ends an open half way. *)
OpenUnderZone ==
    \A i \in images : state # NoSetup /\ imageZone[i] = state.zone

(* effective(): no setup() call of another thread replaces the record between *)
(* an open's claim and the end of its load.                                   *)
NoSwapUnderLoad ==
    \A t \in Thread : pc[t] \in Loading => state = under[t]

(* What holds between the claim and the end of a load; with TypeOK it is   *)
(* inductive.                                                               *)
LockHeldByLoader == \A t \in Thread : pc[t] \in Loading <=> lock = t

LoadProgress ==
    \A t \in Thread : pc[t] \in Loading =>
        /\ state = under[t]
        /\ pc[t] # "claimed" => /\ image[t] \notin images
                                /\ imageZone[image[t]] = state.zone
        /\ pc[t] \in {"configured", "latched"} => imageDefaults[image[t]] = state.defaults
        /\ pc[t] = "latched" => latched

(* An image keeps defaults from an open only under the latched setup, or while *)
(* the open that set them stands before its latch.                             *)
NoLeftoverDefaults ==
    \A i \in Image : imageDefaults[i] # NoDefaults =>
        \/ latched /\ imageDefaults[i] = state.defaults
        \/ \E t \in Thread : pc[t] = "configured" /\ image[t] = i

(* The inductive invariant: every conjunct is needed to carry OpenUnderSetup   *)
(* through a load that skips chs_set_defaults because there are no defaults.   *)
SetupInv ==
    /\ LockHeldByLoader
    /\ LoadProgress
    /\ NoLeftoverDefaults
    /\ OpenUnderSetup
    /\ images # {} => latched
    /\ latched => state # NoSetup

(* Rule 2: once an image has completed step 7 the setup in effect stands for  *)
(* the process's life, and nothing unlatches it.                              *)
LatchedStands == [][latched => latched' /\ state' = state]_vars

(* Rule 4: a record gives way to a different one only after an open that      *)
(* began under that very record failed; the failure of an older open, however *)
(* late it is settled, never lets a newer record be replaced.                 *)
OwnFailureReplaces ==
    [][state # NoSetup /\ state' # state => generation \in settled]_vars

Quiescent == \A t \in Thread : pc[t] = "idle"

(* Rule 4: a failed open can be corrected.  When no open is in flight and     *)
(* nothing has latched, a record whose own attempt was the last to fail is    *)
(* replaceable: no later claim has locked it again for good.                  *)
Correctable ==
    Quiescent /\ ~latched /\ state # NoSetup /\ lastSettled = generation
        => replaceable

(* Registry: a request that has been opened returns the same Library for the  *)
(* registry's life, although two threads may miss the memo for it at once and *)
(* what is installed may move between them.                                   *)
MemoStands ==
    [][\A r \in Registry, q \in Request :
           memo[r][q] # NoImage => memo'[r][q] = memo[r][q]]_vars

(* No lock is left behind on any path out of an open, and the two locks are   *)
(* taken in one order: every call that was made returns.                      *)
EveryCallReturns == \A t \in Thread : pc[t] # "idle" ~> pc[t] = "idle"

(* The locks, threads and failures implement the abstract setup: an image is  *)
(* open there when the process has published it.                              *)
Abstract == INSTANCE SetupOnce
    WITH record  <- state,
         running <- [i \in Image |->
                        IF i \in images
                        THEN [zone |-> imageZone[i], defaults |-> imageDefaults[i]]
                        ELSE NoSetup]

ImplementsSetupOnce == Abstract!Spec
=============================================================================
