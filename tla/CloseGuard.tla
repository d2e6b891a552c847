------------------------------ MODULE CloseGuard ------------------------------
(***************************************************************************)
(* Compiled handles (Schema, Filter, Block) shared by threads: the close   *)
(* guard of _guard.py, the calls and closes of library.py that go through  *)
(* it, and the raw handle of _abi1/_decls.py with its finalizer.           *)
(*                                                                         *)
(* A block under the guard's condition is one action, and so is everything *)
(* between two points where ctypes releases the GIL; the library's free    *)
(* function is external and only counted.  Ctrl-C, which Python raises in  *)
(* the main thread between any two of its steps, is a set of actions of    *)
(* its own, below.                                                         *)
(***************************************************************************)
EXTENDS Integers, FiniteSets

CONSTANTS
    Thread,    \* threads of the process
    Handle,    \* handle objects, those the calls will create included
    Compiled,  \* the handles there are at the start (compile_table)
    MaxCalls,  \* bound: calls and closes a thread makes
    Interruptible,  \* the threads Ctrl-C is raised in: CPython's main thread
    NoHandle

ASSUME GuardAssumption ==
    /\ IsFiniteSet(Thread)
    /\ Compiled \subseteq Handle
    /\ MaxCalls \in Nat
    /\ Interruptible \subseteq Thread
    /\ NoHandle \notin Handle

VARIABLES
    created,     \* handle objects that exist
    referenced,  \* those the program still refers to
    active,      \* per handle, CloseGuard._active
    closed,      \* per handle, CloseGuard._closed
    rawClosed,   \* per handle, _decls.Handle._closed
    freed,       \* per handle, how often its free function was called (external)
    pc,          \* where each thread stands
    first,       \* per thread, the object its call or close is on
    second,      \* per thread, the other guarded argument, or NoHandle
    calls,       \* calls the thread has left
    struck       \* history: per handle, what Ctrl-C cut off (see Cuts)

guardVars == <<active, closed>>
rawVars   == <<rawClosed, freed>>
argVars   == <<first, second>>
vars == <<created, referenced, guardVars, rawVars, pc, argVars, calls, struck>>

Closing == {"waiting", "woken", "free", "freed"}
PCs == {"idle", "enter first", "enter second", "calling", "leave second", "leave first"}
           \cup Closing

(* What Ctrl-C can cut off for good: the decrement of a count, the notify   *)
(* after it, the raw handle's flag after its free, the finalizer's free.    *)
Cuts == {"count", "notify", "flag", "finalizer"}

Init ==
    /\ created = Compiled
    /\ referenced = Compiled
    /\ active = [h \in Handle |-> 0]
    /\ closed = [h \in Handle |-> FALSE]
    /\ rawClosed = [h \in Handle |-> FALSE]
    /\ freed = [h \in Handle |-> 0]
    /\ pc = [t \in Thread |-> "idle"]
    /\ first = [t \in Thread |-> NoHandle]
    /\ second = [t \in Thread |-> NoHandle]
    /\ calls = [t \in Thread |-> MaxCalls]
    /\ struck = [h \in Handle |-> {}]

-----------------------------------------------------------------------------
(* Helpers. *)

Goto(t, label) == pc' = [pc EXCEPT ![t] = label]

Strike(h, cut) == struck' = [struck EXCEPT ![h] = @ \cup {cut}]

Spend(t) == /\ pc[t] = "idle"
            /\ calls[t] > 0
            /\ calls' = [calls EXCEPT ![t] = @ - 1]

(* The objects whose guard the thread holds. *)
Inside(t) ==
    (IF pc[t] \in {"enter second", "calling", "leave second", "leave first"}
     THEN {first[t]} ELSE {})
    \cup
    (IF pc[t] \in {"calling", "leave second"} THEN {second[t]} \ {NoHandle} ELSE {})

(* The objects the thread's frame refers to. *)
Refers(t) == IF pc[t] = "idle" THEN {} ELSE {first[t], second[t]} \ {NoHandle}

Return(t) == Goto(t, "idle") /\ UNCHANGED <<created, referenced, argVars, calls>>

-----------------------------------------------------------------------------
(* A call: _hold enters the guard of the object and of the other handle the *)
(* call takes, Schema.rows(row_filter=...) and Filter.eval(block).          *)

Begin(t, h, g) ==
    /\ Spend(t)
    /\ h \in referenced
    /\ g \in (referenced \cup {NoHandle}) \ {h}
    /\ first' = [first EXCEPT ![t] = h]
    /\ second' = [second EXCEPT ![t] = g]
    /\ Goto(t, "enter first")
    /\ UNCHANGED <<created, referenced, guardVars, rawVars, struck>>

(* CloseGuard.__enter__.  Mutant: the closed flag is not looked at. *)
AdmitsClosed(h) == TRUE
Admits(h) == ~closed[h]

EnterFirst(t) ==
    /\ pc[t] = "enter first"
    /\ Admits(first[t])
    /\ active' = [active EXCEPT ![first[t]] = @ + 1]
    /\ Goto(t, IF second[t] = NoHandle THEN "calling" ELSE "enter second")
    /\ UNCHANGED <<created, referenced, closed, rawVars, argVars, calls, struck>>

RefuseFirst(t) ==
    /\ pc[t] = "enter first"
    /\ ~Admits(first[t])
    /\ Return(t)
    /\ UNCHANGED <<guardVars, rawVars, struck>>

EnterSecond(t) ==
    /\ pc[t] = "enter second"
    /\ Admits(second[t])
    /\ active' = [active EXCEPT ![second[t]] = @ + 1]
    /\ Goto(t, "calling")
    /\ UNCHANGED <<created, referenced, closed, rawVars, argVars, calls, struck>>

(* A later guard refuses: the ones entered are left on the way out.        *)
(* Mutant: the one that refused is left as well.                           *)
UnwoundAll == "leave second"
UnwindsTo == "leave first"

RefuseSecond(t) ==
    /\ pc[t] = "enter second"
    /\ ~Admits(second[t])
    /\ Goto(t, UnwindsTo)
    /\ UNCHANGED <<created, referenced, guardVars, rawVars, argVars, calls, struck>>

(* The C call returns, a value or an error. *)
CallReturns(t) ==
    /\ pc[t] = "calling"
    /\ Goto(t, IF second[t] = NoHandle THEN "leave first" ELSE "leave second")
    /\ UNCHANGED <<created, referenced, guardVars, rawVars, argVars, calls, struck>>

(* compile_filter and parse_block return a new handle. *)
CallCreates(t, h) ==
    /\ pc[t] = "calling"
    /\ second[t] = NoHandle
    /\ h \notin created
    /\ created' = created \cup {h}
    /\ referenced' = referenced \cup {h}
    /\ Goto(t, "leave first")
    /\ UNCHANGED <<guardVars, rawVars, argVars, calls, struck>>

(* CloseGuard.__exit__: the last call out wakes the closers, who look again *)
(* at the count.  Mutant: nobody is woken.                                  *)
NotifyNone(t, h, label) == [pc EXCEPT ![t] = label]
NotifyAll(t, h, label) ==
    [u \in Thread |->
        IF u = t THEN label
        ELSE IF active[h] = 1 /\ pc[u] = "waiting" /\ first[u] = h THEN "woken"
        ELSE pc[u]]

LeaveSecond(t) ==
    /\ pc[t] = "leave second"
    /\ active' = [active EXCEPT ![second[t]] = @ - 1]
    /\ pc' = NotifyAll(t, second[t], "leave first")
    /\ UNCHANGED <<created, referenced, closed, rawVars, argVars, calls, struck>>

LeaveFirst(t) ==
    /\ pc[t] = "leave first"
    /\ active' = [active EXCEPT ![first[t]] = @ - 1]
    /\ pc' = NotifyAll(t, first[t], "idle")
    /\ UNCHANGED <<created, referenced, closed, rawVars, argVars, calls, struck>>

-----------------------------------------------------------------------------
(* CloseGuard.close(self._handle.close). *)

(* A second close returns at once, freed or not. *)
CloseAgain(t, h) ==
    /\ Spend(t)
    /\ h \in referenced
    /\ closed[h]
    /\ UNCHANGED <<created, referenced, guardVars, rawVars, pc, argVars, struck>>

(* The first close refuses later calls and waits for those inside.  Mutant: *)
(* it does not wait.                                                        *)
WaitsNever(h) == "free"
WaitsFor(h) == IF active[h] = 0 THEN "free" ELSE "waiting"

Close(t, h) ==
    /\ Spend(t)
    /\ h \in referenced
    /\ ~closed[h]
    /\ closed' = [closed EXCEPT ![h] = TRUE]
    /\ first' = [first EXCEPT ![t] = h]
    /\ second' = [second EXCEPT ![t] = NoHandle]
    /\ Goto(t, WaitsFor(h))
    /\ UNCHANGED <<created, referenced, active, rawVars, struck>>

(* `while self._active: wait()`, after a notify. *)
LookAgain(t) ==
    /\ pc[t] = "woken"
    /\ Goto(t, IF active[first[t]] = 0 THEN "free" ELSE "waiting")
    /\ UNCHANGED <<created, referenced, guardVars, rawVars, argVars, calls, struck>>

(* _decls.Handle.close: the flag is read, the free function runs without the *)
(* GIL, and only then the flag is set.  A closed handle's close does nothing. *)
RawFree(t) ==
    /\ pc[t] = "free"
    /\ ~rawClosed[first[t]]
    /\ freed' = [freed EXCEPT ![first[t]] = @ + 1]
    /\ Goto(t, "freed")
    /\ UNCHANGED <<created, referenced, guardVars, rawClosed, argVars, calls, struck>>

RawFreeAgain(t) ==
    /\ pc[t] = "free"
    /\ rawClosed[first[t]]
    /\ Return(t)
    /\ UNCHANGED <<guardVars, rawVars, struck>>

RawClosing(t) ==
    /\ pc[t] = "free"
    /\ IF rawClosed[first[t]] THEN RawFreeAgain(t) ELSE RawFree(t)

RawFreed(t) ==
    /\ pc[t] = "freed"
    /\ rawClosed' = [rawClosed EXCEPT ![first[t]] = TRUE]
    /\ Return(t)
    /\ UNCHANGED <<guardVars, freed, struck>>

-----------------------------------------------------------------------------
(* The program forgets an object. *)
Forget(h) ==
    /\ h \in referenced
    /\ referenced' = referenced \ {h}
    /\ UNCHANGED <<created, guardVars, rawVars, pc, argVars, calls, struck>>

(* Handle.__del__, once neither the program nor a frame refers to it: no   *)
(* thread is left to see the free function and the flag apart.  Mutants: a *)
(* frame's reference is missed; an object closed by its guard is skipped.  *)
UnreachableInUse(h) == h \in created \ referenced
UnreachableOpen(h) ==
    h \in created \ referenced /\ ~closed[h] /\ \A t \in Thread : h \notin Refers(t)
Unreachable(h) == h \in created \ referenced /\ \A t \in Thread : h \notin Refers(t)

Finalizable(h) == Unreachable(h) /\ ~rawClosed[h] /\ "finalizer" \notin struck[h]

Finalize(h) ==
    /\ Finalizable(h)
    /\ freed' = [freed EXCEPT ![h] = @ + 1]
    /\ rawClosed' = [rawClosed EXCEPT ![h] = TRUE]
    /\ UNCHANGED <<created, referenced, guardVars, pc, argVars, calls, struck>>

-----------------------------------------------------------------------------
(* Ctrl-C.  Python raises KeyboardInterrupt between two of its steps, the   *)
(* main thread's, and not while a C function runs: one that arrives during  *)
(* a call or a free is raised as it returns, and leaves a call as an error  *)
(* does.                                                                    *)

(* The guard a thread is on its way into or out of, and where it goes next: *)
(* out of the call, by way of the first guard if it has that one.           *)
AtFirst(t) == pc[t] \in {"enter first", "leave first"}
At(t) == IF AtFirst(t) THEN first[t] ELSE second[t]
Beyond(t) == IF AtFirst(t) THEN "idle" ELSE "leave first"

Cut(t) == t \in Interruptible /\ UNCHANGED <<created, referenced, closed, argVars, calls>>

(* Before the guard is entered. *)
CutBefore(t) ==
    /\ Cut(t)
    /\ pc[t] \in {"enter first", "enter second"}
    /\ Goto(t, Beyond(t))
    /\ UNCHANGED <<active, rawVars, struck>>

(* After the guard counted the call, before the `with` that would leave it.  *)
CutEntered(t) ==
    /\ Cut(t)
    /\ pc[t] \in {"enter first", "enter second"}
    /\ Admits(At(t))
    /\ active' = [active EXCEPT ![At(t)] = @ + 1]
    /\ Strike(At(t), "count")
    /\ Goto(t, Beyond(t))
    /\ UNCHANGED rawVars

(* As the guard is left, before it counts: the other one is left as well. *)
CutLeaving(t) ==
    /\ Cut(t)
    /\ pc[t] \in {"leave first", "leave second"}
    /\ Strike(At(t), "count")
    /\ Goto(t, Beyond(t))
    /\ UNCHANGED <<active, rawVars>>

(* Between the last decrement and its notify. *)
CutLeft(t) ==
    /\ Cut(t)
    /\ pc[t] \in {"leave first", "leave second"}
    /\ active[At(t)] = 1
    /\ active' = [active EXCEPT ![At(t)] = @ - 1]
    /\ Strike(At(t), "notify")
    /\ Goto(t, Beyond(t))
    /\ UNCHANGED rawVars

(* In a close's wait or before its free: the guard stays closed and nothing *)
(* is freed.                                                                *)
CutClose(t) ==
    /\ Cut(t)
    /\ pc[t] \in {"waiting", "woken", "free"}
    /\ Goto(t, "idle")
    /\ UNCHANGED <<active, rawVars, struck>>

(* Between the free and the raw handle's flag. *)
CutFreed(t) ==
    /\ Cut(t)
    /\ pc[t] = "freed"
    /\ Strike(first[t], "flag")
    /\ Goto(t, "idle")
    /\ UNCHANGED <<active, rawVars>>

(* In __del__ before the free: Python drops the exception, and a finalizer  *)
(* runs once.  After the free nobody is left to look at the flag.           *)
CutFinalizer(h) ==
    /\ Interruptible # {}
    /\ Finalizable(h)
    /\ Strike(h, "finalizer")
    /\ UNCHANGED <<created, referenced, guardVars, rawVars, pc, argVars, calls>>

CutCall(t) == CutBefore(t) \/ CutEntered(t) \/ CutLeaving(t) \/ CutLeft(t)

-----------------------------------------------------------------------------
(* A call or close that has begun. *)
Step(t) ==
    \/ EnterFirst(t) \/ RefuseFirst(t) \/ EnterSecond(t) \/ RefuseSecond(t)
    \/ CallReturns(t) \/ \E h \in Handle : CallCreates(t, h)
    \/ LeaveSecond(t) \/ LeaveFirst(t)
    \/ LookAgain(t) \/ RawClosing(t) \/ RawFreed(t)

CallIn(t) ==
    \/ \E h \in Handle, g \in Handle \cup {NoHandle} : Begin(t, h, g)
    \/ \E h \in Handle : CloseAgain(t, h) \/ Close(t, h)

(* A close of an object on which Ctrl-C cut a call's way in or out: with the *)
(* count or the notify gone it may wait for good.                            *)
CallCut(h) == struck[h] \cap {"count", "notify"} # {}
Stranded(t) == pc[t] = "waiting" /\ CallCut(first[t])

(* The program has ended, or hangs in such a close: no other call runs, and *)
(* there is nothing to finalize.                                            *)
Finished == /\ \A t \in Thread : pc[t] = "idle" \/ Stranded(t)
            /\ \A h \in Handle : h \notin referenced /\ ~Finalizable(h)
            /\ UNCHANGED vars

Next == \/ \E t \in Thread : Step(t) \/ CallIn(t)
        \/ \E t \in Thread : CutCall(t) \/ CutClose(t) \/ CutFreed(t)
        \/ \E h \in Handle : Forget(h) \/ Finalize(h) \/ CutFinalizer(h)
        \/ Finished

Spec == Init /\ [][Next]_vars

(* Threads inside a call run on, the library's calls return (the library    *)
(* takes no callback), and an unreachable object is finalized.              *)
Fairness == /\ \A t \in Thread : WF_vars(Step(t))
            /\ \A h \in Handle : WF_vars(Finalize(h))
FairSpec == Spec /\ Fairness

-----------------------------------------------------------------------------
(***************************************************************************)
(* Properties.                                                             *)
(***************************************************************************)

(* Every variable has its type, and a thread inside a call or close has the *)
(* objects it works on.                                                     *)
TypeOK ==
    /\ referenced \subseteq created /\ created \subseteq Handle
    /\ active \in [Handle -> Nat]
    /\ closed \in [Handle -> BOOLEAN]
    /\ rawClosed \in [Handle -> BOOLEAN]
    /\ freed \in [Handle -> Nat]
    /\ pc \in [Thread -> PCs]
    /\ first \in [Thread -> Handle \cup {NoHandle}]
    /\ second \in [Thread -> Handle \cup {NoHandle}]
    /\ calls \in [Thread -> 0 .. MaxCalls]
    /\ struck \in [Handle -> SUBSET Cuts]
    /\ \A t \in Thread :
           /\ pc[t] # "idle" => first[t] \in created
           /\ pc[t] # "idle" => second[t] \in created \cup {NoHandle}
           /\ first[t] # NoHandle => second[t] # first[t]
           /\ pc[t] \in {"enter second", "leave second"} => second[t] # NoHandle

(* bindings-v1.md section 3: no reference is freed under a call that is still *)
(* inside the object, whichever of its two handles is closed, by whom.        *)
NoUseAfterFree ==
    \A t \in Thread : pc[t] = "calling" =>
        \A h \in {first[t], second[t]} \ {NoHandle} : freed[h] = 0

(* A handle is freed at most once, by the first close or by the finalizer of *)
(* one that was never closed or whose close was interrupted before it freed. *)
(* The code frees one again where Ctrl-C fell between the free function's    *)
(* return and the raw handle's flag: the finalizer does not know, and that   *)
(* is the one second free there is.                                          *)
FreedOnce == \A h \in Handle : freed[h] <= IF "flag" \in struck[h] THEN 2 ELSE 1

(* A guard counts exactly the threads inside it, and more for good once      *)
(* Ctrl-C has cut a decrement off.                                           *)
GuardCounts ==
    \A h \in Handle :
        LET inside == Cardinality({t \in Thread : h \in Inside(t)}) IN
        IF "count" \in struck[h] THEN active[h] > inside ELSE active[h] = inside

(* Whoever closes an object does so behind a closed guard, alone, and frees *)
(* only once nobody is inside.                                              *)
OneCloser ==
    \A t \in Thread : pc[t] \in Closing =>
        /\ closed[first[t]]
        /\ pc[t] \in {"free", "freed"} => active[first[t]] = 0
        /\ \A u \in Thread \ {t} : pc[u] \in Closing => first[u] # first[t]

(* The raw flag and the count agree, but for the moment in which the free    *)
(* function has run and the flag is not set yet.  Where Ctrl-C makes that    *)
(* moment last, the finalizer frees again, and nobody else: the object is    *)
(* shut and no close is under way.                                           *)
FreedExactly ==
    \A h \in Handle :
        LET freeing == \E t \in Thread : pc[t] = "freed" /\ first[t] = h IN
        IF "flag" \in struck[h]
        THEN /\ freed[h] = IF rawClosed[h] THEN 2 ELSE 1
             /\ closed[h]
             /\ \A t \in Thread : pc[t] \in Closing => first[t] # h
        ELSE /\ freed[h] = IF rawClosed[h] \/ freeing THEN 1 ELSE 0
             /\ ~(rawClosed[h] /\ freeing)

(* What is freed nobody is inside of, and nobody can enter any more. *)
FreedUnused ==
    \A h \in Handle : freed[h] > 0 =>
        /\ h \in created
        /\ \A t \in Thread : h \notin Inside(t)
        /\ closed[h] \/ (h \notin referenced /\ \A t \in Thread : h \notin Refers(t))

(* The inductive invariant behind NoUseAfterFree and FreedOnce. *)
GuardInv == GuardCounts /\ OneCloser /\ FreedExactly /\ FreedUnused

(* A closer sleeps only while somebody is inside who will wake it: the last  *)
(* call out of the object leaves no one waiting, and a close never waits for *)
(* an object nobody is in.  There is no timeout to make up for either.  The  *)
(* exception is an object on which Ctrl-C cut a call's way in or out.        *)
NoLostWakeUp ==
    \A t \in Thread : pc[t] = "waiting" =>
        CallCut(first[t]) \/ \E u \in Thread : first[t] \in Inside(u)

(* The guard with its counter, the two entries of a call, the unwinding, the *)
(* finalizer and Ctrl-C do what an object promises: entered while open, shut *)
(* once, freed once and by nobody's leave but the last; freed a second time  *)
(* only after Ctrl-C tore the first free from its flag.                      *)
Life == INSTANCE HandleLife WITH
    users <- [h \in Handle |-> {t \in Thread : h \in Inside(t)}],
    shut <- closed,
    torn <- {h \in Handle : "flag" \in struck[h]}
ImplementsHandleLife == Life!Spec

(* A close that waits is woken: every call and close that began ends, though *)
(* calls on the object and on others keep coming.  The one that may wait for *)
(* good is the close of an object on which Ctrl-C cut a call.                *)
EveryCallReturns ==
    \A t \in Thread : pc[t] # "idle" ~> (pc[t] = "idle" \/ []Stranded(t))

(* No leak: what the program forgot is freed, also when its close was        *)
(* interrupted or it was never closed, unless a stranded close holds it or   *)
(* Ctrl-C fell into its finalizer.                                           *)
Kept(h) == \/ "finalizer" \in struck[h]
           \/ \E t \in Thread : Stranded(t) /\ first[t] = h
ForgottenFreed ==
    \A h \in Handle : h \in created \ referenced ~> (freed[h] > 0 \/ []Kept(h))
=============================================================================
