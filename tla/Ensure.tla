-------------------------------- MODULE Ensure --------------------------------
(***************************************************************************)
(* ensure() of _ocifetch/_ensure.py: processes that resolve requests       *)
(* against sources, one cache of verified records and one lock file, all   *)
(* at once.  A call reads the lock first, decides which way to go, reads   *)
(* the cache, asks the sources, installs, and writes the lock last; other  *)
(* processes act between any two of these.                                 *)
(*                                                                         *)
(* A manifest digest stands for everything under it: its signed platform   *)
(* and version are PlatformOf and Within, the order of its (version,       *)
(* build) is Rank.  Installing an entry is one step here; CacheInstall has *)
(* the steps, and both implement EntryOnce.                                *)
(***************************************************************************)
EXTENDS Naturals, FiniteSets

CONSTANTS
    Process,
    Request,      \* version spellings
    Platform,
    Manifest,
    PlatformOf,   \* [Manifest -> Platform], signed
    Rank,         \* [Manifest -> Nat], the order of (version, build)
    Within,       \* [Request -> SUBSET Manifest], version_within_request
    Signed,       \* manifests a bundle under a trusted key exists for
    Systems,      \* what the read-only system directories may hold, filled by ensure too
    Seeded,       \* manifests index.json names, their blobs beside it
    Options,      \* the calls made: Request and Options of the source
    InitialLocks, \* what the lock file may hold at the start
    MaxCalls,     \* bound: calls per process
    NoManifest, NoPin, NoFile, Refused, NoCall

Trust == {"absent", "trusted", "unsigned"}

Option == [request: Request, platform: Platform, offline: BOOLEAN,
           frozen: BOOLEAN, update: BOOLEAN, lockWrite: BOOLEAN,
           lockPath: BOOLEAN, allowUnsigned: BOOLEAN]

(* A pin's layer, version and build agree with what its manifest holds, or  *)
(* one of them does not; a pin made from an unsigned record has no bundle.  *)
Pin == [manifest: Manifest, agrees: {"all", "not layer", "not version"},
        bundled: BOOLEAN]

Key == Request \X Platform
Lock == [Key -> Pin \cup {NoPin}]

ASSUME EnsureAssumption ==
    /\ PlatformOf \in [Manifest -> Platform]
    /\ Rank \in [Manifest -> Nat]
    /\ Within \in [Request -> SUBSET Manifest]
    /\ Signed \subseteq Manifest /\ Seeded \subseteq Manifest
    /\ Systems \subseteq [Manifest -> Trust]
    /\ \A s \in Systems, m \in Manifest : s[m] = "trusted" => m \in Signed
    /\ Options \subseteq Option
    /\ InitialLocks \subseteq Lock \cup {NoFile, Refused}
    /\ MaxCalls \in Nat
    /\ NoManifest \notin Manifest /\ NoPin \notin Pin /\ NoCall \notin Option
    /\ NoFile # Refused /\ {NoFile, Refused} \cap Lock = {}

VARIABLES
    cache,    \* per manifest, its record in the cache
    system,   \* the same in the system directories, never written
    lock,     \* the lock file
    pc,       \* where each process stands in its call
    call,     \* the call's request and options
    read,     \* the lock as the call read it
    offer,    \* per platform, the manifest the index of the tag names
    want,     \* the manifest being fetched, and what its signature was worth
    answer,   \* the Resolved being built
    outcome,  \* how the last call ended
    left,     \* calls left
    atStart   \* history: what the roots held when the call began

vars == <<cache, system, lock, pc, call, read, offer, want, answer, outcome, left, atStart>>

PCs == {"idle", "search", "frozen", "tag", "offered", "verified", "install", "lock"}
Outcomes == {"none", "ok", "missing", "pinned", "untrusted", "corrupt",
             "unpublished", "failed", "misuse"}
Wants == [manifest: Manifest \cup {NoManifest}, trust: {"trusted", "unsigned"}]
Answers == [manifest: Manifest \cup {NoManifest}, trust: Trust, fresh: BOOLEAN]
NoOffer == [q \in Platform |-> NoManifest]
NoWant == [manifest |-> NoManifest, trust |-> "trusted"]
NoAnswer == [manifest |-> NoManifest, trust |-> "absent", fresh |-> FALSE]

-----------------------------------------------------------------------------
(* The roots. *)

InRoots(m) == cache[m] # "absent" \/ system[m] # "absent"

(* list_verified_records(roots): the manifests with a record in some root. *)
Records == {m \in Manifest : InRoots(m)}

(* The cache comes before the system directories. *)
TrustOf(m) == IF cache[m] # "absent" THEN cache[m] ELSE system[m]

(* max() by (version, build): of equals, one of an earlier root. *)
Newest(ms) ==
    LET top == {m \in ms : \A n \in ms : Rank[n] <= Rank[m]}
        mine == {m \in top : cache[m] # "absent"}
    IN IF mine # {} THEN mine ELSE top

Answerable(o, ms) == {m \in ms : PlatformOf[m] = o.platform /\ m \in Within[o.request]}

(* _newer_installed: what the roots hold within the request, newer than m. *)
(* Mutant: the search forgets the request.                                  *)
NewerNever(o, m) == {}
NewerOfAnyLine(o, m) == {n \in Records : PlatformOf[n] = o.platform /\ Rank[n] > Rank[m]}
Newer(o, m) == {n \in Answerable(o, Records) : Rank[n] > Rank[m]}

(* read_verified_record at the manifest's own entry: the cache only. *)
Existing(o, m) == cache[m] # "absent" /\ PlatformOf[m] = o.platform

-----------------------------------------------------------------------------
(* The call. *)

Goto(p, label) == pc' = [pc EXCEPT ![p] = label]

(* The call ends; with anything but "ok" nothing is answered. *)
End(p, how) ==
    /\ outcome' = [outcome EXCEPT ![p] = how]
    /\ Goto(p, "idle")

Resolve(p, m, t, fresh) ==
    answer' = [answer EXCEPT ![p] = [manifest |-> m, trust |-> t, fresh |-> fresh]]

PinIn(file, o) == IF file = NoFile THEN NoPin ELSE file[<<o.request, o.platform>>]

(* _ensure: a pin is followed unless the call is offline or updates. *)
Follows(file, o) ==
    /\ ~o.offline
    /\ o.frozen \/ (~o.update /\ PinIn(file, o) # NoPin)

(* _maybe_write_lock writes for these. *)
Locks(o) == o.lockWrite \/ o.update

Begin(p, o) ==
    /\ pc[p] = "idle"
    /\ left[p] > 0
    /\ left' = [left EXCEPT ![p] = @ - 1]
    /\ call' = [call EXCEPT ![p] = o]
    /\ read' = [read EXCEPT ![p] = IF o.lockPath THEN lock ELSE NoFile]
    /\ offer' = [offer EXCEPT ![p] = NoOffer]
    /\ want' = [want EXCEPT ![p] = NoWant]
    /\ answer' = [answer EXCEPT ![p] = NoAnswer]
    /\ atStart' = [atStart EXCEPT ![p] = Records]
    /\ UNCHANGED <<cache, system, lock>>

(* load_lock raises for another schema or generation, whatever the call is. *)
BeginRefused(p, o) ==
    /\ Begin(p, o)
    /\ read'[p] = Refused
    /\ End(p, "pinned")

BeginOffline(p, o) ==
    /\ Begin(p, o)
    /\ read'[p] # Refused
    /\ o.offline
    /\ Goto(p, "search")
    /\ outcome' = [outcome EXCEPT ![p] = "none"]

(* --frozen without a lock, or without a pin in it. *)
BeginUnpinned(p, o) ==
    /\ Begin(p, o)
    /\ read'[p] # Refused
    /\ Follows(read'[p], o)
    /\ PinIn(read'[p], o) = NoPin
    /\ End(p, "pinned")

BeginFrozen(p, o) ==
    /\ Begin(p, o)
    /\ read'[p] # Refused
    /\ Follows(read'[p], o)
    /\ PinIn(read'[p], o) # NoPin
    /\ Goto(p, "frozen")
    /\ outcome' = [outcome EXCEPT ![p] = "none"]

BeginFloating(p, o) ==
    /\ Begin(p, o)
    /\ read'[p] # Refused
    /\ ~o.offline
    /\ ~Follows(read'[p], o)
    /\ Goto(p, "tag")
    /\ outcome' = [outcome EXCEPT ![p] = "none"]

-----------------------------------------------------------------------------
(* resolve_installed: the cache only. *)

(* A pre-seeded entry without a record is verified and unpacked first; one *)
(* that does not verify or unpack is passed over.                          *)
InstallSeeded(p) ==
    /\ pc[p] = "search"
    /\ \E m \in Seeded \cap Signed :
          /\ ~InRoots(m)
          /\ cache' = [cache EXCEPT ![m] = "trusted"]
    /\ UNCHANGED <<system, lock, pc, call, read, offer, want, answer, outcome, left, atStart>>

AnswerInstalled(p) ==
    /\ pc[p] = "search"
    /\ \E m \in Newest(Answerable(call[p], Records)) : Resolve(p, m, TrustOf(m), FALSE)
    /\ End(p, "ok")
    /\ UNCHANGED <<cache, system, lock, call, read, offer, want, left, atStart>>

AnswerMissing(p) ==
    /\ pc[p] = "search"
    /\ Answerable(call[p], Records) = {}
    /\ End(p, "missing")
    /\ UNCHANGED <<cache, system, lock, call, read, offer, want, answer, left, atStart>>

-----------------------------------------------------------------------------
(* _ensure_frozen: the pin, by digest. *)

PinOf(p) == PinIn(read[p], call[p])

(* Mutant: the newest installed build answers instead. *)
PinnedNewest(p) ==
    CHOOSE m \in Newest({PinOf(p).manifest} \cup Newer(call[p], PinOf(p).manifest)) : TRUE
PinnedManifest(p) == PinOf(p).manifest

(* A record under the pinned manifest answers; nothing else of it is compared. *)
UsePinned(p) ==
    /\ pc[p] = "frozen"
    /\ Existing(call[p], PinOf(p).manifest)
    /\ Resolve(p, PinnedManifest(p), TrustOf(PinnedManifest(p)), FALSE)
    /\ End(p, "ok")
    /\ UNCHANGED <<cache, system, lock, call, read, offer, want, left, atStart>>

(* _check_predicate_matches_request. *)
Matches(o, m) == PlatformOf[m] = o.platform /\ m \in Within[o.request]

PinVerdict(pin, o) ==
    CASE pin.agrees = "not layer"     -> "pinned"
      [] ~pin.bundled                 -> "corrupt"
      [] pin.manifest \notin Signed   -> "untrusted"
      [] ~Matches(o, pin.manifest)    -> "corrupt"
      [] pin.agrees = "not version"   -> "pinned"
      [] OTHER                        -> "ok"

FetchPinned(p) ==
    /\ pc[p] = "frozen"
    /\ ~Existing(call[p], PinOf(p).manifest)
    /\ PinVerdict(PinOf(p), call[p]) = "ok"
    /\ want' = [want EXCEPT ![p] = [manifest |-> PinOf(p).manifest, trust |-> "trusted"]]
    /\ Goto(p, "install")
    /\ UNCHANGED <<cache, system, lock, call, read, offer, answer, outcome, left, atStart>>

RefusePinned(p) ==
    /\ pc[p] = "frozen"
    /\ ~Existing(call[p], PinOf(p).manifest)
    /\ PinVerdict(PinOf(p), call[p]) # "ok"
    /\ End(p, PinVerdict(PinOf(p), call[p]))
    /\ UNCHANGED <<cache, system, lock, call, read, offer, want, answer, left, atStart>>

-----------------------------------------------------------------------------
(* _ensure_floating: the tag. *)

(* What the call will look at of the index: its own platform's manifest, and *)
(* with lockWrite the other platforms'.  A source may name anything.         *)
Indexes(o) ==
    {f \in [Platform -> Manifest \cup {NoManifest}] :
        \A q \in Platform : q # o.platform /\ ~o.lockWrite => f[q] = NoManifest}

ResolveTag(p) ==
    /\ pc[p] = "tag"
    /\ \E f \in Indexes(call[p]) :
          /\ f[call[p].platform] # NoManifest
          /\ offer' = [offer EXCEPT ![p] = f]
    /\ Goto(p, "offered")
    /\ UNCHANGED <<cache, system, lock, call, read, want, answer, outcome, left, atStart>>

(* No tag, or no such platform in its index. *)
Unpublished(p) ==
    /\ pc[p] = "tag"
    /\ End(p, "unpublished")
    /\ UNCHANGED <<cache, system, lock, call, read, offer, want, answer, left, atStart>>

(* The build is resolved: the lock is next, or the call is over. *)
Resolved(p, m, t, fresh) ==
    /\ Resolve(p, m, t, fresh)
    /\ IF Locks(call[p]) /\ ~Follows(read[p], call[p])
       THEN Goto(p, "lock") /\ UNCHANGED outcome
       ELSE End(p, "ok")

Offered(p) == offer[p][call[p].platform]

(* The offered build is installed: it answers, or a newer one within the     *)
(* request beside it.  The record is not checked against the request.        *)
UseExisting(p) ==
    /\ pc[p] = "offered"
    /\ Existing(call[p], Offered(p))
    /\ LET newer == Newer(call[p], Offered(p))
       IN \E m \in IF newer # {} THEN Newest(newer) ELSE {Offered(p)} :
             Resolved(p, m, TrustOf(m), FALSE)
    /\ UNCHANGED <<cache, system, lock, call, read, offer, want, left, atStart>>

(* _find_verified_signature found one, or none: there is none, or a referrer *)
(* could not be read and was passed over.                                    *)
Signature(m) == IF m \in Signed THEN {"trusted", "unsigned"} ELSE {"unsigned"}

(* Mutant: no signature is needed. *)
MayProceedAlways(o, t) == TRUE
MayProceed(o, t) == t = "trusted" \/ o.allowUnsigned

OfferVerdict(o, m, t) ==
    CASE ~MayProceed(o, t) -> "untrusted"
      [] ~Matches(o, m)    -> "corrupt"
      [] OTHER             -> "ok"

VerifyOffer(p) ==
    /\ pc[p] = "offered"
    /\ ~Existing(call[p], Offered(p))
    /\ \E t \in Signature(Offered(p)) :
          /\ OfferVerdict(call[p], Offered(p), t) = "ok"
          /\ want' = [want EXCEPT ![p] = [manifest |-> Offered(p), trust |-> t]]
    /\ Goto(p, "verified")
    /\ UNCHANGED <<cache, system, lock, call, read, offer, answer, outcome, left, atStart>>

RefuseOffer(p) ==
    /\ pc[p] = "offered"
    /\ ~Existing(call[p], Offered(p))
    /\ \E t \in Signature(Offered(p)) :
          /\ OfferVerdict(call[p], Offered(p), t) # "ok"
          /\ End(p, OfferVerdict(call[p], Offered(p), t))
    /\ UNCHANGED <<cache, system, lock, call, read, offer, want, answer, left, atStart>>

(* A newer build within the request is kept: the offered one is not installed. *)
KeepNewer(p) ==
    /\ pc[p] = "verified"
    /\ \E m \in Newest(Newer(call[p], want[p].manifest)) : Resolved(p, m, TrustOf(m), FALSE)
    /\ UNCHANGED <<cache, system, lock, call, read, offer, want, left, atStart>>

NothingNewer(p) ==
    /\ pc[p] = "verified"
    /\ Newer(call[p], want[p].manifest) = {}
    /\ Goto(p, "install")
    /\ UNCHANGED <<cache, system, lock, call, read, offer, want, answer, outcome, left, atStart>>

(* _unpack_and_install: an entry that is there already stays, whoever put it *)
(* there, and it is its record that answers.                                 *)
(* Mutant: the entry is replaced.                                            *)
Replaced(p) == want[p].trust
Installed(p) ==
    IF cache[want[p].manifest] = "absent" THEN want[p].trust ELSE cache[want[p].manifest]

Install(p) ==
    /\ pc[p] = "install"
    /\ cache' = [cache EXCEPT ![want[p].manifest] = Installed(p)]
    /\ Resolved(p, want[p].manifest, Installed(p), TRUE)
    /\ UNCHANGED <<system, lock, call, read, offer, want, left, atStart>>

-----------------------------------------------------------------------------
(* _maybe_write_lock. *)

(* The other platforms of the index, with lockWrite only. *)
Others(p) ==
    {q \in Platform \ {call[p].platform} : call[p].lockWrite /\ offer[p][q] # NoManifest}

(* Each of them needs a bundle of its own that verifies, allowed or not. *)
(* Mutant: their digests are taken as they are.                          *)
OthersTaken(p) == TRUE
OthersVerify(p) ==
    \A q \in Others(p) :
        /\ "trusted" \in Signature(offer[p][q])
        /\ Matches([call[p] EXCEPT !.platform = q], offer[p][q])

NewPin(m, t) == [manifest |-> m, agrees |-> "all", bundled |-> t = "trusted"]

Written(p) == {call[p].request} \X ({call[p].platform} \cup Others(p))

PinFor(p, q) ==
    IF q = call[p].platform THEN NewPin(answer[p].manifest, answer[p].trust)
    ELSE NewPin(offer[p][q], "trusted")

(* The lock as the call read it at its start, or a new one. *)
(* Mutant: a new one always.                                *)
BaseNew(p) == [k \in Key |-> NoPin]
Base(p) == IF read[p] = NoFile THEN [k \in Key |-> NoPin] ELSE read[p]

WriteLock(p) ==
    /\ pc[p] = "lock"
    /\ OthersVerify(p)
    /\ call[p].lockPath
    /\ lock' = [k \in Key |-> IF k \in Written(p) THEN PinFor(p, k[2]) ELSE Base(p)[k]]
    /\ End(p, "ok")
    /\ UNCHANGED <<cache, system, call, read, offer, want, answer, left, atStart>>

(* Another platform's bundle is not found, or is of something else: the *)
(* build stays installed, the call fails.                               *)
OtherRefused(p) ==
    /\ pc[p] = "lock"
    /\ \E q \in Others(p) :
          \/ "unsigned" \in Signature(offer[p][q]) /\ End(p, "untrusted")
          \/ ~Matches([call[p] EXCEPT !.platform = q], offer[p][q]) /\ End(p, "corrupt")
    /\ UNCHANGED <<cache, system, lock, call, read, offer, want, answer, left, atStart>>

(* There is no lock to write, which is found out last. *)
NoLockToWrite(p) ==
    /\ pc[p] = "lock"
    /\ OthersVerify(p)
    /\ ~call[p].lockPath
    /\ End(p, "misuse")
    /\ UNCHANGED <<cache, system, lock, call, read, offer, want, answer, left, atStart>>

-----------------------------------------------------------------------------

(* A source, the disk, or strict mode's check of the roots ends the call. *)
Fail(p) ==
    /\ pc[p] # "idle"
    /\ End(p, "failed")
    /\ UNCHANGED <<cache, system, lock, call, read, offer, want, answer, left, atStart>>

Step(p) ==
    \/ InstallSeeded(p)
    \/ AnswerInstalled(p)
    \/ AnswerMissing(p)
    \/ UsePinned(p)
    \/ FetchPinned(p)
    \/ RefusePinned(p)
    \/ ResolveTag(p)
    \/ Unpublished(p)
    \/ UseExisting(p)
    \/ VerifyOffer(p)
    \/ RefuseOffer(p)
    \/ KeepNewer(p)
    \/ NothingNewer(p)
    \/ Install(p)
    \/ WriteLock(p)
    \/ OtherRefused(p)
    \/ NoLockToWrite(p)
    \/ Fail(p)

Call(p) == \E o \in Options :
    \/ BeginRefused(p, o)
    \/ BeginOffline(p, o)
    \/ BeginUnpinned(p, o)
    \/ BeginFrozen(p, o)
    \/ BeginFloating(p, o)

(* Every process has made its calls. *)
Finished ==
    /\ \A p \in Process : pc[p] = "idle" /\ left[p] = 0
    /\ UNCHANGED vars

Init ==
    /\ cache = [m \in Manifest |-> "absent"]
    /\ system \in Systems
    /\ lock \in InitialLocks
    /\ pc = [p \in Process |-> "idle"]
    /\ call = [p \in Process |-> NoCall]
    /\ read = [p \in Process |-> NoFile]
    /\ offer = [p \in Process |-> NoOffer]
    /\ want = [p \in Process |-> NoWant]
    /\ answer = [p \in Process |-> NoAnswer]
    /\ outcome = [p \in Process |-> "none"]
    /\ left = [p \in Process |-> MaxCalls]
    /\ atStart = [p \in Process |-> {}]

Next == (\E p \in Process : Call(p) \/ Step(p)) \/ Finished

Spec == Init /\ [][Next]_vars

-----------------------------------------------------------------------------

TypeOK ==
    /\ cache \in [Manifest -> Trust]
    /\ system \in [Manifest -> Trust]
    /\ lock \in Lock \cup {NoFile, Refused}
    /\ pc \in [Process -> PCs]
    /\ call \in [Process -> Options \cup {NoCall}]
    /\ read \in [Process -> Lock \cup {NoFile, Refused}]
    /\ offer \in [Process -> [Platform -> Manifest \cup {NoManifest}]]
    /\ want \in [Process -> Wants]
    /\ answer \in [Process -> Answers]
    /\ outcome \in [Process -> Outcomes]
    /\ left \in [Process -> 0..MaxCalls]
    /\ atStart \in [Process -> SUBSET Manifest]

Answered(p) == outcome[p] = "ok"

(* An online call without a pin and an offline one never answer with an     *)
(* older build than one within the request that some root held when they    *)
(* began: a cache never goes backwards (fetch-v1.md section 9), whatever    *)
(* the tag names and whoever installs meanwhile.                            *)
NeverBackwards ==
    \A p \in Process :
        Answered(p) /\ ~Follows(read[p], call[p]) =>
            \A n \in Answerable(call[p], atStart[p]) : Rank[n] <= Rank[answer[p].manifest]

(* A call that follows a pin answers with the pinned build and no other,     *)
(* whatever is installed and whatever the tags name by then.                 *)
PinsFollowed ==
    \A p \in Process :
        Answered(p) /\ Follows(read[p], call[p]) =>
            answer[p].manifest = PinOf(p).manifest

(* An answer outside the request is a record the cache held already under    *)
(* the very manifest the tag or the pin named, of the right platform: what a *)
(* call downloads, finds newer or finds offline lies within its request.     *)
OutsideOnlyByName ==
    \A p \in Process :
        Answered(p) /\ ~Matches(call[p], answer[p].manifest) =>
            /\ PlatformOf[answer[p].manifest] = call[p].platform
            /\ ~answer[p].fresh
            /\ ~call[p].offline
            /\ answer[p].manifest \in {Offered(p)} \cup
                  (IF Follows(read[p], call[p]) THEN {PinOf(p).manifest} ELSE {})

(* A record comes into the cache trusted, for a manifest with a signature    *)
(* under a trusted key, or unsigned by a call that allows it: also when a    *)
(* call only reads back what another one installed (fetch-v1.md section 4).  *)
RecordsAreEarned ==
    [][\A m \in Manifest : cache[m] = "absent" /\ cache'[m] # "absent" =>
          \/ cache'[m] = "trusted" /\ m \in Signed
          \/ /\ cache'[m] = "unsigned"
             /\ \E p \in Process : pc[p] = "install" /\ call[p].allowUnsigned]_vars

(* A trusted record stands only for what has a trusted signature. *)
TrustedIsSigned ==
    \A m \in Manifest : cache[m] = "trusted" => m \in Signed

(* A pin changes or goes only by a call that was asked to write that pin, or *)
(* by one that read the lock before somebody else wrote it.                  *)
LostPinsWereStale ==
    [][\A k \in Key :
          lock \in Lock /\ lock[k] # NoPin /\ lock'[k] # lock[k] =>
              \E p \in Process : pc[p] = "lock" /\ (k \in Written(p) \/ read[p] # lock)]_vars

(* A pin some call wrote is one a --frozen call can follow into an empty     *)
(* cache, unless it was made from an unsigned record or from one outside the *)
(* request.                                                                  *)
PinsFollowable ==
    lock \in Lock => \A k \in Key :
        \/ lock[k] = NoPin
        \/ \E first \in InitialLocks : first \in Lock /\ lock[k] = first[k]
        \/ lock[k].manifest \notin Within[k[1]]
        \/ ~lock[k].bundled
        \/ \A o \in Options :
              <<o.request, o.platform>> = k => PinVerdict(lock[k], o) = "ok"

(* The entries of the cache keep their promise: a record is installed once    *)
(* and stands as it is, whichever calls find it, follow it or race for it.   *)
Entries == INSTANCE EntryOnce WITH
    Entry <- Manifest, Content <- {"trusted", "unsigned"}, Missing <- "absent",
    entries <- cache
EntriesStand == Entries!Spec

(* fetch-v1.md section 9: every resolution path answers only with a build    *)
(* whose signed version lies within the request.                             *)
AnswersWithinRequest ==
    \A p \in Process : Answered(p) => answer[p].manifest \in Within[call[p].request]
=============================================================================
