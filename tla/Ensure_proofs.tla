---------------------------- MODULE Ensure_proofs ----------------------------
(* Proofs about Ensure, for any processes, manifests, requests and sources. *)
EXTENDS Ensure, TLAPS

-----------------------------------------------------------------------------
(* The helpers. *)

LEMMA RootsType ==
  ASSUME TypeOK, NEW m \in Manifest
  PROVE  cache[m] \in Trust /\ system[m] \in Trust /\ TrustOf(m) \in Trust
  BY DEF TypeOK, TrustOf

LEMMA NewestTop ==
  ASSUME NEW ms \in SUBSET Manifest, NEW m \in Newest(ms)
  PROVE  m \in ms /\ \A n \in ms : Rank[n] <= Rank[m]
  BY DEF Newest

LEMMA OptionType ==
  ASSUME NEW o \in Options
  PROVE  /\ o \in Option
         /\ o.request \in Request /\ o.platform \in Platform
         /\ <<o.request, o.platform>> \in Key
  BY EnsureAssumption DEF Option, Key

LEMMA PinType ==
  ASSUME NEW o \in Options, NEW file \in Lock \cup {NoFile}
  PROVE  PinIn(file, o) \in Pin \cup {NoPin}
  BY OptionType DEF PinIn, Lock

LEMMA NewPinType ==
  ASSUME NEW m \in Manifest, NEW t
  PROVE  NewPin(m, t) \in Pin
<1>1. (t = "trusted") \in BOOLEAN
  OBVIOUS
<1>2. QED
  BY <1>1 DEF NewPin, Pin

-----------------------------------------------------------------------------
(* What a call knows at each point of its way. *)

Floating == {"tag", "offered", "verified", "lock"}

(* The build is the pinned one, or as new as what the roots held at the start. *)
Chosen(p, m) ==
    IF Follows(read[p], call[p]) THEN m = PinOf(p).manifest
    ELSE \A n \in Answerable(call[p], atStart[p]) : Rank[n] <= Rank[m]

AnswerOK(p) ==
    /\ answer[p].manifest \in Manifest
    /\ Chosen(p, answer[p].manifest)
    /\ ~Matches(call[p], answer[p].manifest) =>
          /\ PlatformOf[answer[p].manifest] = call[p].platform
          /\ ~answer[p].fresh
          /\ ~call[p].offline
          /\ answer[p].manifest \in {Offered(p)} \cup
                (IF Follows(read[p], call[p]) THEN {PinOf(p).manifest} ELSE {})

CallOK(p) ==
    /\ pc[p] # "idle" \/ Answered(p) =>
          /\ call[p] \in Options
          /\ read[p] \in Lock \cup {NoFile}
          /\ atStart[p] \subseteq Records
    /\ pc[p] # "idle" => outcome[p] = "none"
    /\ pc[p] = "search" => call[p].offline
    /\ pc[p] = "frozen" => Follows(read[p], call[p]) /\ PinOf(p) \in Pin
    /\ pc[p] \in Floating => ~Follows(read[p], call[p]) /\ ~call[p].offline
    /\ pc[p] = "offered" => Offered(p) \in Manifest
    /\ pc[p] \in {"verified", "install"} =>
          want[p].manifest \in Manifest /\ Matches(call[p], want[p].manifest)
    /\ pc[p] = "install" => ~call[p].offline /\ Chosen(p, want[p].manifest)
    /\ pc[p] = "lock" \/ Answered(p) => AnswerOK(p)

CallInv == \A p \in Process : CallOK(p)

-----------------------------------------------------------------------------
(* How a step of one call leaves the others. *)

(* Records stay as they are; a step may add one. *)
Grows ==
    /\ system' = system
    /\ \A m \in Manifest : cache[m] # "absent" => cache'[m] = cache[m]

Kept(q) ==
    /\ pc'[q] = pc[q] /\ call'[q] = call[q] /\ read'[q] = read[q]
    /\ offer'[q] = offer[q] /\ want'[q] = want[q] /\ answer'[q] = answer[q]
    /\ outcome'[q] = outcome[q] /\ atStart'[q] = atStart[q]

LEMMA RecordsGrow == ASSUME TypeOK, Grows PROVE Records \subseteq Records'
  BY DEF Grows, Records, InRoots

LEMMA OtherKept ==
  ASSUME TypeOK, Grows, NEW q \in Process, CallOK(q), Kept(q)
  PROVE  CallOK(q)'
<1>1. Records \subseteq Records'
  BY RecordsGrow
<1>2. /\ Answered(q)' <=> Answered(q)
      /\ PinOf(q)' = PinOf(q)
      /\ AnswerOK(q) => AnswerOK(q)'
      /\ Offered(q)' = Offered(q)
      /\ Chosen(q, want[q].manifest) => Chosen(q, want[q].manifest)'
  BY DEF Kept, Answered, PinOf, AnswerOK, Offered, Chosen
<1>3. QED
  BY <1>1, <1>2 DEF Kept, CallOK

(* A step of process p with q's variables left alone, for every q but p. *)
LEMMA OneMoves ==
  ASSUME TypeOK, CallInv, Grows, NEW p \in Process, CallOK(p)',
         \A q \in Process \ {p} : Kept(q)
  PROVE  CallInv'
<1>1. SUFFICES ASSUME NEW q \in Process, q # p PROVE CallOK(q)'
  BY DEF CallInv
<1>2. QED
  BY <1>1, OtherKept DEF CallInv

-----------------------------------------------------------------------------
(* The steps. *)

LEMMA BeginKeeps ==
  ASSUME TypeOK, CallInv, NEW p \in Process, NEW o \in Options, Begin(p, o),
         NEW label \in {"idle", "search", "frozen", "tag"}, Goto(p, label),
         NEW how \in Outcomes \ {"ok"}, outcome' = [outcome EXCEPT ![p] = how],
         label # "idle" => read'[p] # Refused /\ how = "none",
         label = "search" => o.offline,
         label = "frozen" => Follows(read'[p], o) /\ PinIn(read'[p], o) # NoPin,
         label = "tag" => ~Follows(read'[p], o) /\ ~o.offline
  PROVE  TypeOK' /\ CallInv' /\ Grows
<1>1. /\ pc'[p] = label /\ outcome'[p] = how /\ call'[p] = o
      /\ read'[p] \in Lock \cup {NoFile, Refused}
      /\ atStart'[p] = Records
      /\ cache' = cache /\ system' = system /\ lock' = lock
  BY DEF TypeOK, Begin, Goto
<1>2. Grows /\ Records' = Records
  BY <1>1 DEF Grows, Records, InRoots
<1>3. \A q \in Process \ {p} : Kept(q)
  BY DEF TypeOK, Begin, Goto, Kept
<1>4. CallOK(p)'
  <2>1. ~Answered(p)' /\ pc'[p] \notin {"offered", "verified", "install", "lock"}
    BY <1>1 DEF Answered
  <2>2. pc'[p] # "idle" => read'[p] \in Lock \cup {NoFile}
    BY <1>1
  <2>3. PinOf(p)' = PinIn(read'[p], o)
    BY <1>1 DEF PinOf
  <2>4. pc'[p] = "frozen" => PinOf(p)' \in Pin
    BY <1>1, <2>2, <2>3, PinType
  <2>5. QED
    BY <1>1, <1>2, <2>1, <2>2, <2>3, <2>4 DEF CallOK, Floating
<1>5. TypeOK'
  <2>1. /\ left' \in [Process -> 0..MaxCalls]
    BY EnsureAssumption DEF TypeOK, Begin
  <2>2. /\ NoOffer \in [Platform -> Manifest \cup {NoManifest}]
        /\ NoWant \in Wants /\ NoAnswer \in Answers
    BY DEF NoOffer, NoWant, Wants, NoAnswer, Answers, Trust
  <2>3. /\ offer' \in [Process -> [Platform -> Manifest \cup {NoManifest}]]
        /\ want' \in [Process -> Wants] /\ answer' \in [Process -> Answers]
    BY <2>2 DEF TypeOK, Begin
  <2>4. /\ pc' \in [Process -> PCs] /\ outcome' \in [Process -> Outcomes]
        /\ call' \in [Process -> Options \cup {NoCall}]
    BY DEF TypeOK, Begin, Goto, PCs, Outcomes
  <2>5. /\ read' \in [Process -> Lock \cup {NoFile, Refused}]
        /\ atStart' \in [Process -> SUBSET Manifest]
    BY DEF TypeOK, Begin, Records
  <2>6. QED
    BY <1>1, <2>1, <2>3, <2>4, <2>5 DEF TypeOK
<1>6. QED
  BY <1>2, <1>3, <1>4, <1>5, OneMoves

(* The call ends with an error. *)
LEMMA EndKeeps ==
  ASSUME TypeOK, CallInv, NEW p \in Process, pc[p] # "idle",
         NEW how \in Outcomes \ {"ok", "none"}, End(p, how),
         UNCHANGED <<cache, system, lock, call, read, offer, want, answer, left, atStart>>
  PROVE  TypeOK' /\ CallInv' /\ Grows
<1>1. TypeOK'
  BY DEF TypeOK, End, Goto, PCs
<1>2. Grows
  BY DEF Grows
<1>3. \A q \in Process \ {p} : Kept(q)
  BY DEF TypeOK, End, Goto, Kept
<1>4. CallOK(p)'
  BY DEF TypeOK, CallInv, CallOK, End, Goto, Answered, Floating
<1>5. QED
  BY <1>1, <1>2, <1>3, <1>4, OneMoves

(* The call goes on, and only its offer or its want changes. *)
LEMMA GoOnKeeps ==
  ASSUME TypeOK, CallInv, NEW p \in Process, pc[p] # "idle",
         NEW label \in {"offered", "verified", "install"}, Goto(p, label),
         offer' \in [Process -> [Platform -> Manifest \cup {NoManifest}]],
         want' \in [Process -> Wants],
         \A q \in Process \ {p} : offer'[q] = offer[q] /\ want'[q] = want[q],
         UNCHANGED <<cache, system, lock, call, read, answer, outcome, left, atStart>>,
         label \in {"offered", "verified"} => ~Follows(read[p], call[p]) /\ ~call[p].offline,
         label = "offered" => offer'[p][call[p].platform] \in Manifest,
         label \in {"verified", "install"} =>
             want'[p].manifest \in Manifest /\ Matches(call[p], want'[p].manifest),
         label = "install" => ~call[p].offline /\ Chosen(p, want'[p].manifest)
  PROVE  TypeOK' /\ CallInv' /\ Grows
<1>1. TypeOK'
  BY DEF TypeOK, Goto, PCs
<1>2. Grows
  BY DEF Grows
<1>3. \A q \in Process \ {p} : Kept(q)
  BY DEF TypeOK, Goto, Kept
<1>4. CallOK(p)'
  <2>1. Chosen(p, want[p].manifest)' <=> Chosen(p, want'[p].manifest)
    BY DEF Chosen, PinOf
  <2>2. /\ pc'[p] = label /\ outcome[p] = "none" /\ outcome'[p] = "none"
        /\ call'[p] = call[p] /\ read'[p] = read[p] /\ atStart'[p] = atStart[p]
        /\ call[p] \in Options /\ read[p] \in Lock \cup {NoFile}
        /\ atStart[p] \subseteq Records /\ Records' = Records
    BY DEF TypeOK, CallInv, CallOK, Goto, Records, InRoots
  <2>3. QED
    BY <2>1, <2>2 DEF CallOK, Answered, Floating, Offered
<1>5. QED
  BY <1>1, <1>2, <1>3, <1>4, OneMoves

(* The call is answered from the roots as they are. *)
LEMMA AnswerKeeps ==
  ASSUME TypeOK, CallInv, NEW p \in Process, pc[p] # "idle",
         NEW m \in Manifest, NEW t \in Trust, Resolve(p, m, t, FALSE),
         NEW label \in {"idle", "lock"}, Goto(p, label),
         IF label = "idle" THEN outcome' = [outcome EXCEPT ![p] = "ok"]
         ELSE outcome' = outcome /\ ~Follows(read[p], call[p]) /\ ~call[p].offline,
         UNCHANGED <<cache, system, lock, call, read, offer, want, left, atStart>>,
         Chosen(p, m),
         Matches(call[p], m)
            \/ /\ PlatformOf[m] = call[p].platform /\ ~call[p].offline
               /\ m \in {Offered(p)} \cup
                        (IF Follows(read[p], call[p]) THEN {PinOf(p).manifest} ELSE {})
  PROVE  TypeOK' /\ CallInv' /\ Grows
<1>1. answer' = [answer EXCEPT ![p] = [manifest |-> m, trust |-> t, fresh |-> FALSE]]
  BY DEF Resolve
<1>2. [manifest |-> m, trust |-> t, fresh |-> FALSE] \in Answers
  BY DEF Answers
<1>3. TypeOK'
  <2>1. answer' \in [Process -> Answers] /\ pc' \in [Process -> PCs]
    BY <1>1, <1>2 DEF TypeOK, Goto, PCs
  <2>2. outcome' \in [Process -> Outcomes]
    BY DEF TypeOK, Outcomes
  <2>3. QED
    BY <2>1, <2>2 DEF TypeOK
<1>4. Grows
  BY DEF Grows
<1>5. \A q \in Process \ {p} : Kept(q)
  BY <1>1 DEF TypeOK, Goto, Kept
<1>6. CallOK(p)'
  <2>1. /\ answer'[p].manifest = m /\ answer'[p].fresh = FALSE
        /\ call'[p] = call[p] /\ read'[p] = read[p] /\ offer'[p] = offer[p]
        /\ atStart'[p] = atStart[p] /\ pc'[p] = label
    BY <1>1 DEF TypeOK, Goto
  <2>2. Chosen(p, answer[p].manifest)'
    BY <2>1 DEF Chosen, PinOf
  <2>3. AnswerOK(p)'
    BY <2>1, <2>2 DEF AnswerOK, Offered, PinOf
  <2>4. /\ call[p] \in Options /\ read[p] \in Lock \cup {NoFile}
        /\ atStart[p] \subseteq Records /\ Records' = Records /\ outcome[p] = "none"
    BY DEF CallInv, CallOK, Records, InRoots
  <2>5. pc'[p] # "idle" => outcome'[p] = "none"
    BY <2>1, <2>4
  <2>6. QED
    BY <2>1, <2>3, <2>4, <2>5 DEF CallOK, Floating
<1>7. QED
  BY <1>3, <1>4, <1>5, <1>6, OneMoves

LEMMA SeededKeeps ==
  ASSUME TypeOK, CallInv, NEW p \in Process, InstallSeeded(p)
  PROVE  TypeOK' /\ CallInv' /\ Grows
<1>1. PICK m \in Seeded \cap Signed :
         ~InRoots(m) /\ cache' = [cache EXCEPT ![m] = "trusted"]
  BY DEF InstallSeeded
<1>2. TypeOK'
  BY <1>1 DEF TypeOK, InstallSeeded, Trust
<1>3. Grows
  BY <1>1 DEF TypeOK, Grows, InRoots, InstallSeeded
<1>4. \A q \in Process : Kept(q)
  BY DEF InstallSeeded, Kept
<1>5. QED
  BY <1>2, <1>3, <1>4, OtherKept DEF CallInv

LEMMA InstallKeeps ==
  ASSUME TypeOK, CallInv, NEW p \in Process, Install(p)
  PROVE  TypeOK' /\ CallInv' /\ Grows
<1> DEFINE m == want[p].manifest
           t == Installed(p)
           locks == Locks(call[p]) /\ ~Follows(read[p], call[p])
<1>1. /\ m \in Manifest /\ Matches(call[p], m) /\ Chosen(p, m)
      /\ ~call[p].offline
      /\ call[p] \in Options /\ read[p] \in Lock \cup {NoFile}
      /\ atStart[p] \subseteq Records /\ outcome[p] = "none" /\ pc[p] = "install"
  BY DEF Install, CallInv, CallOK
<1>2. t \in {"trusted", "unsigned"}
  BY <1>1 DEF Installed, TypeOK, Wants, Trust
<1>3. /\ cache' = [cache EXCEPT ![m] = t]
      /\ answer' = [answer EXCEPT ![p] = [manifest |-> m, trust |-> t, fresh |-> TRUE]]
      /\ UNCHANGED <<system, lock, call, read, offer, want, left, atStart>>
  BY DEF Install, Resolved, Resolve
<1>4. IF locks THEN pc' = [pc EXCEPT ![p] = "lock"] /\ outcome' = outcome
      ELSE pc' = [pc EXCEPT ![p] = "idle"] /\ outcome' = [outcome EXCEPT ![p] = "ok"]
  BY DEF Install, Resolved, Goto, End
<1>5. TypeOK'
  <2>1. [manifest |-> m, trust |-> t, fresh |-> TRUE] \in Answers
    BY <1>1, <1>2 DEF Answers, Trust
  <2>2. cache' \in [Manifest -> Trust] /\ answer' \in [Process -> Answers]
    BY <1>2, <1>3, <2>1 DEF TypeOK, Trust
  <2>3. pc' \in [Process -> PCs] /\ outcome' \in [Process -> Outcomes]
    BY <1>4 DEF TypeOK, PCs, Outcomes
  <2>4. QED
    BY <1>3, <2>2, <2>3 DEF TypeOK
<1>6. Grows
  BY <1>1, <1>3 DEF TypeOK, Grows, Installed
<1>7. \A q \in Process \ {p} : Kept(q)
  BY <1>3, <1>4 DEF TypeOK, Kept
<1>8. CallOK(p)'
  <2>1. /\ answer'[p].manifest = m
        /\ call'[p] = call[p] /\ read'[p] = read[p] /\ atStart'[p] = atStart[p]
    BY <1>3 DEF TypeOK
  <2>2. Chosen(p, answer[p].manifest)'
    BY <1>1, <2>1 DEF Chosen, PinOf
  <2>3. AnswerOK(p)'
    BY <1>1, <2>1, <2>2 DEF AnswerOK
  <2>4. atStart'[p] \subseteq Records'
    BY <1>1, <1>6, <2>1, RecordsGrow
  <2>5. CASE locks
    <3>1. pc'[p] = "lock" /\ outcome'[p] = "none"
      BY <1>1, <1>4, <2>5 DEF TypeOK
    <3>2. QED
      BY <1>1, <2>1, <2>3, <2>4, <2>5, <3>1 DEF CallOK, Floating
  <2>6. CASE ~locks
    <3>1. pc'[p] = "idle" /\ outcome'[p] = "ok"
      BY <1>4, <2>6 DEF TypeOK
    <3>2. QED
      BY <1>1, <2>1, <2>3, <2>4, <3>1 DEF CallOK, Floating
  <2>7. QED
    BY <2>5, <2>6
<1>9. QED
  BY <1>5, <1>6, <1>7, <1>8, OneMoves

LEMMA WriteKeeps ==
  ASSUME TypeOK, CallInv, NEW p \in Process, WriteLock(p)
  PROVE  TypeOK' /\ CallInv' /\ Grows
<1>1. /\ call[p] \in Options /\ read[p] \in Lock \cup {NoFile}
      /\ answer[p].manifest \in Manifest /\ AnswerOK(p)
      /\ pc[p] = "lock" /\ atStart[p] \subseteq Records
  BY DEF WriteLock, CallInv, CallOK, AnswerOK
<1>2. Base(p) \in Lock
  BY <1>1 DEF Base, Lock
<1>3. \A k \in Written(p) : PinFor(p, k[2]) \in Pin
  <2>1. \A q \in Others(p) : offer[p][q] \in Manifest
    BY DEF Others, TypeOK
  <2>2. \A q \in {call[p].platform} \cup Others(p) : PinFor(p, q) \in Pin
    BY <1>1, <2>1, NewPinType DEF PinFor
  <2>3. QED
    BY <2>2 DEF Written
<1>4. lock' \in Lock
  BY <1>2, <1>3 DEF WriteLock, Lock
<1>5. TypeOK'
  BY <1>4 DEF TypeOK, WriteLock, End, Goto, PCs, Outcomes
<1>6. Grows
  BY DEF Grows, WriteLock
<1>7. \A q \in Process \ {p} : Kept(q)
  BY DEF TypeOK, WriteLock, End, Goto, Kept
<1>8. CallOK(p)'
  <2>1. pc'[p] = "idle" /\ outcome'[p] = "ok"
    BY DEF TypeOK, WriteLock, End, Goto
  <2>2. UNCHANGED <<cache, system, call, read, offer, want, answer, atStart>>
    BY DEF WriteLock
  <2>3. AnswerOK(p)' /\ Records' = Records
    BY <1>1, <2>2 DEF AnswerOK, Chosen, PinOf, Offered, Records, InRoots
  <2>4. QED
    BY <1>1, <2>1, <2>2, <2>3 DEF CallOK, Floating
<1>9. QED
  BY <1>5, <1>6, <1>7, <1>8, OneMoves
-----------------------------------------------------------------------------
(* The roots, searched. *)

LEMMA NewerType ==
  ASSUME NEW o, NEW m
  PROVE  /\ Newer(o, m) \in SUBSET Manifest
         /\ \A n \in Newer(o, m) : Matches(o, n) /\ Rank[n] > Rank[m]
  BY DEF Newer, Answerable, Records, Matches

LEMMA NewestIn ==
  ASSUME NEW ms \in SUBSET Manifest
  PROVE  Newest(ms) \subseteq ms
  BY DEF Newest

(* What is newest of the newer ones is as new as all that was there before. *)
LEMMA NewestNewerChosen ==
  ASSUME TypeOK, CallInv, NEW p \in Process, pc[p] # "idle",
         ~Follows(read[p], call[p]), NEW w \in Manifest,
         NEW m \in Newest(Newer(call[p], w))
  PROVE  Chosen(p, m) /\ m \in Manifest /\ Matches(call[p], m)
<1>1. Newer(call[p], w) \in SUBSET Manifest
  BY NewerType
<1>2. /\ m \in Newer(call[p], w)
      /\ \A n \in Newer(call[p], w) : Rank[n] <= Rank[m]
  BY <1>1, NewestTop
<1>3. m \in Manifest /\ Matches(call[p], m) /\ Rank[m] > Rank[w]
  BY <1>1, <1>2, NewerType
<1>4. atStart[p] \subseteq Records
  BY DEF CallInv, CallOK
<1>5. ASSUME NEW n \in Answerable(call[p], atStart[p]) PROVE Rank[n] <= Rank[m]
  <2>1. n \in Answerable(call[p], Records) /\ n \in Manifest
    BY <1>4, <1>5 DEF Answerable, Records
  <2>2. CASE Rank[n] > Rank[w]
    BY <1>2, <2>1, <2>2 DEF Newer
  <2>3. CASE ~(Rank[n] > Rank[w])
    BY <1>3, <2>1, <2>3, EnsureAssumption
  <2>4. QED
    BY <2>2, <2>3
<1>6. QED
  BY <1>3, <1>5 DEF Chosen

LEMMA NoNewerChosen ==
  ASSUME TypeOK, CallInv, NEW p \in Process, pc[p] # "idle",
         ~Follows(read[p], call[p]), NEW w \in Manifest, Newer(call[p], w) = {}
  PROVE  Chosen(p, w)
<1>1. atStart[p] \subseteq Records
  BY DEF CallInv, CallOK
<1>2. ASSUME NEW n \in Answerable(call[p], atStart[p]) PROVE Rank[n] <= Rank[w]
  <2>1. n \in Answerable(call[p], Records) /\ n \in Manifest
    BY <1>1, <1>2 DEF Answerable, Records
  <2>2. ~(Rank[n] > Rank[w])
    BY <2>1 DEF Newer
  <2>3. QED
    BY <2>1, <2>2, EnsureAssumption
<1>3. QED
  BY <1>2 DEF Chosen

LEMMA InstalledChosen ==
  ASSUME TypeOK, CallInv, NEW p \in Process, pc[p] # "idle",
         ~Follows(read[p], call[p]), NEW m \in Newest(Answerable(call[p], Records))
  PROVE  Chosen(p, m) /\ m \in Manifest /\ Matches(call[p], m)
<1>1. Answerable(call[p], Records) \in SUBSET Manifest
  BY DEF Answerable, Records
<1>2. /\ m \in Answerable(call[p], Records)
      /\ \A n \in Answerable(call[p], Records) : Rank[n] <= Rank[m]
  BY <1>1, NewestTop
<1>3. atStart[p] \subseteq Records
  BY DEF CallInv, CallOK
<1>4. QED
  BY <1>1, <1>2, <1>3 DEF Chosen, Answerable, Matches

-----------------------------------------------------------------------------
(* The actions. *)

LEMMA CallKeeps ==
  ASSUME TypeOK, CallInv, NEW p \in Process, Call(p)
  PROVE  TypeOK' /\ CallInv' /\ Grows
<1>1. PICK o \in Options :
         \/ BeginRefused(p, o) \/ BeginOffline(p, o) \/ BeginUnpinned(p, o)
         \/ BeginFrozen(p, o) \/ BeginFloating(p, o)
  BY DEF Call
<1>2. /\ "pinned" \in Outcomes \ {"ok"} /\ "none" \in Outcomes \ {"ok"}
  BY DEF Outcomes
<1>3. CASE BeginRefused(p, o)
  BY <1>2, <1>3, BeginKeeps DEF BeginRefused, End
<1>4. CASE BeginOffline(p, o)
  BY <1>2, <1>4, BeginKeeps DEF BeginOffline
<1>5. CASE BeginUnpinned(p, o)
  BY <1>2, <1>5, BeginKeeps DEF BeginUnpinned, End
<1>6. CASE BeginFrozen(p, o)
  BY <1>2, <1>6, BeginKeeps DEF BeginFrozen
<1>7. CASE BeginFloating(p, o)
  BY <1>2, <1>7, BeginKeeps DEF BeginFloating
<1>8. QED
  BY <1>1, <1>3, <1>4, <1>5, <1>6, <1>7

LEMMA ResolvedKeeps ==
  ASSUME TypeOK, CallInv, NEW p \in Process, pc[p] \in {"offered", "verified"},
         NEW m \in Manifest, Resolved(p, m, TrustOf(m), FALSE),
         UNCHANGED <<cache, system, lock, call, read, offer, want, left, atStart>>,
         Chosen(p, m),
         Matches(call[p], m) \/ (m = Offered(p) /\ PlatformOf[m] = call[p].platform)
  PROVE  TypeOK' /\ CallInv' /\ Grows
<1>1. ~Follows(read[p], call[p]) /\ ~call[p].offline
  BY DEF CallInv, CallOK, Floating
<1>2. TrustOf(m) \in Trust
  BY RootsType
<1>3. Resolve(p, m, TrustOf(m), FALSE)
  BY DEF Resolved
<1>4. CASE Locks(call[p])
  <2>1. Goto(p, "lock") /\ outcome' = outcome
    BY <1>1, <1>4 DEF Resolved
  <2>2. QED
    BY <1>1, <1>2, <1>3, <2>1, AnswerKeeps
<1>5. CASE ~Locks(call[p])
  <2>1. Goto(p, "idle") /\ outcome' = [outcome EXCEPT ![p] = "ok"]
    BY <1>5 DEF Resolved, End
  <2>2. QED
    BY <1>1, <1>2, <1>3, <2>1, AnswerKeeps
<1>6. QED
  BY <1>4, <1>5

LEMMA SearchKeeps ==
  ASSUME TypeOK, CallInv, NEW p \in Process, AnswerInstalled(p)
  PROVE  TypeOK' /\ CallInv' /\ Grows
<1>1. PICK m \in Newest(Answerable(call[p], Records)) : Resolve(p, m, TrustOf(m), FALSE)
  BY DEF AnswerInstalled
<1>2. pc[p] = "search" /\ call[p].offline
  BY DEF AnswerInstalled, CallInv, CallOK
<1>3. ~Follows(read[p], call[p])
  BY <1>2 DEF Follows
<1>4. Chosen(p, m) /\ m \in Manifest /\ Matches(call[p], m)
  BY <1>2, <1>3, InstalledChosen
<1>5. TrustOf(m) \in Trust
  BY <1>4, RootsType
<1>6. QED
  BY <1>1, <1>2, <1>4, <1>5, AnswerKeeps DEF AnswerInstalled, End

LEMMA PinnedKeeps ==
  ASSUME TypeOK, CallInv, NEW p \in Process, UsePinned(p) \/ FetchPinned(p)
  PROVE  TypeOK' /\ CallInv' /\ Grows
<1> DEFINE m == PinOf(p).manifest
<1>1. /\ pc[p] = "frozen" /\ Follows(read[p], call[p]) /\ m \in Manifest
      /\ ~call[p].offline /\ Chosen(p, m)
  BY DEF UsePinned, FetchPinned, CallInv, CallOK, Follows, Pin, Chosen
<1>2. CASE UsePinned(p)
  <2>1. TrustOf(m) \in Trust
    BY <1>1, RootsType
  <2>2. Resolve(p, m, TrustOf(m), FALSE) /\ PlatformOf[m] = call[p].platform
    BY <1>2 DEF UsePinned, PinnedManifest, Existing
  <2>3. QED
    BY <1>1, <1>2, <2>1, <2>2, AnswerKeeps DEF UsePinned, End
<1>3. CASE FetchPinned(p)
  <2>1. Matches(call[p], m)
    BY <1>3 DEF FetchPinned, PinVerdict
  <2>2. want' = [want EXCEPT ![p] = [manifest |-> m, trust |-> "trusted"]]
    BY <1>3 DEF FetchPinned
  <2>3. [manifest |-> m, trust |-> "trusted"] \in Wants
    BY <1>1 DEF Wants
  <2>4. want' \in [Process -> Wants] /\ want'[p].manifest = m
    BY <2>2, <2>3 DEF TypeOK
  <2>5. \A q \in Process \ {p} : want'[q] = want[q]
    BY <2>2 DEF TypeOK
  <2>6. offer' = offer /\ offer' \in [Process -> [Platform -> Manifest \cup {NoManifest}]]
    BY <1>3 DEF FetchPinned, TypeOK
  <2>7. QED
    BY <1>1, <1>3, <2>1, <2>4, <2>5, <2>6, GoOnKeeps DEF FetchPinned
<1>4. QED
  BY <1>2, <1>3

LEMMA TagKeeps ==
  ASSUME TypeOK, CallInv, NEW p \in Process, ResolveTag(p)
  PROVE  TypeOK' /\ CallInv' /\ Grows
<1>1. pc[p] = "tag" /\ ~Follows(read[p], call[p]) /\ ~call[p].offline
  BY DEF ResolveTag, CallInv, CallOK, Floating
<1>2. PICK f \in Indexes(call[p]) :
         f[call[p].platform] # NoManifest /\ offer' = [offer EXCEPT ![p] = f]
  BY DEF ResolveTag
<1>3. f \in [Platform -> Manifest \cup {NoManifest}] /\ call[p].platform \in Platform
  BY <1>1, OptionType DEF Indexes, CallInv, CallOK
<1>4. /\ offer' \in [Process -> [Platform -> Manifest \cup {NoManifest}]]
      /\ offer'[p][call[p].platform] \in Manifest
      /\ \A q \in Process \ {p} : offer'[q] = offer[q]
  BY <1>2, <1>3 DEF TypeOK
<1>5. want' = want /\ want' \in [Process -> Wants]
  BY DEF ResolveTag, TypeOK
<1>6. QED
  BY <1>1, <1>4, <1>5, GoOnKeeps DEF ResolveTag

LEMMA ExistingKeeps ==
  ASSUME TypeOK, CallInv, NEW p \in Process, UseExisting(p)
  PROVE  TypeOK' /\ CallInv' /\ Grows
<1> DEFINE newer == Newer(call[p], Offered(p))
<1>1. /\ pc[p] = "offered" /\ ~Follows(read[p], call[p])
      /\ Offered(p) \in Manifest /\ PlatformOf[Offered(p)] = call[p].platform
  BY DEF UseExisting, CallInv, CallOK, Floating, Existing
<1>2. PICK m \in IF newer # {} THEN Newest(newer) ELSE {Offered(p)} :
         Resolved(p, m, TrustOf(m), FALSE)
  BY DEF UseExisting
<1>6. UNCHANGED <<cache, system, lock, call, read, offer, want, left, atStart>>
  BY DEF UseExisting
<1>3. CASE newer # {}
  <2>1. Chosen(p, m) /\ m \in Manifest /\ Matches(call[p], m)
    BY <1>1, <1>2, <1>3, NewestNewerChosen
  <2>2. pc[p] \in {"offered", "verified"}
    BY <1>1
  <2>3. QED
    BY <1>2, <1>6, <2>1, <2>2, ResolvedKeeps DEF Matches
<1>4. CASE newer = {}
  <2>1. Chosen(p, Offered(p))
    BY <1>1, <1>4, NoNewerChosen
  <2>2. QED
    BY <1>1, <1>2, <1>4, <2>1, ResolvedKeeps DEF UseExisting
<1>5. QED
  BY <1>3, <1>4

LEMMA VerifyKeeps ==
  ASSUME TypeOK, CallInv, NEW p \in Process, VerifyOffer(p)
  PROVE  TypeOK' /\ CallInv' /\ Grows
<1>1. /\ pc[p] = "offered" /\ ~Follows(read[p], call[p]) /\ ~call[p].offline
      /\ Offered(p) \in Manifest
  BY DEF VerifyOffer, CallInv, CallOK, Floating
<1>2. PICK t \in Signature(Offered(p)) :
         /\ OfferVerdict(call[p], Offered(p), t) = "ok"
         /\ want' = [want EXCEPT ![p] = [manifest |-> Offered(p), trust |-> t]]
  BY DEF VerifyOffer
<1>3. t \in {"trusted", "unsigned"}
  BY DEF Signature
<1>4. Matches(call[p], Offered(p))
  BY <1>2 DEF OfferVerdict
<1>5. [manifest |-> Offered(p), trust |-> t] \in Wants
  BY <1>1, <1>3 DEF Wants
<1>6. /\ want' \in [Process -> Wants] /\ want'[p].manifest = Offered(p)
      /\ \A q \in Process \ {p} : want'[q] = want[q]
  BY <1>2, <1>5 DEF TypeOK
<1>7. offer' = offer /\ offer' \in [Process -> [Platform -> Manifest \cup {NoManifest}]]
  BY DEF VerifyOffer, TypeOK
<1>8. QED
  BY <1>1, <1>4, <1>6, <1>7, GoOnKeeps DEF VerifyOffer

LEMMA NewerKeeps ==
  ASSUME TypeOK, CallInv, NEW p \in Process, KeepNewer(p) \/ NothingNewer(p)
  PROVE  TypeOK' /\ CallInv' /\ Grows
<1>1. /\ pc[p] = "verified" /\ ~Follows(read[p], call[p]) /\ ~call[p].offline
      /\ want[p].manifest \in Manifest /\ Matches(call[p], want[p].manifest)
  BY DEF KeepNewer, NothingNewer, CallInv, CallOK, Floating
<1>2. CASE KeepNewer(p)
  <2>1. PICK m \in Newest(Newer(call[p], want[p].manifest)) : Resolved(p, m, TrustOf(m), FALSE)
    BY <1>2 DEF KeepNewer
  <2>2. Chosen(p, m) /\ m \in Manifest /\ Matches(call[p], m)
    BY <1>1, <2>1, NewestNewerChosen
  <2>3. UNCHANGED <<cache, system, lock, call, read, offer, want, left, atStart>>
    BY <1>2 DEF KeepNewer
  <2>4. pc[p] \in {"offered", "verified"}
    BY <1>1
  <2>5. QED
    BY <2>1, <2>2, <2>3, <2>4, ResolvedKeeps DEF Matches
<1>3. CASE NothingNewer(p)
  <2>1. Chosen(p, want[p].manifest)
    BY <1>1, <1>3, NoNewerChosen DEF NothingNewer
  <2>2. /\ want' = want /\ want' \in [Process -> Wants]
        /\ offer' = offer /\ offer' \in [Process -> [Platform -> Manifest \cup {NoManifest}]]
    BY <1>3 DEF NothingNewer, TypeOK
  <2>3. QED
    BY <1>1, <1>3, <2>1, <2>2, GoOnKeeps DEF NothingNewer
<1>4. QED
  BY <1>2, <1>3

(* Every way for a call to end with an error. *)
LEMMA FailureKeeps ==
  ASSUME TypeOK, CallInv, NEW p \in Process,
         \/ AnswerMissing(p) \/ RefusePinned(p) \/ Unpublished(p) \/ RefuseOffer(p)
         \/ OtherRefused(p) \/ NoLockToWrite(p) \/ Fail(p)
  PROVE  TypeOK' /\ CallInv' /\ Grows
<1>1. {"missing", "pinned", "untrusted", "corrupt", "unpublished", "failed", "misuse"}
         \subseteq Outcomes \ {"ok", "none"}
  BY DEF Outcomes
<1>2. /\ pc[p] # "idle"
      /\ UNCHANGED <<cache, system, lock, call, read, offer, want, answer, left, atStart>>
  BY DEF AnswerMissing, RefusePinned, Unpublished, RefuseOffer, OtherRefused, NoLockToWrite, Fail
<1>3. CASE RefusePinned(p)
  BY <1>1, <1>2, <1>3, EndKeeps DEF RefusePinned, PinVerdict
<1>4. CASE RefuseOffer(p)
  <2>1. PICK t \in Signature(Offered(p)) :
           /\ OfferVerdict(call[p], Offered(p), t) # "ok"
           /\ End(p, OfferVerdict(call[p], Offered(p), t))
    BY <1>4 DEF RefuseOffer
  <2>2. QED
    BY <1>1, <1>2, <2>1, EndKeeps DEF OfferVerdict
<1>5. CASE OtherRefused(p)
  BY <1>1, <1>2, <1>5, EndKeeps DEF OtherRefused
<1>6. CASE AnswerMissing(p) \/ Unpublished(p) \/ NoLockToWrite(p) \/ Fail(p)
  BY <1>1, <1>2, <1>6, EndKeeps DEF AnswerMissing, Unpublished, NoLockToWrite, Fail
<1>7. QED
  BY <1>3, <1>4, <1>5, <1>6

LEMMA NextKeeps ==
  ASSUME TypeOK, CallInv, [Next]_vars
  PROVE  TypeOK' /\ CallInv' /\ Grows
<1>1. CASE UNCHANGED vars
  <2>1. TypeOK' /\ Grows
    BY <1>1 DEF vars, TypeOK, Grows
  <2>2. \A q \in Process : Kept(q)
    BY <1>1 DEF vars, Kept
  <2>3. QED
    BY <2>1, <2>2, OtherKept DEF CallInv
<1>2. CASE Next
  <2>1. CASE \E p \in Process : Call(p) \/ Step(p)
    <3>1. PICK p \in Process : Call(p) \/ Step(p)
      BY <2>1
    <3>2. CASE Call(p)
      BY <3>2, CallKeeps
    <3>3. CASE Step(p)
      BY <3>3, SeededKeeps, SearchKeeps, PinnedKeeps, TagKeeps, ExistingKeeps, VerifyKeeps,
         NewerKeeps, InstallKeeps, WriteKeeps, FailureKeeps, Zenon DEF Step
    <3>4. QED
      BY <3>1, <3>2, <3>3
  <2>2. CASE Finished
    BY <1>1, <2>2 DEF Finished
  <2>3. QED
    BY <1>2, <2>1, <2>2 DEF Next
<1>3. QED
  BY <1>1, <1>2

LEMMA InitHolds == Init => TypeOK /\ CallInv
<1> SUFFICES ASSUME Init PROVE TypeOK /\ CallInv
  OBVIOUS
<1>1. /\ NoOffer \in [Platform -> Manifest \cup {NoManifest}]
      /\ NoWant \in Wants /\ NoAnswer \in Answers
  BY DEF NoOffer, NoWant, Wants, NoAnswer, Answers, Trust
<1>2. TypeOK
  BY <1>1, EnsureAssumption DEF Init, TypeOK, Trust, PCs, Outcomes
<1>3. CallInv
  BY DEF Init, CallInv, CallOK, Answered, Floating
<1>4. QED
  BY <1>2, <1>3

(* The types, and what a call knows at each place of its path. *)
THEOREM Invariants == Spec => [](TypeOK /\ CallInv)
<1>1. TypeOK /\ CallInv /\ [Next]_vars => (TypeOK /\ CallInv)'
  BY NextKeeps
<1>2. QED
  BY <1>1, InitHolds, PTL DEF Spec

-----------------------------------------------------------------------------
(* What follows from the invariants. *)

(* Every variable keeps its type. *)
THEOREM TypeCorrect == Spec => []TypeOK
  BY Invariants, PTL

(* No answer is older than what the roots held within the request when the *)
(* call began, unless the call follows a pin.                              *)
THEOREM CacheNeverBackwards == Spec => []NeverBackwards
<1>1. CallInv => NeverBackwards
  BY DEF CallInv, CallOK, AnswerOK, Chosen, NeverBackwards
<1>2. QED
  BY <1>1, Invariants, PTL

(* A call that follows a pin answers with the pinned build. *)
THEOREM PinsAreFollowed == Spec => []PinsFollowed
<1>1. CallInv => PinsFollowed
  BY DEF CallInv, CallOK, AnswerOK, Chosen, PinsFollowed
<1>2. QED
  BY <1>1, Invariants, PTL

(* Outside the request lies only what a tag or a pin names and the cache held. *)
THEOREM OutsideByNameOnly == Spec => []OutsideOnlyByName
<1>1. CallInv => OutsideOnlyByName
  BY DEF CallInv, CallOK, AnswerOK, OutsideOnlyByName
<1>2. QED
  BY <1>1, Invariants, PTL

-----------------------------------------------------------------------------
(* The entries: a step installs one, or leaves all of them. *)

LEMMA EntryMoves ==
  ASSUME [Next]_vars, cache' # cache
  PROVE  \E p \in Process : InstallSeeded(p) \/ Install(p)
<1>1. PICK p \in Process : Call(p) \/ Step(p)
  BY DEF Next, Finished, vars
<1>2. ~Call(p)
  BY DEF Call, Begin, BeginRefused, BeginOffline, BeginUnpinned, BeginFrozen, BeginFloating
<1>3. ~(\/ AnswerInstalled(p) \/ AnswerMissing(p) \/ UsePinned(p) \/ FetchPinned(p)
        \/ RefusePinned(p) \/ ResolveTag(p) \/ Unpublished(p) \/ UseExisting(p))
  BY DEF AnswerInstalled, AnswerMissing, UsePinned, FetchPinned,
         RefusePinned, ResolveTag, Unpublished, UseExisting
<1>4. ~(\/ VerifyOffer(p) \/ RefuseOffer(p) \/ KeepNewer(p) \/ NothingNewer(p)
        \/ WriteLock(p) \/ OtherRefused(p) \/ NoLockToWrite(p) \/ Fail(p))
  BY DEF VerifyOffer, RefuseOffer, KeepNewer, NothingNewer,
         WriteLock, OtherRefused, NoLockToWrite, Fail
<1>5. QED
  BY <1>1, <1>2, <1>3, <1>4, Zenon DEF Step

LEMMA EntryStep ==
  ASSUME TypeOK, CallInv, [Next]_vars
  PROVE  [Entries!Next]_cache
<1>1. SUFFICES ASSUME cache' # cache PROVE Entries!Next
  OBVIOUS
<1>2. PICK p \in Process : InstallSeeded(p) \/ Install(p)
  BY <1>1, EntryMoves
<1>3. \E m \in Manifest, t \in {"trusted", "unsigned"} : Entries!Install(m, t)
  <2>1. CASE InstallSeeded(p)
    BY <2>1, EnsureAssumption DEF InstallSeeded, InRoots, Entries!Install
  <2>2. CASE Install(p)
    <3>1. /\ want[p].manifest \in Manifest /\ want[p].trust \in {"trusted", "unsigned"}
          /\ cache' = [cache EXCEPT ![want[p].manifest] = Installed(p)]
      BY <2>2 DEF Install, CallInv, CallOK, TypeOK, Wants
    <3>2. cache[want[p].manifest] = "absent" /\ Installed(p) = want[p].trust
      BY <1>1, <3>1 DEF Installed, TypeOK
    <3>3. QED
      BY <3>1, <3>2 DEF Entries!Install
  <2>3. QED
    BY <1>2, <2>1, <2>2
<1>4. QED
  BY <1>3 DEF Entries!Next

(* However many calls find, follow or race for an entry, its record is *)
(* installed once and stands: the cache implements EntryOnce.          *)
THEOREM EntriesAreInstalledOnce == Spec => EntriesStand
<1>1. Init => Entries!Init
  BY DEF Init, Entries!Init
<1>2. TypeOK /\ CallInv /\ [Next]_vars => [Entries!Next]_cache
  BY EntryStep
<1>3. QED
  BY <1>1, <1>2, Invariants, PTL DEF Spec, EntriesStand, Entries!Spec

-----------------------------------------------------------------------------
(* What the lock loses. *)

LEMMA LockStep ==
  ASSUME NEW k \in Key, [Next]_vars, lock \in Lock, lock[k] # NoPin, lock'[k] # lock[k]
  PROVE  \E p \in Process : pc[p] = "lock" /\ (k \in Written(p) \/ read[p] # lock)
<1>1. PICK p \in Process : Call(p) \/ Step(p)
  BY DEF Next, Finished, vars
<1>2. ~Call(p)
  BY DEF Call, Begin, BeginRefused, BeginOffline, BeginUnpinned, BeginFrozen, BeginFloating
<1>3. ~(\/ InstallSeeded(p) \/ AnswerInstalled(p) \/ AnswerMissing(p) \/ UsePinned(p)
        \/ FetchPinned(p) \/ RefusePinned(p) \/ ResolveTag(p) \/ Unpublished(p) \/ UseExisting(p))
  BY DEF InstallSeeded, AnswerInstalled, AnswerMissing, UsePinned, FetchPinned,
         RefusePinned, ResolveTag, Unpublished, UseExisting
<1>4. ~(\/ VerifyOffer(p) \/ RefuseOffer(p) \/ KeepNewer(p) \/ NothingNewer(p)
        \/ Install(p) \/ OtherRefused(p) \/ NoLockToWrite(p) \/ Fail(p))
  BY DEF VerifyOffer, RefuseOffer, KeepNewer, NothingNewer,
         Install, OtherRefused, NoLockToWrite, Fail
<1>5. WriteLock(p)
  BY <1>1, <1>2, <1>3, <1>4, Zenon DEF Step
<1>6. CASE k \in Written(p)
  BY <1>5, <1>6 DEF WriteLock
<1>7. CASE k \notin Written(p) /\ read[p] = lock
  <2>1. Base(p) = lock
    BY <1>7, EnsureAssumption DEF Base
  <2>2. lock'[k] = lock[k]
    BY <1>5, <1>7, <2>1 DEF WriteLock
  <2>3. QED
    BY <2>2
<1>8. QED
  BY <1>5, <1>6, <1>7 DEF WriteLock

(* A pin is lost only to a call asked to write it, or to one that read the *)
(* lock before somebody else wrote it.                                     *)
THEOREM PinsLostWereStale == Spec => LostPinsWereStale
<1>1. [Next]_vars =>
        [\A k \in Key :
           lock \in Lock /\ lock[k] # NoPin /\ lock'[k] # lock[k] =>
              \E p \in Process : pc[p] = "lock" /\ (k \in Written(p) \/ read[p] # lock)]_vars
  BY LockStep
<1>2. QED
  BY <1>1, PTL DEF Spec, LostPinsWereStale

-----------------------------------------------------------------------------
(* What signatures are worth, and the pins made from them. *)

Followable(file) ==
    file \in Lock => \A k \in Key :
        \/ file[k] = NoPin
        \/ \E first \in InitialLocks : first \in Lock /\ file[k] = first[k]
        \/ file[k].manifest \notin Within[k[1]]
        \/ ~file[k].bundled
        \/ \A o \in Options :
              <<o.request, o.platform>> = k => PinVerdict(file[k], o) = "ok"

SignOK(p) ==
    /\ Followable(read[p])
    /\ pc[p] \in {"verified", "install"} =>
          /\ want[p].trust = "trusted" => want[p].manifest \in Signed
          /\ want[p].trust = "unsigned" => call[p].allowUnsigned
    /\ pc[p] = "lock" /\ answer[p].trust = "trusted" => answer[p].manifest \in Signed

Sound ==
    /\ TrustedIsSigned
    /\ \A m \in Manifest : system[m] = "trusted" => m \in Signed

SignInv == Sound /\ Followable(lock) /\ \A p \in Process : SignOK(p)

LEMMA SoundTrust ==
  ASSUME Sound, NEW m \in Manifest, TrustOf(m) = "trusted"
  PROVE  m \in Signed
  BY DEF Sound, TrustedIsSigned, TrustOf

LEMMA BeginMoves ==
  ASSUME TypeOK, NEW p \in Process, Call(p)
  PROVE  \A q \in Process \ {p} : Kept(q)
<1>1. PICK o \in Options : Begin(p, o) /\ \E label, how :
         Goto(p, label) /\ outcome' = [outcome EXCEPT ![p] = how]
  BY Zenon DEF Call, BeginRefused, BeginOffline, BeginUnpinned, BeginFrozen, BeginFloating, End
<1>2. QED
  BY <1>1 DEF TypeOK, Begin, Goto, Kept

LEMMA StepMoves ==
  ASSUME TypeOK, NEW p \in Process, Step(p)
  PROVE  \A q \in Process \ {p} : Kept(q)
<1>1. CASE InstallSeeded(p)
  BY <1>1 DEF InstallSeeded, Kept
<1>2. CASE AnswerInstalled(p) \/ UsePinned(p)
  BY <1>2 DEF TypeOK, AnswerInstalled, UsePinned, Resolve, End, Goto, Kept
<1>3. CASE AnswerMissing(p) \/ RefusePinned(p) \/ Unpublished(p) \/ NoLockToWrite(p) \/ Fail(p)
  BY <1>3 DEF TypeOK, AnswerMissing, RefusePinned, Unpublished, NoLockToWrite, Fail, End, Goto, Kept
<1>4. CASE RefuseOffer(p) \/ OtherRefused(p)
  BY <1>4 DEF TypeOK, RefuseOffer, OtherRefused, End, Goto, Kept
<1>5. CASE FetchPinned(p) \/ ResolveTag(p) \/ VerifyOffer(p) \/ NothingNewer(p)
  BY <1>5 DEF TypeOK, FetchPinned, ResolveTag, VerifyOffer, NothingNewer, Goto, Kept
<1>6. CASE UseExisting(p) \/ KeepNewer(p)
  BY <1>6 DEF TypeOK, UseExisting, KeepNewer, Resolved, Resolve, End, Goto, Kept
<1>7. CASE Install(p)
  BY <1>7 DEF TypeOK, Install, Resolved, Resolve, End, Goto, Kept
<1>8. CASE WriteLock(p)
  BY <1>8 DEF TypeOK, WriteLock, End, Goto, Kept
<1>9. QED
  BY <1>1, <1>2, <1>3, <1>4, <1>5, <1>6, <1>7, <1>8, Zenon DEF Step

LEMMA KeptSign ==
  ASSUME NEW q \in Process, Kept(q), SignOK(q)
  PROVE  SignOK(q)'
  BY DEF Kept, SignOK, Followable

(* A call that begins has read the lock as it is. *)
LEMMA BeginSigns ==
  ASSUME TypeOK, SignInv, NEW p \in Process, Call(p)
  PROVE  SignInv'
<1>1. PICK o \in Options : Begin(p, o) /\ \E label \in {"idle", "search", "frozen", "tag"} :
         Goto(p, label)
  BY Zenon DEF Call, BeginRefused, BeginOffline, BeginUnpinned, BeginFrozen, BeginFloating, End
<1>2. UNCHANGED <<cache, system, lock>>
  BY <1>1 DEF Begin
<1>3. read'[p] = IF o.lockPath THEN lock ELSE NoFile
  BY <1>1 DEF Begin, TypeOK
<1>4. Followable(read[p])'
  BY <1>2, <1>3, EnsureAssumption DEF SignInv, Followable
<1>5. SignOK(p)'
  BY <1>1, <1>4 DEF TypeOK, Goto, SignOK
<1>6. Sound' /\ Followable(lock)'
  BY <1>2 DEF SignInv, Sound, TrustedIsSigned, Followable
<1>7. QED
  BY <1>5, <1>6, BeginMoves, KeptSign DEF SignInv

(* A pin written by a call is followable into an empty cache. *)
LEMMA NewPinFollowable ==
  ASSUME NEW o \in Options, NEW q \in Platform, NEW m \in Manifest, NEW t,
         t = "trusted" => m \in Signed, PlatformOf[m] = q
  PROVE  \/ m \notin Within[o.request]
         \/ ~NewPin(m, t).bundled
         \/ \A other \in Options :
               <<other.request, other.platform>> = <<o.request, q>>
                  => PinVerdict(NewPin(m, t), other) = "ok"
<1>1. /\ NewPin(m, t).manifest = m /\ NewPin(m, t).agrees = "all"
      /\ NewPin(m, t).bundled = (t = "trusted")
  BY DEF NewPin
<1>2. SUFFICES ASSUME m \in Within[o.request], t = "trusted", NEW other \in Options,
                      other.request = o.request, other.platform = q
               PROVE  PinVerdict(NewPin(m, t), other) = "ok"
  BY <1>1
<1>3. QED
  BY <1>1, <1>2 DEF PinVerdict, Matches

LEMMA WriteSigns ==
  ASSUME TypeOK, CallInv, SignInv, NEW p \in Process, WriteLock(p)
  PROVE  Followable(lock)'
<1> DEFINE o == call[p]
<1>1. /\ o \in Options /\ read[p] \in Lock \cup {NoFile} /\ o.platform \in Platform
      /\ answer[p].manifest \in Manifest /\ PlatformOf[answer[p].manifest] = o.platform
      /\ answer[p].trust = "trusted" => answer[p].manifest \in Signed
      /\ Followable(read[p])
  BY OptionType DEF WriteLock, CallInv, CallOK, AnswerOK, Matches, SignInv, SignOK
<1>2. lock' = [k \in Key |-> IF k \in Written(p) THEN PinFor(p, k[2]) ELSE Base(p)[k]]
  BY DEF WriteLock
<1>3. SUFFICES ASSUME NEW k \in Key
               PROVE  \/ lock'[k] = NoPin
                      \/ \E first \in InitialLocks : first \in Lock /\ lock'[k] = first[k]
                      \/ lock'[k].manifest \notin Within[k[1]]
                      \/ ~lock'[k].bundled
                      \/ \A other \in Options :
                            <<other.request, other.platform>> = k
                               => PinVerdict(lock'[k], other) = "ok"
  BY DEF Followable
<1>4. CASE k \notin Written(p)
  <2>1. lock'[k] = Base(p)[k]
    BY <1>2, <1>4
  <2>2. CASE read[p] = NoFile
    BY <2>1, <2>2 DEF Base
  <2>3. CASE read[p] \in Lock
    BY <1>1, <2>1, <2>3, EnsureAssumption DEF Base, Followable
  <2>4. QED
    BY <1>1, <2>2, <2>3
<1>5. CASE k = <<o.request, o.platform>>
  <2>1. lock'[k] = NewPin(answer[p].manifest, answer[p].trust)
    BY <1>2, <1>5 DEF Written, PinFor
  <2>2. NewPin(answer[p].manifest, answer[p].trust).manifest = answer[p].manifest
    BY DEF NewPin
  <2>3. QED
    BY <1>1, <1>5, <2>1, <2>2, NewPinFollowable
<1>6. ASSUME NEW q \in Others(p), k = <<o.request, q>>
      PROVE  \/ lock'[k].manifest \notin Within[k[1]]
             \/ ~lock'[k].bundled
             \/ \A other \in Options :
                   <<other.request, other.platform>> = k => PinVerdict(lock'[k], other) = "ok"
  <2> DEFINE m == offer[p][q]
  <2>1. q \in Platform /\ q # o.platform /\ m \in Manifest
    BY <1>6 DEF Others, TypeOK
  <2>2. "trusted" \in Signature(m) /\ Matches([o EXCEPT !.platform = q], m)
    BY <1>6 DEF WriteLock, OthersVerify
  <2>3. m \in Signed
    BY <2>2 DEF Signature
  <2>4. PlatformOf[m] = q
    BY <1>1, <2>2, OptionType DEF Matches, Option
  <2>5. lock'[k] = NewPin(m, "trusted") /\ NewPin(m, "trusted").manifest = m
    BY <1>2, <1>6, <2>1 DEF Written, PinFor, NewPin
  <2>6. QED
    BY <1>1, <1>6, <2>1, <2>3, <2>4, <2>5, NewPinFollowable
<1>7. QED
  BY <1>4, <1>5, <1>6 DEF Written

(* A step that leaves the roots and the lock alone. *)
LEMMA QuietSigns ==
  ASSUME TypeOK, SignInv, NEW p \in Process, Step(p), SignOK(p)',
         UNCHANGED <<cache, system, lock>>
  PROVE  SignInv'
<1>1. Sound' /\ Followable(lock)'
  BY DEF SignInv, Sound, TrustedIsSigned, Followable
<1>2. QED
  BY <1>1, StepMoves, KeptSign DEF SignInv

(* The build a call resolved to from the roots carries their trust. *)
LEMMA ResolvedSigns ==
  ASSUME TypeOK, SignInv, NEW p \in Process, NEW m \in Manifest,
         Resolved(p, m, TrustOf(m), FALSE), read' = read
  PROVE  SignOK(p)'
<1>1. Sound /\ Followable(read[p])
  BY DEF SignInv, SignOK
<1>2. answer'[p].trust = TrustOf(m) /\ answer'[p].manifest = m
  BY DEF TypeOK, Resolved, Resolve
<1>3. answer'[p].trust = "trusted" => answer'[p].manifest \in Signed
  BY <1>1, <1>2, SoundTrust
<1>4. pc'[p] \in {"lock", "idle"}
  BY DEF TypeOK, Resolved, End, Goto
<1>5. Followable(read[p])'
  BY <1>1 DEF Followable
<1>6. QED
  BY <1>3, <1>4, <1>5 DEF SignOK

LEMMA StepSigns ==
  ASSUME TypeOK, CallInv, SignInv, NEW p \in Process, Step(p)
  PROVE  SignInv'
<1>1. /\ SignOK(p) /\ Sound /\ Followable(lock)
      /\ read' = read => Followable(read[p])'
  BY DEF SignInv, SignOK, Followable
<1>2. CASE InstallSeeded(p)
  <2>1. UNCHANGED <<system, lock, pc, call, read, want, answer>>
    BY <1>2 DEF InstallSeeded
  <2>2. Sound'
    BY <1>1, <1>2, <2>1 DEF Sound, TrustedIsSigned, InstallSeeded, TypeOK
  <2>3. \A q \in Process : SignOK(q)'
    BY <2>1 DEF SignInv, SignOK, Followable
  <2>4. QED
    BY <1>1, <2>1, <2>2, <2>3 DEF SignInv, Followable
<1>3. CASE \/ AnswerInstalled(p) \/ UsePinned(p) \/ AnswerMissing(p) \/ RefusePinned(p)
           \/ Unpublished(p) \/ NoLockToWrite(p) \/ Fail(p)
  <2>1. pc'[p] = "idle" /\ UNCHANGED <<cache, system, lock, read>>
    BY <1>3 DEF TypeOK, AnswerInstalled, UsePinned, AnswerMissing, RefusePinned,
                Unpublished, NoLockToWrite, Fail, End, Goto
  <2>2. QED
    BY <1>1, <2>1, QuietSigns DEF SignOK
<1>4. CASE RefuseOffer(p) \/ OtherRefused(p)
  <2>1. pc'[p] = "idle" /\ UNCHANGED <<cache, system, lock, read>>
    BY <1>4 DEF TypeOK, RefuseOffer, OtherRefused, End, Goto
  <2>2. QED
    BY <1>1, <2>1, QuietSigns DEF SignOK
<1>5. CASE ResolveTag(p)
  <2>1. pc'[p] = "offered" /\ UNCHANGED <<cache, system, lock, read>>
    BY <1>5 DEF TypeOK, ResolveTag, Goto
  <2>2. QED
    BY <1>1, <2>1, QuietSigns DEF SignOK
<1>6. CASE FetchPinned(p)
  <2>1. /\ PinOf(p).manifest \in Signed
        /\ want'[p].manifest = PinOf(p).manifest /\ want'[p].trust = "trusted"
        /\ pc'[p] = "install" /\ UNCHANGED <<cache, system, lock, read, call>>
    BY <1>6 DEF TypeOK, FetchPinned, PinVerdict, Goto
  <2>2. QED
    BY <1>1, <2>1, QuietSigns DEF SignOK
<1>7. CASE VerifyOffer(p)
  <2>1. PICK t \in Signature(Offered(p)) :
           /\ OfferVerdict(call[p], Offered(p), t) = "ok"
           /\ want' = [want EXCEPT ![p] = [manifest |-> Offered(p), trust |-> t]]
    BY <1>7 DEF VerifyOffer
  <2>2. /\ t = "trusted" => Offered(p) \in Signed
        /\ t = "unsigned" => call[p].allowUnsigned
    BY <2>1 DEF Signature, OfferVerdict, MayProceed
  <2>3. /\ pc'[p] = "verified" /\ UNCHANGED <<cache, system, lock, read, call>>
        /\ want'[p].manifest = Offered(p) /\ want'[p].trust = t
    BY <1>7, <2>1 DEF TypeOK, VerifyOffer, Goto
  <2>4. QED
    BY <1>1, <2>2, <2>3, QuietSigns DEF SignOK
<1>8. CASE UseExisting(p)
  <2>1. PICK m : /\ m \in IF Newer(call[p], Offered(p)) # {}
                          THEN Newest(Newer(call[p], Offered(p))) ELSE {Offered(p)}
                 /\ Resolved(p, m, TrustOf(m), FALSE)
    BY <1>8 DEF UseExisting
  <2>2. m \in Manifest
    BY <1>8, <2>1, NewerType, NewestIn DEF UseExisting, CallInv, CallOK
  <2>3. UNCHANGED <<cache, system, lock, read>>
    BY <1>8 DEF UseExisting
  <2>4. QED
    BY <2>1, <2>2, <2>3, ResolvedSigns, QuietSigns
<1>9. CASE KeepNewer(p)
  <2>1. PICK m \in Newest(Newer(call[p], want[p].manifest)) : Resolved(p, m, TrustOf(m), FALSE)
    BY <1>9 DEF KeepNewer
  <2>2. m \in Manifest
    BY <2>1, NewerType, NewestIn
  <2>3. UNCHANGED <<cache, system, lock, read>>
    BY <1>9 DEF KeepNewer
  <2>4. QED
    BY <2>1, <2>2, <2>3, ResolvedSigns, QuietSigns
<1>10. CASE NothingNewer(p)
  <2>1. /\ pc[p] = "verified" /\ pc'[p] = "install"
        /\ UNCHANGED <<cache, system, lock, read, call, want>>
    BY <1>10 DEF TypeOK, NothingNewer, Goto
  <2>2. QED
    BY <1>1, <2>1, QuietSigns DEF SignOK
<1>11. CASE Install(p)
  <2> DEFINE m == want[p].manifest
  <2>1. /\ pc[p] = "install" /\ m \in Manifest
        /\ cache' = [cache EXCEPT ![m] = Installed(p)]
        /\ UNCHANGED <<system, lock, read>>
    BY <1>11 DEF Install, CallInv, CallOK
  <2>2. Installed(p) = "trusted" => m \in Signed
    BY <1>1, <2>1 DEF Installed, SignOK, Sound, TrustedIsSigned
  <2>3. Sound'
    BY <1>1, <2>1, <2>2 DEF Sound, TrustedIsSigned, TypeOK
  <2>4. /\ answer'[p].trust = Installed(p) /\ answer'[p].manifest = m
        /\ pc'[p] \in {"lock", "idle"}
    BY <1>11 DEF TypeOK, Install, Resolved, Resolve, End, Goto
  <2>5. SignOK(p)'
    BY <1>1, <2>1, <2>2, <2>4 DEF SignOK
  <2>6. QED
    BY <1>1, <2>1, <2>3, <2>5, StepMoves, KeptSign DEF SignInv, Followable
<1>12. CASE WriteLock(p)
  <2>1. /\ pc'[p] = "idle" /\ UNCHANGED <<cache, system, read>>
    BY <1>12 DEF TypeOK, WriteLock, End, Goto
  <2>2. Sound' /\ SignOK(p)'
    BY <1>1, <2>1 DEF Sound, TrustedIsSigned, SignOK
  <2>3. QED
    BY <1>12, <2>2, WriteSigns, StepMoves, KeptSign DEF SignInv
<1>13. QED
  BY <1>2, <1>3, <1>4, <1>5, <1>6, <1>7, <1>8, <1>9, <1>10, <1>11, <1>12, Zenon DEF Step

LEMMA SignNext == TypeOK /\ CallInv /\ SignInv /\ [Next]_vars => SignInv'
<1> SUFFICES ASSUME TypeOK, CallInv, SignInv, [Next]_vars PROVE SignInv'
  OBVIOUS
<1>1. CASE UNCHANGED vars
  BY <1>1 DEF vars, SignInv, Sound, TrustedIsSigned, Followable, SignOK
<1>2. CASE \E p \in Process : Call(p) \/ Step(p)
  BY <1>2, BeginSigns, StepSigns
<1>3. QED
  BY <1>1, <1>2 DEF Next, Finished

LEMMA SignInit == Init => SignInv
<1> SUFFICES ASSUME Init PROVE SignInv
  OBVIOUS
<1>1. Sound
  BY EnsureAssumption DEF Init, Sound, TrustedIsSigned
<1>2. Followable(lock) /\ Followable(NoFile)
  BY EnsureAssumption DEF Init, Followable
<1>3. QED
  BY <1>1, <1>2 DEF Init, SignInv, SignOK

LEMMA Signs == Spec => []SignInv
  BY Invariants, SignInit, SignNext, PTL DEF Spec

(* A trusted record stands only for a manifest with a trusted signature. *)
THEOREM TrustedRecordsAreSigned == Spec => []TrustedIsSigned
<1>1. SignInv => TrustedIsSigned
  BY DEF SignInv, Sound
<1>2. QED
  BY <1>1, Signs, PTL

(* A pin a call wrote can be followed into an empty cache, but for one made *)
(* from an unsigned record or from one outside the request.                 *)
THEOREM WrittenPinsAreFollowable == Spec => []PinsFollowable
<1>1. SignInv => PinsFollowable
  BY DEF SignInv, Followable, PinsFollowable
<1>2. QED
  BY <1>1, Signs, PTL

(* An unsigned record comes into the cache by a call that allows it only. *)
LEMMA UnsignedStep ==
  ASSUME TypeOK, CallInv, SignInv, [Next]_vars, NEW m \in Manifest,
         cache[m] = "absent", cache'[m] = "unsigned"
  PROVE  \E p \in Process : pc[p] = "install" /\ call[p].allowUnsigned
<1>1. PICK p \in Process : InstallSeeded(p) \/ Install(p)
  BY EntryMoves
<1>2. ~InstallSeeded(p)
  BY DEF InstallSeeded, TypeOK
<1>3. /\ pc[p] = "install" /\ want[p].manifest = m /\ Installed(p) = "unsigned"
  BY <1>1, <1>2 DEF Install, TypeOK
<1>4. want[p].trust = "unsigned"
  BY <1>3 DEF Installed
<1>5. QED
  BY <1>3, <1>4 DEF SignInv, SignOK

(* A record comes into the cache only trusted and signed, or allowed. *)
LEMMA RecordStep ==
  ASSUME TypeOK, CallInv, SignInv, [Next]_vars, NEW m \in Manifest,
         cache[m] = "absent", cache'[m] # "absent"
  PROVE  \/ cache'[m] = "trusted" /\ m \in Signed
         \/ /\ cache'[m] = "unsigned"
            /\ \E p \in Process : pc[p] = "install" /\ call[p].allowUnsigned
<1>1. TypeOK' /\ SignInv'
  BY NextKeeps, SignNext
<1>2. CASE cache'[m] = "unsigned"
  BY <1>2, UnsignedStep
<1>3. CASE cache'[m] = "trusted"
  BY <1>1, <1>3 DEF SignInv, Sound, TrustedIsSigned
<1>4. QED
  BY <1>1, <1>2, <1>3 DEF TypeOK, Trust

(* A record comes into the cache only trusted and signed, or unsigned by a *)
(* call that allows it.                                                    *)
THEOREM RecordsEarned == Spec => RecordsAreEarned
<1>1. TypeOK /\ CallInv /\ SignInv /\ [Next]_vars =>
        [\A m \in Manifest : cache[m] = "absent" /\ cache'[m] # "absent" =>
           \/ cache'[m] = "trusted" /\ m \in Signed
           \/ /\ cache'[m] = "unsigned"
              /\ \E p \in Process : pc[p] = "install" /\ call[p].allowUnsigned]_vars
  BY RecordStep
<1>2. QED
  BY <1>1, Invariants, Signs, PTL DEF Spec, RecordsAreEarned
=============================================================================
