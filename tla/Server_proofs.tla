---------------------------- MODULE Server_proofs ----------------------------
(***************************************************************************)
(* Proofs about Server, for any databases, pastes, releases, addresses and *)
(* number of failures. The argument goes component by component: a step of *)
(* the server is, for the variables of one component, one of that          *)
(* component's own steps or none at all.                                   *)
(***************************************************************************)
EXTENDS Server, FiniteSetTheorems, WellFoundedInduction, TLAPS

-----------------------------------------------------------------------------
(***************************************************************************)
(* The releases                                                            *)
(***************************************************************************)

\* An updater works on a published release, and what it has verified is the
\* whole of that release. Where a release is installed from, nothing else is.
UpdaterInv ==
  /\ UpdaterTypeOK
  /\ exe \in 1..released
  /\ version \in 1..released
  /\ \A u \in Updater : update[u].at # "idle" => update[u].release \in 1..released
  /\ \A u \in Updater : update[u].at \in {"replace", "copy", "rename"} =>
                          update[u].tmp = update[u].release

\* What the server does to the releases and the executable.
UpdaterNext ==
  \/ \E u \in Updater : BeginUpdate(u)
  \/ \E u \in Updater, ok \in BOOLEAN : DoUpdate(u, ok)
  \/ \E u \in Updater :
       /\ update[u].at = "restart" /\ UpdateTo(u, "service")
       /\ UNCHANGED <<exe, version, released, aged>>
  \/ \E u \in Updater : GiveUp(u) /\ UNCHANGED <<exe, version, released, aged>>
  \/ version' = exe /\ UNCHANGED <<exe, released, aged, update>>
  \/ Publish \/ Age

-----------------------------------------------------------------------------
(***************************************************************************)
(* The onion address                                                       *)
(***************************************************************************)

\* The key of the file has been published. While the file is written anew it
\* holds none; when it holds none and no address waits for its key to be
\* saved, every address so far is one whose key was lost.
TorInv ==
  /\ TorTypeOK
  /\ keyFile # NoOnion => keyFile \in published
  /\ tor.at \in {"empty", "fill"} => tor.hostname \in published
  /\ tor.at = "fill" => keyFile = NoOnion
  /\ keyFile = NoOnion /\ tor.at \notin {"empty", "fill"} => Cardinality(published) <= keyLost
  /\ OneAddress

\* What the server does to the Tor service.
TorNext ==
  \/ \E ok \in BOOLEAN : ManagerStart(ok) \/ ManagerStop(ok)
  \/ TorGone

-----------------------------------------------------------------------------
(***************************************************************************)
(* The databases                                                           *)
(***************************************************************************)

\* The stages of main from the schema on, in which its database has the
\* whole of it.
WithSchema == {"migrate", "sched", "port", "savePort", "savingPort", "listen", "tor", "loop"}
                \cup Stopping

MainTypeOK ==
  /\ main \in [at : Stage, db : Db \cup {NoFile}, port : {0, 1}, attempt : 1..MaxAttempts]
  /\ ~At("down") => main.db \in Db
  /\ config \in Setting \cup {NoFile, Torn}

\* Between the rows that are copied and the ones to do, nothing of the source
\* is missing; a migration that has another database to copy from, or to
\* switch from, goes on only in main's stage of it.
DatabaseInv ==
  /\ MigrationTypeOK
  /\ MainTypeOK
  /\ main.at \in WithSchema => schema[main.db] = Len(Schema)
  /\ ~At("migrate") => mig = NoMigration
  /\ mig.at \in {"backup", "open", "copy"} => mig.source \in Db \ {main.db}
  /\ At("migrate") /\ mig.at = "copy" =>
       \A p \in Held(mig.source) \ mig.todo : rows[main.db][p] = rows[mig.source][p]
  /\ At("migrate") => SwitchIsComplete(main.db)

\* The rest of the variables.
ProcessTypeOK ==
  /\ sig \in Signal \cup {NoFile}
  /\ sched \in {"off", "on", "stopping"}
  /\ faults \in 0..MaxFaults

-----------------------------------------------------------------------------
(***************************************************************************)
(* The greatest element of a set of numbers                                *)
(***************************************************************************)

\* The library's theorem on minimal elements, for the natural numbers.
LEMMA MinimalNat ==
  ASSUME NEW R, IsWellFoundedOn(R, Nat), NEW T, T \subseteq Nat, T # {}
  PROVE  \E m \in T : \A y \in T : ~(<<y, m>> \in R)
<1>1. \A S : IsWellFoundedOn(R, S) /\ T \subseteq S =>
        \E m \in T : \A y \in T : ~(<<y, m>> \in R)
  BY WFMin
<1> QED BY <1>1

\* A set of natural numbers that is not empty has a least element.
LEMMA LeastExists ==
  ASSUME NEW T, T \subseteq Nat, T # {}
  PROVE  \E m \in T : \A y \in T : m <= y
<1> DEFINE R == OpToRel(<, Nat)
<1>1. \A a, b \in Nat : a < b => <<a, b>> \in R
  BY DEF OpToRel
<1>2. IsWellFoundedOn(R, Nat)
  BY NatLessThanWellFounded
<1> HIDE DEF R
<1>3. PICK m \in T : \A y \in T : ~(<<y, m>> \in R)
  BY <1>2, MinimalNat
<1>4. \A y \in T : ~(y < m)
  BY <1>1, <1>3
<1> QED BY <1>4

\* The newest of some releases is one of them.
LEMMA MaxIsMember ==
  ASSUME NEW n \in Nat, NEW S \in SUBSET (1..n), S # {}
  PROVE  Max(S) \in S
<1> DEFINE T == {n - x : x \in S}
<1>1. T \subseteq Nat
  <2>1. \A x \in S : n - x \in Nat
    OBVIOUS
  <2> QED BY <2>1
<1>2. T # {}
  <2>1. PICK x \in S : TRUE
    OBVIOUS
  <2>2. n - x \in T
    BY <2>1
  <2> QED BY <2>2
<1>3. PICK m \in T : \A y \in T : m <= y
  BY <1>1, <1>2, LeastExists
<1>4. PICK x \in S : m = n - x
  OBVIOUS
<1>5. \A y \in S : x >= y
  <2> TAKE y \in S
  <2>1. n - y \in T
    OBVIOUS
  <2>2. n - x <= n - y
    BY <1>3, <1>4, <2>1
  <2>3. x \in Int /\ y \in Int
    OBVIOUS
  <2> QED BY <2>2, <2>3
<1> QED BY <1>5 DEF Max

\* What either updater is offered is published.
LEMMA OfferIsPublished ==
  ASSUME NEW u \in Updater, UpdaterTypeOK
  PROVE  Offer(u) \subseteq 1..released
<1> USE ReleaseAssumption
<1>1. released \in Nat /\ released >= 1 /\ aged \in Nat /\ aged <= released
  BY DEF UpdaterTypeOK
<1>2. ASSUME NEW S \in SUBSET (1..released) PROVE Newest(S) \subseteq 1..released
  <2>1. CASE S = {}
    BY <2>1 DEF Newest
  <2>2. CASE S # {}
    BY <1>1, <2>2, MaxIsMember DEF Newest
  <2> QED BY <2>1, <2>2
<1>3. CheckForUpdate \subseteq 1..released
  <2> DEFINE S == {r \in 1..released : matchesBranch(r)}
  <2>1. S \in SUBSET (1..released) /\ (S \ {exe}) \in SUBSET (1..released)
    OBVIOUS
  <2>2. Newest(S) \subseteq 1..released /\ Newest(S \ {exe}) \subseteq 1..released
    BY <1>2, <2>1
  <2> QED BY <2>2 DEF CheckForUpdate
<1>4. CheckForUpdateEligible \subseteq 1..released
  <2>1. {r \in 1..aged : matchesBranch(r) /\ r # version} \in SUBSET (1..released)
    BY <1>1
  <2> QED BY <1>2, <2>1 DEF CheckForUpdateEligible
<1> QED BY <1>3, <1>4 DEF Offer

-----------------------------------------------------------------------------
(***************************************************************************)
(* The installed executable                                                *)
(***************************************************************************)

\* The updater is idle again, and nothing is installed.
LEMMA GiveUpKeeps ==
  ASSUME UpdaterInv, NEW u \in Updater, GiveUp(u), UNCHANGED <<exe, version, released, aged>>
  PROVE  UpdaterInv'
<1>1. update' = [update EXCEPT ![u] = [at |-> "idle", release |-> 0, tmp |-> Damaged]]
  BY DEF GiveUp, NoUpdate
<1> QED BY <1>1, ReleaseAssumption DEF UpdaterInv, UpdaterTypeOK

\* A stage of the update follows, with the same download.
LEMMA UpdateToKeeps ==
  ASSUME UpdaterInv, NEW u \in Updater,
         NEW a \in {"replace", "copy", "rename", "restart", "service"}, UpdateTo(u, a),
         update[u].at # "idle", update[u].tmp = update[u].release,
         UNCHANGED <<version, released, aged>>, exe' \in 1..released
  PROVE  UpdaterInv'
  BY ReleaseAssumption DEF UpdaterInv, UpdaterTypeOK, UpdateTo

\* The task waits for the service manager.
LEMMA ServiceKeeps ==
  ASSUME UpdaterInv, NEW u \in Updater,
         NEW a \in {"restart", "service"}, UpdateTo(u, a), update[u].at # "idle",
         UNCHANGED <<version, released, aged>>, exe' \in 1..released
  PROVE  UpdaterInv'
  BY ReleaseAssumption DEF UpdaterInv, UpdaterTypeOK, UpdateTo

\* Every step of an update, and of GitHub, keeps the invariant.
LEMMA UpdaterStep ==
  ASSUME UpdaterInv, UpdaterNext \/ UNCHANGED updVars
  PROVE  UpdaterInv'
<1> USE ReleaseAssumption
<1>1. ASSUME NEW u \in Updater, BeginUpdate(u) PROVE UpdaterInv'
  <2>1. PICK r \in Offer(u) :
          update' = [update EXCEPT ![u] = [at |-> "download", release |-> r, tmp |-> Damaged]]
    BY <1>1 DEF BeginUpdate
  <2>2. r \in 1..released
    BY OfferIsPublished DEF UpdaterInv
  <2> QED BY <1>1, <2>1, <2>2 DEF UpdaterInv, UpdaterTypeOK, BeginUpdate
<1>2. ASSUME NEW u \in Updater, NEW ok \in BOOLEAN, DoUpdate(u, ok) PROVE UpdaterInv'
  <2>1. CASE Download(u, ok)
    <3>1. CASE ok
      <4>1. PICK t \in {update[u].release, Damaged} :
              update' = [update EXCEPT ![u].at = "verify", ![u].tmp = t]
        BY <2>1, <3>1 DEF Download
      <4>2. update[u].release \in 1..released /\ released \in 1..MaxRelease
        BY <2>1 DEF Download, UpdaterInv, UpdaterTypeOK
      <4>3. t \in 1..MaxRelease \cup {Damaged}
        BY <4>2
      <4>4. UNCHANGED <<exe, version, released, aged>>
        BY <2>1 DEF Download
      <4> QED BY <4>1, <4>2, <4>3, <4>4 DEF UpdaterInv, UpdaterTypeOK
    <3>2. CASE ~ok
      BY <2>1, <3>2, GiveUpKeeps DEF Download
    <3> QED BY <3>1, <3>2
  <2>2. CASE VerifyChecksum(u, ok)
    BY <2>2, GiveUpKeeps, UpdateToKeeps DEF VerifyChecksum, UpdaterInv
  <2>3. CASE ReplaceBinary(u, ok)
    BY <2>3, GiveUpKeeps, UpdateToKeeps DEF ReplaceBinary, UpdaterInv
  <2>4. CASE StageCopy(u, ok)
    BY <2>4, GiveUpKeeps, UpdateToKeeps DEF StageCopy, UpdaterInv
  <2>5. CASE RenameCopy(u, ok)
    BY <2>5, GiveUpKeeps, UpdateToKeeps DEF RenameCopy, UpdaterInv
  <2> QED BY <1>2, <2>1, <2>2, <2>3, <2>4, <2>5 DEF DoUpdate
<1>3. ASSUME NEW u \in Updater, update[u].at = "restart", UpdateTo(u, "service"),
             UNCHANGED <<exe, version, released, aged>>
      PROVE  UpdaterInv'
  BY <1>3, ServiceKeeps DEF UpdaterInv
<1>4. ASSUME NEW u \in Updater, GiveUp(u), UNCHANGED <<exe, version, released, aged>>
      PROVE  UpdaterInv'
  BY <1>4, GiveUpKeeps
<1>5. CASE version' = exe /\ UNCHANGED <<exe, released, aged, update>>
  BY <1>5 DEF UpdaterInv, UpdaterTypeOK
<1>6. CASE Publish
  BY <1>6 DEF Publish, UpdaterInv, UpdaterTypeOK
<1>7. CASE Age
  BY <1>7 DEF Age, UpdaterInv, UpdaterTypeOK
<1>8. CASE UNCHANGED updVars
  BY <1>8 DEF updVars, UpdaterInv, UpdaterTypeOK
<1> QED BY <1>1, <1>2, <1>3, <1>4, <1>5, <1>6, <1>7, <1>8 DEF UpdaterNext

\* What a step of the server is for the releases and the executable.
LEMMA UpdaterView ==
  ASSUME [Next]_vars
  PROVE  UpdaterNext \/ UNCHANGED updVars
<1>1. ASSUME ProcessEnds PROVE UpdaterNext
  <2>1. GiveUp("task") /\ UNCHANGED <<exe, version, released, aged>> /\ "task" \in Updater
    BY <1>1 DEF ProcessEnds, GiveUp, Updater
  <2> QED BY <2>1 DEF UpdaterNext
<1>2. CASE Boot
  <2>1. CASE LoadConfig
    BY <2>1 DEF LoadConfig, UpdaterNext
  <2>2. CASE StartScheduler \/ PickPort
    BY <2>2 DEF StartScheduler, PickPort
  <2>3. ASSUME NEW ok \in BOOLEAN, OpenPool(ok) \/ Listen(ok)
        PROVE  UpdaterNext \/ UNCHANGED updVars
    BY <1>1, <2>3 DEF OpenPool, Listen
  <2>4. ASSUME NEW ok \in BOOLEAN, SaveDirectories(ok) \/ InitSchema(ok) \/ Migrate(ok)
                                     \/ SavePort(ok) \/ StartTor(ok)
        PROVE  UNCHANGED updVars
    BY <2>4 DEF SaveDirectories, InitSchema, Migrate, SavePort, StartTor
  <2> QED BY <1>2, <2>1, <2>2, <2>3, <2>4 DEF Boot
<1>3. CASE Update
  <2>1. ASSUME NEW u \in Updater, UpdateCheck(u) PROVE UpdaterNext
    BY <2>1 DEF UpdateCheck, UpdaterNext
  <2>2. ASSUME NEW u \in Updater, RestartService(u) PROVE UpdaterNext
    BY <2>2 DEF RestartService, UpdaterNext
  <2>3. ASSUME NEW u \in Updater, NEW ok \in BOOLEAN, UpdateStep(u, ok) PROVE UpdaterNext
    BY <2>3 DEF UpdateStep, UpdaterNext
  <2>4. CASE RestartSelf
    BY <1>1, <2>4 DEF RestartSelf
  <2>5. CASE RestartReturns
    BY <2>5 DEF RestartReturns, UpdaterNext, Updater
  <2>6. CASE Releases
    BY <2>6 DEF Releases, UpdaterNext
  <2> QED BY <1>3, <2>1, <2>2, <2>3, <2>4, <2>5, <2>6 DEF Update
<1>4. CASE Shutdown
  <2>1. CASE StopAudit \/ StopHTTP
    BY <2>1 DEF StopAudit, StopHTTP
  <2>2. ASSUME NEW ok \in BOOLEAN, StopTor(ok) PROVE UNCHANGED updVars
    BY <2>2 DEF StopTor
  <2>3. CASE StopScheduler
    BY <1>1, <2>3 DEF StopScheduler
  <2> QED BY <1>4, <2>1, <2>2, <2>3 DEF Shutdown
<1>5. CASE ServerFails \/ ManagerKills \/ Crash
  BY <1>1, <1>5 DEF ServerFails, ManagerKills, Crash
<1>6. CASE EditConfig \/ TakeSignal \/ (\E s \in Signal : SendSignal(s))
             \/ (\E ok \in BOOLEAN : Request(ok))
  BY <1>6 DEF EditConfig, TakeSignal, SendSignal, Request
<1>7. CASE UNCHANGED vars
  BY <1>7 DEF vars
<1> QED BY <1>2, <1>3, <1>4, <1>5, <1>6, <1>7 DEF Next

\* The updater's invariant holds throughout.
THEOREM UpdaterInvariance == Spec => []UpdaterInv
<1>1. Init => UpdaterInv
  BY ReleaseAssumption
  DEF Init, UpdaterInit, UpdaterInv, UpdaterTypeOK, NoUpdate
<1>2. UpdaterInv /\ [Next]_vars => UpdaterInv'
  BY UpdaterStep, UpdaterView
<1> QED BY <1>1, <1>2, PTL DEF Spec

\* Two updaters, the server's task and an operator, may interleave and die at
\* any statement, with downloads that arrive damaged: the installed
\* executable is always the whole of a published release (DoUpdate,
\* ReplaceBinary, replaceAcrossFilesystems).
THEOREM ExecutableIsWhole == Spec => []InstalledIsWhole
<1>1. UpdaterInv => InstalledIsWhole
  BY DEF UpdaterInv, InstalledIsWhole
<1> QED BY <1>1, UpdaterInvariance, PTL

-----------------------------------------------------------------------------
(***************************************************************************)
(* The address of the Tor service                                          *)
(***************************************************************************)

\* Published addresses can be counted.
LEMMA PublishedCounts ==
  ASSUME TorTypeOK
  PROVE  IsFiniteSet(published) /\ Cardinality(published) \in Nat
<1>1. IsFiniteSet(published)
  BY OnionAssumption, FS_Subset DEF TorTypeOK
<1> QED BY <1>1, FS_CardinalityType

\* A new key is one that was never published.
LEMMA GenKeyIsFresh ==
  ASSUME TorTypeOK, published # Onion
  PROVE  GenKey \in Onion /\ GenKey \notin published
<1>1. \E a \in Onion : a \notin published
  BY DEF TorTypeOK
<1> QED BY <1>1 DEF GenKey

\* A new address, with its key still to be saved.
LEMMA NewAddressKeeps ==
  ASSUME TorInv, tor.at = "onion", published # Onion,
         tor' = [tor EXCEPT !.at = "empty", !.hostname = GenKey],
         published' = published \cup {GenKey}, UNCHANGED keyFile,
         keyLost' = IF keyFile = NoOnion THEN keyLost ELSE keyLost + 1
  PROVE  TorInv'
<1> DEFINE k == GenKey
<1>1. k \in Onion /\ k \notin published
  BY GenKeyIsFresh DEF TorInv
<1>2. tor' = [tor EXCEPT !.at = "empty", !.hostname = k] /\ published' = published \cup {k}
  OBVIOUS
<1> HIDE DEF k
<1>3. IsFiniteSet(published) /\ Cardinality(published) \in Nat
  BY PublishedCounts DEF TorInv
<1>4. Cardinality(published') = Cardinality(published) + 1
  BY <1>1, <1>2, <1>3, FS_AddElement
<1>5. /\ keyLost \in Nat
      /\ Cardinality(published) <= 1 + keyLost
      /\ keyFile = NoOnion => Cardinality(published) <= keyLost
  BY DEF TorInv, TorTypeOK, OneAddress
<1>6. Cardinality(published') <= 1 + keyLost'
  <2>1. CASE keyFile = NoOnion
    BY <1>3, <1>4, <1>5, <2>1
  <2>2. CASE keyFile # NoOnion
    BY <1>3, <1>4, <1>5, <2>2
  <2> QED BY <2>1, <2>2
<1>7. TorTypeOK'
  <2>1. keyLost' \in Nat
    BY <1>5
  <2>2. tor' \in [at : {"idle", "onion", "empty", "fill", "up", "done"},
                  instance : BOOLEAN, running : BOOLEAN, hostname : Onion \cup {NoOnion}]
    BY <1>1, <1>2 DEF TorInv, TorTypeOK
  <2>3. keyFile' \in Onion \cup {NoOnion} /\ published' \subseteq Onion
    BY <1>1, <1>2 DEF TorInv, TorTypeOK
  <2> QED BY <2>1, <2>2, <2>3 DEF TorTypeOK
<1>8. tor'.at = "empty" /\ tor'.hostname = k /\ k \in published'
  BY <1>2 DEF TorInv, TorTypeOK
<1>9. keyFile' # NoOnion => keyFile' \in published'
  BY <1>2 DEF TorInv
<1> QED BY <1>6, <1>7, <1>8, <1>9 DEF TorInv, OneAddress

\* Every step of the service keeps its invariant.
LEMMA TorStep ==
  ASSUME TorInv, TorNext \/ UNCHANGED torVars
  PROVE  TorInv'
<1>0. Cardinality(published) \in Nat /\ keyLost \in Nat /\ Cardinality(published) <= 1 + keyLost
  BY PublishedCounts DEF TorInv, TorTypeOK, OneAddress
<1>1. ASSUME NEW ok \in BOOLEAN, TorStart(ok) PROVE TorInv'
  BY <1>1 DEF TorStart, TorInv, TorTypeOK, OneAddress
<1>2. ASSUME NEW ok \in BOOLEAN, AddOnion(ok) PROVE TorInv'
  <2>1. CASE ok /\ keyFile # NoOnion
    <3>1. /\ tor' = [tor EXCEPT !.at = "up", !.hostname = keyFile]
          /\ published' = published \cup {keyFile}
          /\ UNCHANGED <<keyFile, keyLost>>
      BY <1>2, <2>1 DEF AddOnion
    <3>2. published' = published
      BY <2>1, <3>1 DEF TorInv
    <3> QED BY <2>1, <3>1, <3>2 DEF TorInv, TorTypeOK, OneAddress
  <2>2. ASSUME published # Onion, tor' = [tor EXCEPT !.at = "empty", !.hostname = GenKey],
               published' = published \cup {GenKey}, ok = (keyFile = NoOnion),
               keyLost' = IF ok THEN keyLost ELSE keyLost + 1
        PROVE  TorInv'
    <3>1. keyLost' = IF keyFile = NoOnion THEN keyLost ELSE keyLost + 1
      BY <2>2
    <3> QED BY <1>2, <2>2, <3>1, NewAddressKeeps DEF AddOnion
  <2>3. CASE /\ tor' = [tor EXCEPT !.at = "done", !.instance = FALSE]
             /\ UNCHANGED <<published, keyLost>>
    BY <1>2, <2>3 DEF AddOnion, TorInv, TorTypeOK, OneAddress
  <2> QED BY <1>2, <2>1, <2>2, <2>3 DEF AddOnion
<1>3. ASSUME NEW ok \in BOOLEAN, EmptyKey(ok) PROVE TorInv'
  <2>1. CASE ok
    BY <1>0, <1>3, <2>1 DEF EmptyKey, TorInv, TorTypeOK, OneAddress
  <2>2. CASE ~ok /\ keyFile = NoOnion
    BY <1>0, <1>3, <2>2 DEF EmptyKey, NotSaved, TorInv, TorTypeOK, OneAddress
  <2>3. CASE ~ok /\ keyFile # NoOnion
    BY <1>0, <1>3, <2>3 DEF EmptyKey, NotSaved, TorInv, TorTypeOK, OneAddress
  <2> QED BY <2>1, <2>2, <2>3
<1>4. ASSUME NEW ok \in BOOLEAN, FillKey(ok) PROVE TorInv'
  <2>1. keyFile = NoOnion /\ tor.hostname \in published /\ tor.hostname \in Onion
    BY <1>4 DEF FillKey, TorInv, TorTypeOK
  <2>2. CASE ok
    BY <1>0, <1>4, <2>1, <2>2, OnionAssumption DEF FillKey, TorInv, TorTypeOK, OneAddress
  <2>3. CASE ~ok
    BY <1>0, <1>4, <2>1, <2>3 DEF FillKey, NotSaved, TorInv, TorTypeOK, OneAddress
  <2> QED BY <2>2, <2>3
<1>5. CASE TorUp
  BY <1>5 DEF TorUp, TorInv, TorTypeOK, OneAddress
<1>6. ASSUME NEW ok \in BOOLEAN, ManagerStop(ok) PROVE TorInv'
  BY <1>6 DEF ManagerStop, TorInv, TorTypeOK, OneAddress
<1>7. CASE TorGone
  <2>1. tor' = NoService /\ UNCHANGED <<keyFile, published>>
    BY <1>7 DEF TorGone
  <2>2. CASE tor.at \in {"empty", "fill"} /\ keyFile = NoOnion
    <3>1. keyLost' = keyLost + 1
      BY <1>7, <2>2 DEF TorGone, NotSaved
    <3> QED BY <1>0, <2>1, <3>1 DEF NoService, TorInv, TorTypeOK, OneAddress
  <2>3. CASE tor.at \in {"empty", "fill"} /\ keyFile # NoOnion
    <3>1. keyLost' = keyLost
      BY <1>7, <2>3 DEF TorGone, NotSaved
    <3> QED BY <1>0, <2>1, <2>3, <3>1 DEF NoService, TorInv, TorTypeOK, OneAddress
  <2>4. CASE tor.at \notin {"empty", "fill"}
    <3>1. keyLost' = keyLost
      BY <1>7, <2>4 DEF TorGone
    <3> QED BY <1>0, <2>1, <2>4, <3>1 DEF NoService, TorInv, TorTypeOK, OneAddress
  <2> QED BY <2>2, <2>3, <2>4
<1>8. CASE UNCHANGED torVars
  BY <1>8 DEF torVars, TorInv, TorTypeOK, OneAddress
<1> QED BY <1>1, <1>2, <1>3, <1>4, <1>5, <1>6, <1>7, <1>8 DEF TorNext, ManagerStart

\* What a step of the server is for the Tor service.
LEMMA TorView ==
  ASSUME [Next]_vars
  PROVE  TorNext \/ UNCHANGED torVars
<1>1. ASSUME ProcessEnds PROVE TorNext
  BY <1>1 DEF ProcessEnds, TorNext
<1>2. CASE Boot
  <2>1. CASE LoadConfig \/ StartScheduler \/ PickPort
    BY <2>1 DEF LoadConfig, StartScheduler, PickPort
  <2>2. ASSUME NEW ok \in BOOLEAN, OpenPool(ok) \/ Listen(ok)
        PROVE  TorNext \/ UNCHANGED torVars
    BY <1>1, <2>2 DEF OpenPool, Listen
  <2>3. ASSUME NEW ok \in BOOLEAN,
               SaveDirectories(ok) \/ InitSchema(ok) \/ Migrate(ok) \/ SavePort(ok)
        PROVE  UNCHANGED torVars
    BY <2>3 DEF SaveDirectories, InitSchema, Migrate, SavePort
  <2>4. ASSUME NEW ok \in BOOLEAN, StartTor(ok) PROVE TorNext \/ UNCHANGED torVars
    BY <2>4 DEF StartTor, TorNext
  <2> QED BY <1>2, <2>1, <2>2, <2>3, <2>4 DEF Boot
<1>3. CASE Update
  <2>1. ASSUME NEW u \in Updater, NEW ok \in BOOLEAN,
               UpdateCheck(u) \/ RestartService(u) \/ UpdateStep(u, ok)
        PROVE  UNCHANGED torVars
    BY <2>1 DEF UpdateCheck, RestartService, UpdateStep
  <2>2. CASE RestartSelf
    BY <1>1, <2>2 DEF RestartSelf
  <2>3. CASE RestartReturns \/ Releases
    BY <2>3 DEF RestartReturns, Releases
  <2> QED BY <1>3, <2>1, <2>2, <2>3 DEF Update
<1>4. CASE Shutdown
  <2>1. CASE StopAudit \/ StopHTTP
    BY <2>1 DEF StopAudit, StopHTTP
  <2>2. ASSUME NEW ok \in BOOLEAN, StopTor(ok) PROVE TorNext
    BY <2>2 DEF StopTor, TorNext
  <2>3. CASE StopScheduler
    BY <1>1, <2>3 DEF StopScheduler
  <2> QED BY <1>4, <2>1, <2>2, <2>3 DEF Shutdown
<1>5. CASE ServerFails \/ ManagerKills \/ Crash
  BY <1>1, <1>5 DEF ServerFails, ManagerKills, Crash
<1>6. CASE EditConfig \/ TakeSignal \/ (\E s \in Signal : SendSignal(s))
             \/ (\E ok \in BOOLEAN : Request(ok))
  BY <1>6 DEF EditConfig, TakeSignal, SendSignal, Request
<1>7. CASE UNCHANGED vars
  BY <1>7 DEF vars
<1> QED BY <1>2, <1>3, <1>4, <1>5, <1>6, <1>7 DEF Next

\* The invariant of the Tor service holds throughout.
THEOREM TorInvariance == Spec => []TorInv
<1>1. Init => TorInv
  <2>1. Cardinality({}) = 0
    BY FS_EmptySet
  <2> QED BY <2>1, OnionAssumption DEF Init, TorInit, NoService, TorInv, TorTypeOK, OneAddress
<1>2. TorInv /\ [Next]_vars => TorInv'
  BY TorStep, TorView
<1> QED BY <1>1, <1>2, PTL DEF Spec

\* Over any number of starts, crashes, failed reads and failed writes the
\* server has at most one address more than keys it failed to read or to save
\* (Service.Start, saveOnionKey).
THEOREM AddressIsKept == Spec => []OneAddress
<1>1. TorInv => OneAddress
  BY DEF TorInv
<1> QED BY <1>1, TorInvariance, PTL

-----------------------------------------------------------------------------
(***************************************************************************)
(* The database                                                            *)
(***************************************************************************)

\* The groups of statements can be counted; how many there are is not used.
LEMMA SchemaLength == Len(Schema) \in Nat
  BY DEF Schema

\* Where no migration is under way, only the schema counts.
LEMMA QuietDatabase ==
  ASSUME MigrationTypeOK', MainTypeOK', mig' = NoMigration,
         main'.at \in WithSchema => schema'[main'.db] = Len(Schema)
  PROVE  DatabaseInv'
<1>1. mig'.at = "idle"
  BY DEF NoMigration
<1> QED BY <1>1 DEF DatabaseInv, SwitchIsComplete, At

\* main goes from one stage to another and leaves the databases alone.
LEMMA GotoKeeps ==
  ASSUME DatabaseInv, mig = NoMigration, UNCHANGED dbVars,
         NEW a \in Stage \ {"down"}, ~At("down"), NEW q \in {0, 1}, NEW n \in 1..MaxAttempts,
         main' = [at |-> a, db |-> main.db, port |-> q, attempt |-> n],
         config' \in Setting \cup {NoFile, Torn},
         a \in WithSchema => main.at \in WithSchema
  PROVE  DatabaseInv'
<1>1. MainTypeOK'
  BY DEF DatabaseInv, MainTypeOK, At
<1>2. MigrationTypeOK'
  BY DEF DatabaseInv, MigrationTypeOK, dbVars
<1>3. main'.db = main.db /\ main'.at = a /\ schema' = schema /\ mig' = NoMigration
  BY DEF dbVars
<1>4. main'.at \in WithSchema => schema'[main'.db] = Len(Schema)
  BY <1>3 DEF DatabaseInv
<1> QED BY <1>1, <1>2, <1>3, <1>4, QuietDatabase

\* The same for a Goto.
LEMMA GotoStep ==
  ASSUME DatabaseInv, mig = NoMigration, UNCHANGED dbVars,
         NEW a \in Stage \ {"down"}, ~At("down"), Goto(a),
         config' \in Setting \cup {NoFile, Torn},
         a \in WithSchema => main.at \in WithSchema
  PROVE  DatabaseInv'
<1>1. main \in [at : Stage, db : Db \cup {NoFile}, port : {0, 1}, attempt : 1..MaxAttempts]
  BY DEF DatabaseInv, MainTypeOK
<1>2. main' = [at |-> a, db |-> main.db, port |-> main.port, attempt |-> main.attempt]
  BY <1>1 DEF Goto
<1>3. main.port \in {0, 1} /\ main.attempt \in 1..MaxAttempts
  BY <1>1
<1> QED BY <1>2, <1>3, GotoKeeps

\* main is where it was, and so are the databases.
LEMMA StayKeeps ==
  ASSUME DatabaseInv, UNCHANGED <<dbVars, main>>, config' \in Setting \cup {NoFile, Torn}
  PROVE  DatabaseInv'
  BY DEF DatabaseInv, MigrationTypeOK, MainTypeOK, SwitchIsComplete, Held, At, dbVars

\* The end of the process leaves the files and the databases.
LEMMA DownKeeps ==
  ASSUME DatabaseInv, main' = Down, mig' = NoMigration, UNCHANGED <<config, dbState, rows>>,
         schema' \in [Db -> 0..Len(Schema)]
  PROVE  DatabaseInv'
<1>1. MainTypeOK'
  BY AttemptAssumption DEF DatabaseInv, MainTypeOK, Down, Stage, At
<1>2. MigrationTypeOK'
  BY DEF DatabaseInv, MigrationTypeOK, NoMigration, MigrationStage
<1>3. main'.at \notin WithSchema
  BY DEF Down, WithSchema, Stopping
<1> QED BY <1>1, <1>2, <1>3, QuietDatabase

\* SaveYAMLConfig goes on, with or without a written file.
LEMMA SaveKeeps ==
  ASSUME DatabaseInv, UNCHANGED dbVars, NEW ok \in BOOLEAN,
         NEW from \in Stage \ {"down", "migrate"}, NEW filling \in Stage \ {"down", "migrate"},
         NEW to \in Stage \ {"down", "migrate"}, SaveYAMLConfig(from, filling, to, ok),
         {filling, to} \cap WithSchema # {} => {from, filling} \subseteq WithSchema
  PROVE  DatabaseInv'
<1>1. mig = NoMigration /\ ~At("down")
  BY DEF SaveYAMLConfig, DatabaseInv, At
<1>2. config' \in Setting \cup {NoFile, Torn}
  BY <1>1 DEF SaveYAMLConfig, DatabaseInv, MainTypeOK, Setting, At
<1>3. CASE At(from) /\ Goto(IF ok THEN filling ELSE to)
  <2>1. PICK a \in {filling, to} : Goto(a)
    BY <1>3
  <2>2. a \in WithSchema => main.at \in WithSchema
    BY <1>3 DEF At
  <2> QED BY <1>1, <1>2, <2>1, <2>2, GotoStep
<1>4. CASE At(filling) /\ Goto(to)
  <2>1. to \in WithSchema => main.at \in WithSchema
    BY <1>4 DEF At
  <2> QED BY <1>1, <1>2, <1>4, <2>1, GotoStep
<1> QED BY <1>3, <1>4 DEF SaveYAMLConfig

\* The stages by name.
LEMMA StageNames ==
  /\ {"save", "saving", "pool", "schema", "migrate"} \subseteq Stage \ {"down"}
  /\ {"sched", "port", "savePort", "savingPort", "listen", "tor", "loop"}
       \subseteq Stage \ {"down", "migrate"}
  /\ {"audit", "http", "torStop", "schedStop"} \subseteq Stage \ {"down", "migrate"}
  /\ {"sched", "port", "savePort", "savingPort", "listen", "tor", "loop", "migrate",
      "audit", "http", "torStop", "schedStop"} \subseteq WithSchema
  /\ {"save", "saving", "pool", "schema", "down"} \cap WithSchema = {}
  BY DEF Stage, Stopping, WithSchema

\* The first start, and every one after it.
LEMMA LoadKeeps ==
  ASSUME DatabaseInv, LoadConfig
  PROVE  DatabaseInv'
<1>1. PICK c \in Setting : main' = [at |-> "save", db |-> c.db, port |-> c.port, attempt |-> 1]
  BY DEF LoadConfig
<1>2. config' \in Setting \cup {NoFile, Torn}
  BY DbAssumption
  DEF LoadConfig, GenerateDefaultYAMLConfig, LoadYAMLConfig, Setting, DatabaseInv, MainTypeOK
<1>3. MainTypeOK'
  BY <1>1, <1>2, AttemptAssumption, StageNames DEF MainTypeOK, Setting, At
<1>4. MigrationTypeOK'
  BY DEF LoadConfig, DatabaseInv, MigrationTypeOK, dbVars
<1>5. mig' = NoMigration
  BY DEF LoadConfig, DatabaseInv, At, dbVars
<1>6. main'.at \notin WithSchema
  BY <1>1, StageNames
<1> QED BY <1>3, <1>4, <1>5, <1>6, QuietDatabase

\* InitDB leaves main's database with the whole schema, or is tried again, or
\* ends the process.
LEMMA InitSchemaKeeps ==
  ASSUME DatabaseInv, NEW ok \in BOOLEAN, InitSchema(ok)
  PROVE  DatabaseInv'
<1>1. main \in [at : Stage, db : Db \cup {NoFile}, port : {0, 1}, attempt : 1..MaxAttempts]
  BY DEF DatabaseInv, MainTypeOK
<1>2. main.at = "schema" /\ main.db \in Db /\ mig = NoMigration
  BY DEF InitSchema, DatabaseInv, MainTypeOK, At
<1>3. PICK n \in schema[main.db]..Len(Schema) :
        (ok <=> n = Len(Schema)) /\ schema' = [schema EXCEPT ![main.db] = n]
  BY DEF InitSchema, InitDB
<1>4. UNCHANGED <<dbState, rows, mig, config>>
  BY DEF InitSchema, InitDB
<1>5. schema' \in [Db -> 0..Len(Schema)] /\ schema'[main.db] = n
  BY <1>2, <1>3, SchemaLength DEF DatabaseInv, MigrationTypeOK
<1>6. MigrationTypeOK' /\ mig' = NoMigration
  BY <1>2, <1>4, <1>5 DEF DatabaseInv, MigrationTypeOK
<1>7. CASE ok /\ Goto("migrate")
  <2>1. main' = [at |-> "migrate", db |-> main.db, port |-> main.port, attempt |-> main.attempt]
    BY <1>1, <1>7 DEF Goto
  <2>2. MainTypeOK'
    BY <1>1, <1>2, <1>4, <2>1, StageNames DEF DatabaseInv, MainTypeOK, At
  <2>3. schema'[main'.db] = Len(Schema)
    BY <1>3, <1>5, <1>7, <2>1
  <2> QED BY <1>6, <2>2, <2>3, QuietDatabase
<1>8. CASE main.attempt < MaxAttempts /\ main' = [main EXCEPT !.attempt = @ + 1]
  <2>1. main' = [at |-> "schema", db |-> main.db, port |-> main.port, attempt |-> main.attempt + 1]
    BY <1>1, <1>2, <1>8
  <2>2. main.attempt + 1 \in 1..MaxAttempts
    BY <1>1, <1>8, AttemptAssumption
  <2>3. MainTypeOK'
    BY <1>1, <1>2, <1>4, <2>1, <2>2, StageNames DEF DatabaseInv, MainTypeOK, At
  <2>4. main'.at \notin WithSchema
    BY <2>1, StageNames
  <2> QED BY <1>6, <2>3, <2>4, QuietDatabase
<1>9. CASE main' = Down
  BY <1>4, <1>5, <1>6, <1>9, DownKeeps
<1> QED BY <1>7, <1>8, <1>9 DEF InitSchema, retryWithBackoff

\* Users change pastes while main's database is served and nothing migrates.
LEMMA RequestKeeps ==
  ASSUME DatabaseInv, NEW ok \in BOOLEAN, Request(ok)
  PROVE  DatabaseInv'
<1>1. mig = NoMigration
  BY DEF Request, Serving, DatabaseInv, At
<1>2. UNCHANGED <<dbState, schema, mig, main, config>>
  BY DEF Request, PasteAdd, PasteUpdate, PasteDelete, Store
<1>3. rows' \in [Db -> [Paste -> Version \cup {Absent}]]
  <2>1. rows \in [Db -> [Paste -> Version \cup {Absent}]]
    BY DEF DatabaseInv, MigrationTypeOK
  <2>2. ASSUME NEW p \in Paste, NEW row \in Version \cup {Absent}, NEW m \in BOOLEAN,
               Store(main.db, p, row, m)
        PROVE  rows' \in [Db -> [Paste -> Version \cup {Absent}]]
    BY <2>1, <2>2 DEF Store
  <2>3. PICK p \in Paste :
          PasteAdd(main.db, p, ok) \/ PasteUpdate(main.db, p, ok) \/ PasteDelete(main.db, p, ok)
    BY DEF Request
  <2>4. CASE PasteAdd(main.db, p, ok)
    <3>1. Store(main.db, p, 1, ok)
      BY <2>4 DEF PasteAdd
    <3>2. 1 \in Version \cup {Absent}
      BY DEF Version
    <3> QED BY <2>2, <3>1, <3>2
  <2>5. CASE PasteUpdate(main.db, p, ok)
    <3>1. PICK m \in BOOLEAN : Store(main.db, p, 2, m)
      BY <2>5 DEF PasteUpdate
    <3>2. 2 \in Version \cup {Absent}
      BY DEF Version
    <3> QED BY <2>2, <3>1, <3>2
  <2>6. CASE PasteDelete(main.db, p, ok)
    <3>1. Store(main.db, p, Absent, ok)
      BY <2>6 DEF PasteDelete
    <3> QED BY <2>2, <3>1
  <2> QED BY <2>3, <2>4, <2>5, <2>6
<1>4. MigrationTypeOK' /\ MainTypeOK'
  BY <1>2, <1>3 DEF DatabaseInv, MigrationTypeOK, MainTypeOK, At
<1>5. main'.at \in WithSchema => schema'[main'.db] = Len(Schema)
  BY <1>2 DEF DatabaseInv
<1> QED BY <1>1, <1>2, <1>4, <1>5, QuietDatabase

\* A step of a migration keeps the invariant when it keeps what it is about.
LEMMA MigratingKeeps ==
  ASSUME DatabaseInv, At("migrate"), UNCHANGED <<main, config, schema>>, MigrationTypeOK',
         mig'.at \in {"backup", "open", "copy"} => mig'.source \in Db \ {main.db},
         mig'.at = "copy" => \A p \in Held(mig.source)' \ mig'.todo :
                               rows'[main.db][p] = rows'[mig'.source][p],
         mig'.at \in {"write", "fill"} /\ mig'.source \in Db \ {main.db} =>
           \A p \in Held(mig.source)' : rows'[main.db][p] = rows'[mig'.source][p]
  PROVE  DatabaseInv'
<1>1. MainTypeOK'
  BY DEF DatabaseInv, MainTypeOK, At
<1>2. At("migrate")'
  BY DEF At
<1>3. SwitchIsComplete(main.db)'
  BY DEF SwitchIsComplete
<1>4. main'.at \in WithSchema => schema'[main'.db] = Len(Schema)
  BY DEF DatabaseInv
<1> QED BY <1>1, <1>2, <1>3, <1>4 DEF DatabaseInv

\* checkAndMigrateDatabase gives up; the databases are as they are.
LEMMA AbandonKeeps ==
  ASSUME DatabaseInv, At("migrate"), UNCHANGED <<main, config, schema, rows>>, Abandon,
         dbState' \in Db \cup {Unread}
  PROVE  DatabaseInv'
<1>1. mig' = [at |-> "done", source |-> Unread, todo |-> {}]
  BY DEF Abandon, NoMigration
<1>2. MigrationTypeOK'
  BY <1>1 DEF DatabaseInv, MigrationTypeOK, MigrationStage
<1> QED BY <1>1, <1>2, MigratingKeeps

\* The copy of one row. The source is another database than main's, so that
\* it stays as it is.
LEMMA CopyRowKeeps ==
  ASSUME DatabaseInv, At("migrate"), UNCHANGED <<main, config>>,
         NEW p \in Paste, NEW ok \in BOOLEAN, CopyRow(main.db, p, ok)
  PROVE  DatabaseInv'
<1> DEFINE d == main.db
           s == mig.source
<1>1. d \in Db /\ s \in Db \ {d} /\ mig.at = "copy" /\ p \in mig.todo
  BY DEF DatabaseInv, MainTypeOK, CopyRow, At
<1>2. /\ rows \in [Db -> [Paste -> Version \cup {Absent}]]
      /\ mig \in [at : MigrationStage, source : Db \cup {Unread}, todo : SUBSET Paste]
  BY DEF DatabaseInv, MigrationTypeOK
<1>3. UNCHANGED <<dbState, schema>> /\ dbState \in Db \cup {Unread}
  BY DEF CopyRow, DatabaseInv, MigrationTypeOK
<1>4. CASE Abandon /\ UNCHANGED rows
  BY <1>3, <1>4, AbandonKeeps
<1>5. CASE /\ rows' = [rows EXCEPT ![d][p] = rows[s][p]]
           /\ mig' = [mig EXCEPT !.todo = @ \ {p}]
  <2>1. mig'.at = "copy" /\ mig'.source = s /\ mig'.todo = mig.todo \ {p}
    BY <1>1, <1>2, <1>5
  <2>2. rows'[s] = rows[s] /\ rows'[d][p] = rows[s][p]
    BY <1>1, <1>2, <1>5
  <2>3. \A r \in Paste \ {p} : rows'[d][r] = rows[d][r]
    BY <1>1, <1>2, <1>5
  <2>4. MigrationTypeOK'
    <3>1. rows' \in [Db -> [Paste -> Version \cup {Absent}]]
      BY <1>1, <1>2, <1>5
    <3>2. mig' \in [at : MigrationStage, source : Db \cup {Unread}, todo : SUBSET Paste]
      BY <1>2, <1>5
    <3> QED BY <1>3, <3>1, <3>2 DEF DatabaseInv, MigrationTypeOK
  <2>5. \A r \in Held(s) \ mig.todo : rows[d][r] = rows[s][r]
    BY <1>1 DEF DatabaseInv
  <2>6. Held(mig.source)' = Held(s)
    BY <2>1, <2>2 DEF Held
  <2>7. \A r \in Held(mig.source)' \ mig'.todo : rows'[d][r] = rows'[mig'.source][r]
    <3> SUFFICES ASSUME NEW r \in Held(s), r \notin mig.todo \ {p}
                 PROVE  rows'[d][r] = rows[s][r]
      BY <2>1, <2>2, <2>6
    <3>1. r \in Paste
      BY DEF Held
    <3>2. CASE r = p
      BY <2>2, <3>2
    <3>3. CASE r # p
      BY <2>3, <2>5, <3>1, <3>3
    <3> QED BY <3>2, <3>3
  <2> QED BY <1>1, <1>3, <2>1, <2>4, <2>7, MigratingKeeps
<1> QED BY <1>4, <1>5 DEF CopyRow

\* Every step of checkAndMigrateDatabase keeps the invariant.
LEMMA CheckKeeps ==
  ASSUME DatabaseInv, At("migrate"), UNCHANGED <<main, config>>,
         NEW ok \in BOOLEAN, checkAndMigrateDatabase(main.db, ok)
  PROVE  DatabaseInv'
<1>1. /\ rows \in [Db -> [Paste -> Version \cup {Absent}]]
      /\ mig \in [at : MigrationStage, source : Db \cup {Unread}, todo : SUBSET Paste]
      /\ dbState \in Db \cup {Unread}
      /\ schema \in [Db -> 0..Len(Schema)]
      /\ main.db \in Db
  BY DEF DatabaseInv, MigrationTypeOK, MainTypeOK, At
<1>2. ASSUME NEW m, m \in [at : MigrationStage, source : Db \cup {Unread}, todo : SUBSET Paste],
             mig' = m, UNCHANGED <<schema, rows>>, dbState' \in Db \cup {Unread}
      PROVE  MigrationTypeOK'
  BY <1>1, <1>2 DEF MigrationTypeOK
<1>3. CASE ReadState(main.db)
  <2>1. PICK a \in {"backup", "write"} :
          /\ a = IF dbState \in Db \ {main.db} THEN "backup" ELSE "write"
          /\ mig' = [at |-> a, source |-> dbState, todo |-> mig.todo]
    BY <1>1, <1>3 DEF ReadState
  <2>2. UNCHANGED <<dbState, schema, rows>>
    BY <1>3 DEF ReadState
  <2>3. MigrationTypeOK'
    BY <1>1, <1>2, <2>1, <2>2 DEF MigrationStage
  <2>4. mig'.at = a /\ mig'.source = dbState
    BY <2>1
  <2> QED BY <2>1, <2>2, <2>3, <2>4, MigratingKeeps
<1>4. CASE SafetyBackup(ok)
  <2>1. CASE ok
    <3>1. mig' = [at |-> "open", source |-> mig.source, todo |-> mig.todo]
      BY <1>1, <1>4, <2>1 DEF SafetyBackup, MigrateTo
    <3>2. UNCHANGED <<dbState, schema, rows>> /\ mig.at = "backup"
      BY <1>4 DEF SafetyBackup
    <3>3. MigrationTypeOK'
      BY <1>1, <1>2, <3>1, <3>2 DEF MigrationStage
    <3>4. mig'.source \in Db \ {main.db} /\ mig'.at = "open"
      BY <3>1, <3>2 DEF DatabaseInv
    <3> QED BY <3>2, <3>3, <3>4, MigratingKeeps
  <2>2. CASE ~ok
    BY <1>1, <1>4, <2>2, AbandonKeeps DEF SafetyBackup
  <2> QED BY <2>1, <2>2
<1>5. CASE MigrateDatabase(main.db, ok)
  <2>1. CASE ok
    <3>1. mig' = [at |-> "copy", source |-> mig.source, todo |-> Held(mig.source)]
      BY <1>1, <1>5, <2>1 DEF MigrateDatabase
    <3>2. UNCHANGED <<dbState, schema, rows>> /\ mig.at = "open"
      BY <1>5 DEF MigrateDatabase
    <3>3. MigrationTypeOK'
      BY <1>1, <1>2, <3>1, <3>2 DEF MigrationStage, Held
    <3>4. mig'.source \in Db \ {main.db} /\ mig'.at = "copy"
      BY <3>1, <3>2 DEF DatabaseInv
    <3>5. Held(mig.source)' = mig'.todo
      BY <3>1, <3>2 DEF Held
    <3> QED BY <3>2, <3>3, <3>4, <3>5, MigratingKeeps
  <2>2. CASE ~ok
    BY <1>1, <1>5, <2>2, AbandonKeeps DEF MigrateDatabase
  <2> QED BY <2>1, <2>2
<1>6. ASSUME NEW p \in Paste, CopyRow(main.db, p, ok) PROVE DatabaseInv'
  BY <1>6, CopyRowKeeps
<1>7. CASE CopyEnd
  <2>1. mig' = [at |-> "write", source |-> mig.source, todo |-> mig.todo]
    BY <1>1, <1>7 DEF CopyEnd, MigrateTo
  <2>2. UNCHANGED <<dbState, schema, rows>> /\ mig.at = "copy" /\ mig.todo = {}
    BY <1>7 DEF CopyEnd
  <2>3. MigrationTypeOK'
    BY <1>1, <1>2, <2>1, <2>2 DEF MigrationStage
  <2>4. \A p \in Held(mig.source) : rows[main.db][p] = rows[mig.source][p]
    BY <2>2 DEF DatabaseInv
  <2>5. Held(mig.source)' = Held(mig.source) /\ mig'.source = mig.source /\ mig'.at = "write"
    BY <2>1, <2>2 DEF Held
  <2> QED BY <2>2, <2>3, <2>4, <2>5, MigratingKeeps
<1>8. CASE EmptyState(ok)
  <2>1. CASE ok
    <3>1. mig' = [at |-> "fill", source |-> mig.source, todo |-> mig.todo]
      BY <1>1, <1>8, <2>1 DEF EmptyState, MigrateTo
    <3>2. UNCHANGED <<schema, rows>> /\ dbState' = Unread /\ mig.at = "write"
      BY <1>8, <2>1 DEF EmptyState
    <3>3. MigrationTypeOK'
      BY <1>1, <1>2, <3>1, <3>2 DEF MigrationStage
    <3>4. mig.source \in Db \ {main.db} =>
            \A p \in Held(mig.source) : rows[main.db][p] = rows[mig.source][p]
      BY <3>2 DEF DatabaseInv, SwitchIsComplete
    <3>5. Held(mig.source)' = Held(mig.source) /\ mig'.source = mig.source /\ mig'.at = "fill"
      BY <3>1, <3>2 DEF Held
    <3> QED BY <3>2, <3>3, <3>4, <3>5, MigratingKeeps
  <2>2. CASE ~ok
    BY <1>1, <1>8, <2>2, AbandonKeeps DEF EmptyState
  <2> QED BY <2>1, <2>2
<1>9. CASE FillState(main.db, ok)
  BY <1>1, <1>9, AbandonKeeps DEF FillState
<1> QED BY <1>3, <1>4, <1>5, <1>6, <1>7, <1>8, <1>9 DEF checkAndMigrateDatabase

\* main goes on after checkAndMigrateDatabase, or is in it.
LEMMA MigrateKeeps ==
  ASSUME DatabaseInv, NEW ok \in BOOLEAN, Migrate(ok)
  PROVE  DatabaseInv'
<1>1. At("migrate") /\ ~At("down") /\ main.at \in WithSchema /\ UNCHANGED config
  BY StageNames DEF Migrate, At
<1>2. config \in Setting \cup {NoFile, Torn}
  BY DEF DatabaseInv, MainTypeOK
<1>3. CASE mig = NoMigration /\ Goto("sched") /\ UNCHANGED <<dbVars, faults>>
  BY <1>1, <1>2, <1>3, StageNames, GotoStep
<1>4. CASE checkAndMigrateDatabase(main.db, ok) /\ UNCHANGED main
  BY <1>1, <1>4, CheckKeeps
<1>5. CASE /\ mig' = NoMigration /\ Goto("sched")
           /\ UNCHANGED <<dbState, schema, rows, faults>>
  <2>1. main \in [at : Stage, db : Db \cup {NoFile}, port : {0, 1}, attempt : 1..MaxAttempts]
    BY DEF DatabaseInv, MainTypeOK
  <2>2. main' = [at |-> "sched", db |-> main.db, port |-> main.port, attempt |-> main.attempt]
    BY <1>5, <2>1 DEF Goto
  <2>3. MainTypeOK'
    BY <1>1, <2>1, <2>2, StageNames DEF DatabaseInv, MainTypeOK, At
  <2>4. MigrationTypeOK'
    BY <1>5 DEF DatabaseInv, MigrationTypeOK, NoMigration, MigrationStage
  <2>5. schema'[main'.db] = Len(Schema)
    BY <1>1, <1>5, <2>2 DEF DatabaseInv
  <2> QED BY <1>5, <2>3, <2>4, <2>5, QuietDatabase
<1> QED BY <1>3, <1>4, <1>5 DEF Migrate

\* Every step of main on its way up.
LEMMA BootKeeps ==
  ASSUME DatabaseInv, Boot
  PROVE  DatabaseInv'
<1>0. config \in Setting \cup {NoFile, Torn}
  BY DEF DatabaseInv, MainTypeOK
<1>1. CASE LoadConfig
  BY <1>1, LoadKeeps
<1>2. CASE StartScheduler
  <2>1. PICK a \in {"port", "listen"} : Goto(a)
    BY <1>2 DEF StartScheduler
  <2>2. mig = NoMigration /\ ~At("down") /\ main.at \in WithSchema
    BY <1>2, StageNames DEF StartScheduler, DatabaseInv, At
  <2>3. UNCHANGED <<dbVars, config>>
    BY <1>2 DEF StartScheduler
  <2> QED BY <1>0, <2>1, <2>2, <2>3, StageNames, GotoStep
<1>3. CASE PickPort
  <2>1. main \in [at : Stage, db : Db \cup {NoFile}, port : {0, 1}, attempt : 1..MaxAttempts]
    BY DEF DatabaseInv, MainTypeOK
  <2>2. main' = [at |-> "savePort", db |-> main.db, port |-> 1, attempt |-> main.attempt]
    BY <1>3, <2>1 DEF PickPort
  <2>3. mig = NoMigration /\ ~At("down") /\ main.at \in WithSchema
    BY <1>3, StageNames DEF PickPort, DatabaseInv, At
  <2>4. UNCHANGED <<dbVars, config>>
    BY <1>3 DEF PickPort
  <2>5. main.attempt \in 1..MaxAttempts /\ 1 \in {0, 1} /\ "savePort" \in Stage \ {"down"}
    BY <2>1, StageNames
  <2> QED BY <1>0, <2>2, <2>3, <2>4, <2>5, GotoKeeps
<1>4. ASSUME NEW ok \in BOOLEAN, SaveDirectories(ok) PROVE DatabaseInv'
  <2>1. SaveYAMLConfig("save", "saving", "pool", ok) /\ UNCHANGED dbVars
    BY <1>4 DEF SaveDirectories
  <2>2. {"save", "saving", "pool"} \subseteq Stage \ {"down", "migrate"}
    BY StageNames
  <2>3. {"saving", "pool"} \cap WithSchema = {}
    BY StageNames
  <2> QED BY <2>1, <2>2, <2>3, SaveKeeps
<1>5. ASSUME NEW ok \in BOOLEAN, SavePort(ok) PROVE DatabaseInv'
  <2>1. SaveYAMLConfig("savePort", "savingPort", "listen", ok) /\ UNCHANGED dbVars
    BY <1>5 DEF SavePort
  <2>2. {"savePort", "savingPort", "listen"} \subseteq Stage \ {"down", "migrate"}
    BY StageNames
  <2>3. {"savePort", "savingPort"} \subseteq WithSchema
    BY StageNames
  <2> QED BY <2>1, <2>2, <2>3, SaveKeeps
<1>6. ASSUME NEW ok \in BOOLEAN, OpenPool(ok) PROVE DatabaseInv'
  <2>1. CASE ok
    <3>1. At("pool") /\ Goto("schema") /\ UNCHANGED <<dbVars, config>>
      BY <1>6, <2>1 DEF OpenPool
    <3>2. mig = NoMigration /\ ~At("down")
      BY <3>1 DEF DatabaseInv, At
    <3>3. "schema" \in Stage \ {"down"} /\ "schema" \notin WithSchema
      BY StageNames
    <3> QED BY <1>0, <3>1, <3>2, <3>3, GotoStep
  <2>2. CASE ~ok
    BY <1>6, <2>2, DownKeeps DEF OpenPool, ProcessEnds, DatabaseInv, MigrationTypeOK
  <2> QED BY <2>1, <2>2
<1>7. ASSUME NEW ok \in BOOLEAN, Listen(ok) PROVE DatabaseInv'
  <2>1. CASE ok
    <3>1. At("listen") /\ Goto("tor") /\ UNCHANGED <<dbVars, config>>
      BY <1>7, <2>1 DEF Listen
    <3>2. mig = NoMigration /\ ~At("down") /\ main.at \in WithSchema
      BY <3>1, StageNames DEF DatabaseInv, At
    <3> QED BY <1>0, <3>1, <3>2, StageNames, GotoStep
  <2>2. CASE ~ok
    BY <1>7, <2>2, DownKeeps DEF Listen, ProcessEnds, DatabaseInv, MigrationTypeOK
  <2> QED BY <2>1, <2>2
<1>8. ASSUME NEW ok \in BOOLEAN, StartTor(ok) PROVE DatabaseInv'
  <2>1. UNCHANGED <<dbVars, config>> /\ At("tor") /\ (UNCHANGED main \/ Goto("loop"))
    BY <1>8 DEF StartTor
  <2>2. mig = NoMigration /\ ~At("down") /\ main.at \in WithSchema
    BY <2>1, StageNames DEF DatabaseInv, At
  <2>3. CASE UNCHANGED main
    BY <1>0, <2>1, <2>3, StayKeeps
  <2>4. CASE Goto("loop")
    BY <1>0, <2>1, <2>2, <2>4, StageNames, GotoStep
  <2> QED BY <2>1, <2>3, <2>4
<1> QED BY <1>1, <1>2, <1>3, <1>4, <1>5, <1>6, <1>7, <1>8, InitSchemaKeeps, MigrateKeeps DEF Boot

\* Every step of main on its way down.
LEMMA ShutdownKeeps ==
  ASSUME DatabaseInv, Shutdown
  PROVE  DatabaseInv'
<1>0. config \in Setting \cup {NoFile, Torn}
  BY DEF DatabaseInv, MainTypeOK
<1>1. ASSUME NEW a \in {"http", "torStop", "schedStop"}, Goto(a), UNCHANGED <<dbVars, config>>,
             main.at \in {"audit", "http", "torStop"}
      PROVE  DatabaseInv'
  <2>1. mig = NoMigration /\ ~At("down") /\ main.at \in WithSchema
    BY <1>1, StageNames DEF DatabaseInv, At
  <2>2. a \in Stage \ {"down"}
    BY StageNames
  <2> QED BY <1>0, <1>1, <2>1, <2>2, GotoStep
<1>2. CASE StopAudit
  BY <1>1, <1>2 DEF StopAudit, At
<1>3. CASE StopHTTP
  BY <1>1, <1>3 DEF StopHTTP, At
<1>4. ASSUME NEW ok \in BOOLEAN, StopTor(ok) PROVE DatabaseInv'
  BY <1>1, <1>4 DEF StopTor, At
<1>5. CASE StopScheduler
  BY <1>5, DownKeeps DEF StopScheduler, ProcessEnds, DatabaseInv, MigrationTypeOK
<1> QED BY <1>2, <1>3, <1>4, <1>5 DEF Shutdown

\* A step of the server keeps the invariant of its database.
LEMMA DatabaseStep ==
  ASSUME DatabaseInv, [Next]_vars
  PROVE  DatabaseInv'
<1>0. config \in Setting \cup {NoFile, Torn}
  BY DEF DatabaseInv, MainTypeOK
<1>1. ASSUME ProcessEnds PROVE DatabaseInv'
  BY <1>1, DownKeeps DEF ProcessEnds, DatabaseInv, MigrationTypeOK
<1>2. CASE Update
  <2>1. CASE RestartSelf
    BY <1>1, <2>1 DEF RestartSelf
  <2>2. CASE UNCHANGED <<dbVars, main, config>>
    BY <1>0, <2>2, StayKeeps
  <2> QED BY <1>2, <2>1, <2>2
    DEF Update, UpdateCheck, RestartService, UpdateStep, RestartReturns, Releases, procVars
<1>3. CASE EditConfig
  <2>1. UNCHANGED <<dbVars, main>>
    BY <1>3 DEF EditConfig
  <2>2. config' \in Setting \cup {NoFile, Torn}
    BY <1>0, <1>3 DEF EditConfig, Setting
  <2> QED BY <2>1, <2>2, StayKeeps
<1>4. CASE \E s \in Signal : SendSignal(s)
  BY <1>0, <1>4, StayKeeps DEF SendSignal
<1>5. CASE TakeSignal
  <2>1. PICK a \in {"audit", "loop"} : Goto(a)
    BY <1>5 DEF TakeSignal
  <2>2. UNCHANGED <<dbVars, config>> /\ At("loop")
    BY <1>5 DEF TakeSignal
  <2>3. mig = NoMigration /\ ~At("down") /\ main.at \in WithSchema
    BY <2>2, StageNames DEF DatabaseInv, At
  <2> QED BY <1>0, <2>1, <2>2, <2>3, StageNames, GotoStep
<1>6. CASE ServerFails \/ ManagerKills \/ Crash
  BY <1>1, <1>6 DEF ServerFails, ManagerKills, Crash
<1>7. CASE UNCHANGED vars
  BY <1>0, <1>7, StayKeeps DEF vars, procVars
<1> QED BY <1>2, <1>3, <1>4, <1>5, <1>6, <1>7, BootKeeps, ShutdownKeeps, RequestKeeps DEF Next

\* The invariant of the database holds throughout.
THEOREM DatabaseInvariance == Spec => []DatabaseInv
<1>1. Init => DatabaseInv
  <2> SUFFICES ASSUME Init PROVE DatabaseInv
    OBVIOUS
  <2>1. mig = NoMigration /\ main = Down /\ config = NoFile
    BY DEF Init, MigrationInit
  <2>2. mig.at = "idle" /\ main.at = "down"
    BY <2>1 DEF NoMigration, Down
  <2>3. MigrationTypeOK
    BY SchemaLength DEF Init, MigrationInit, MigrationTypeOK, NoMigration, MigrationStage
  <2>4. MainTypeOK
    BY <2>1, AttemptAssumption DEF MainTypeOK, Down, Stage, At
  <2> QED BY <2>1, <2>2, <2>3, <2>4, StageNames DEF DatabaseInv, SwitchIsComplete, At
<1>2. DatabaseInv /\ [Next]_vars => DatabaseInv'
  BY DatabaseStep
<1> QED BY <1>1, <1>2, PTL DEF Spec

\* A server that answers requests has a database with the whole schema, and
\* .db-state switches only to a database that has every paste of the one it
\* named, over any number of starts, failed copies and crashes (InitDB,
\* checkAndMigrateDatabase, MigrateDatabase).
THEOREM DatabaseIsReady == Spec => []DatabaseReady
<1>1. DatabaseInv => DatabaseReady
  BY StageNames DEF DatabaseInv, DatabaseReady, Serving
<1> QED BY <1>1, DatabaseInvariance, PTL

-----------------------------------------------------------------------------
(***************************************************************************)
(* Types                                                                   *)
(***************************************************************************)

\* Faults, signals and the scheduler keep their types.
LEMMA ProcessStep ==
  ASSUME ProcessTypeOK, [Next]_vars
  PROVE  ProcessTypeOK'
<1>1. ASSUME NEW ok \in BOOLEAN, Outcome(ok) PROVE faults' \in 0..MaxFaults
  BY <1>1, FaultAssumption DEF Outcome, ProcessTypeOK
<1>2. ASSUME ProcessEnds PROVE sig' = NoFile /\ sched' = "off"
  BY <1>2 DEF ProcessEnds
<1>3. ASSUME NEW s \in Signal, Notify(s) PROVE sig' \in Signal \cup {NoFile}
  BY <1>3 DEF Notify, ProcessTypeOK
<1>4. CASE Boot
  <2>1. CASE LoadConfig \/ StartScheduler \/ PickPort
    BY <2>1 DEF LoadConfig, StartScheduler, PickPort, ProcessTypeOK
  <2>2. ASSUME NEW ok \in BOOLEAN, OpenPool(ok) \/ Listen(ok) PROVE ProcessTypeOK'
    BY <1>1, <1>2, <2>2 DEF OpenPool, Listen, ProcessTypeOK
  <2>3. ASSUME NEW ok \in BOOLEAN, SaveDirectories(ok) \/ SavePort(ok) \/ InitSchema(ok)
        PROVE  ProcessTypeOK'
    BY <1>1, <2>3 DEF SaveDirectories, SavePort, InitSchema, ProcessTypeOK
  <2>4. ASSUME NEW ok \in BOOLEAN, Migrate(ok) \/ StartTor(ok) PROVE ProcessTypeOK'
    BY <1>1, <2>4 DEF Migrate, StartTor, ProcessTypeOK
  <2> QED BY <1>4, <2>1, <2>2, <2>3, <2>4 DEF Boot
<1>5. CASE Update
  <2>1. ASSUME NEW u \in Updater, UpdateCheck(u) PROVE ProcessTypeOK'
    BY <2>1 DEF UpdateCheck, procVars, ProcessTypeOK
  <2>2. ASSUME NEW u \in Updater, RestartService(u) PROVE ProcessTypeOK'
    <3>1. "shutdown" \in Signal
      BY DEF Signal
    <3> QED BY <1>3, <2>2, <3>1 DEF RestartService, ProcessTypeOK
  <2>3. ASSUME NEW u \in Updater, NEW ok \in BOOLEAN, UpdateStep(u, ok) PROVE ProcessTypeOK'
    BY <1>1, <2>3 DEF UpdateStep, ProcessTypeOK
  <2>4. CASE RestartSelf
    BY <1>2, <2>4 DEF RestartSelf, ProcessTypeOK
  <2>5. CASE RestartReturns \/ Releases
    BY <2>5 DEF RestartReturns, Releases, procVars, ProcessTypeOK
  <2> QED BY <1>5, <2>1, <2>2, <2>3, <2>4, <2>5 DEF Update
<1>6. CASE Shutdown
  <2>1. CASE StopAudit \/ StopHTTP
    BY <2>1 DEF StopAudit, StopHTTP, ProcessTypeOK
  <2>2. ASSUME NEW ok \in BOOLEAN, StopTor(ok) PROVE ProcessTypeOK'
    BY <1>1, <2>2 DEF StopTor, ProcessTypeOK
  <2>3. CASE StopScheduler
    BY <1>2, <2>3 DEF StopScheduler, ProcessTypeOK
  <2> QED BY <1>6, <2>1, <2>2, <2>3 DEF Shutdown
<1>7. CASE ServerFails \/ Crash
  BY <1>1, <1>2, <1>7 DEF ServerFails, Crash, ProcessTypeOK
<1>8. CASE ManagerKills
  BY <1>2, <1>8 DEF ManagerKills, ProcessTypeOK
<1>9. CASE EditConfig \/ TakeSignal
  BY <1>9 DEF EditConfig, TakeSignal, ProcessTypeOK
<1>10. ASSUME NEW s \in Signal, SendSignal(s) PROVE ProcessTypeOK'
  BY <1>3, <1>10 DEF SendSignal, ProcessTypeOK
<1>11. ASSUME NEW ok \in BOOLEAN, Request(ok) PROVE ProcessTypeOK'
  BY <1>1, <1>11 DEF Request, ProcessTypeOK
<1>12. CASE UNCHANGED vars
  BY <1>12 DEF vars, procVars, ProcessTypeOK
<1> QED BY <1>4, <1>5, <1>6, <1>7, <1>8, <1>9, <1>10, <1>11, <1>12 DEF Next

\* Every variable of the server and of the modules it composes keeps its type.
THEOREM TypeCorrect == Spec => []TypeOK
<1>1. Init => ProcessTypeOK
  BY FaultAssumption DEF Init, ProcessTypeOK
<1>2. ProcessTypeOK /\ [Next]_vars => ProcessTypeOK'
  BY ProcessStep
<1>3. UpdaterInv /\ TorInv /\ DatabaseInv /\ ProcessTypeOK => TypeOK
  BY DEF UpdaterInv, TorInv, DatabaseInv, MainTypeOK, ProcessTypeOK, TypeOK
<1> QED BY <1>1, <1>2, <1>3, UpdaterInvariance, TorInvariance, DatabaseInvariance, PTL DEF Spec
=============================================================================
