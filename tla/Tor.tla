-------------------------------- MODULE Tor --------------------------------
(***************************************************************************)
(* The Tor hidden service, src/tor, as the server drives it: Manager.Start *)
(* once at boot and Manager.Stop at shutdown. The address of the service   *)
(* is the key it was created with; the key file is what makes it the same  *)
(* one after a restart. The Tor process and its control port are external: *)
(* ok says whether they did what they were asked.                          *)
(***************************************************************************)
EXTENDS Naturals, FiniteSets

CONSTANTS
  Onion,    \* addresses, each with its key
  NoOnion   \* no address; no usable key in the file

ASSUME OnionAssumption == NoOnion \notin Onion /\ IsFiniteSet(Onion)

VARIABLES
  keyFile,    \* hs_ed25519_secret_key: a key, or NoOnion when missing or empty
  tor,        \* Service: stage of Start, torInstance, running, hostname
  published,  \* history: every address that was reachable at some time
  keyLost     \* history: keys that a start could not read, or could not save

torVars == <<keyFile, tor, published, keyLost>>

NoService == [at |-> "idle", instance |-> FALSE, running |-> FALSE, hostname |-> NoOnion]

TorInit ==
  /\ keyFile = NoOnion
  /\ tor = NoService
  /\ published = {}
  /\ keyLost = 0

\* Start up to the bootstrapped Tor process. Without a binary the service is
\* disabled; without directories, a process or the network it is given up.
TorStart(ok) ==
  /\ tor.at = "idle"
  /\ tor' = IF ok THEN [tor EXCEPT !.at = "onion", !.instance = TRUE]
                  ELSE [tor EXCEPT !.at = "done"]
  /\ UNCHANGED <<keyFile, published, keyLost>>

\* A fresh key, which Tor has never drawn before; which one does not matter.
GenKey == CHOOSE a \in Onion : a \notin published

AlwaysFresh(ok) ==
  /\ tor.at = "onion"
  /\ IF ok
     THEN /\ published # Onion
          /\ tor' = [tor EXCEPT !.at = "empty", !.hostname = GenKey]
          /\ published' = published \cup {GenKey}
     ELSE tor' = [tor EXCEPT !.at = "done", !.instance = FALSE] /\ UNCHANGED published
  /\ UNCHANGED <<keyFile, keyLost>>

\* The key of the file or a new one, and ADD_ONION: the address is reachable
\* from here on. Tor hands a key back, to be saved, only when it made it. A key
\* file that cannot be read is taken for none, and its key is given up.
AddOnion(ok) ==
  /\ tor.at = "onion"
  /\ \/ /\ ok /\ keyFile # NoOnion
        /\ tor' = [tor EXCEPT !.at = "up", !.hostname = keyFile]
        /\ published' = published \cup {keyFile}
        /\ UNCHANGED keyLost
     \/ /\ ok = (keyFile = NoOnion) /\ published # Onion
        /\ tor' = [tor EXCEPT !.at = "empty", !.hostname = GenKey]
        /\ published' = published \cup {GenKey}
        /\ keyLost' = IF ok THEN keyLost ELSE keyLost + 1
     \/ /\ ~ok
        /\ tor' = [tor EXCEPT !.at = "done", !.instance = FALSE]
        /\ UNCHANGED <<published, keyLost>>
  /\ UNCHANGED keyFile

\* A key is not saved. It counts as lost unless the file still has another.
NotSaved == keyLost' = IF keyFile = NoOnion THEN keyLost + 1 ELSE keyLost

\* saveOnionKey empties the file and fills it; a failure is only logged.
EmptyKey(ok) ==
  /\ tor.at = "empty"
  /\ tor' = [tor EXCEPT !.at = IF ok THEN "fill" ELSE "up"]
  /\ keyFile' = IF ok THEN NoOnion ELSE keyFile
  /\ IF ok THEN UNCHANGED keyLost ELSE NotSaved
  /\ UNCHANGED published

FillKey(ok) ==
  /\ tor.at = "fill"
  /\ tor' = [tor EXCEPT !.at = "up"]
  /\ keyFile' = IF ok THEN tor.hostname ELSE keyFile
  /\ IF ok THEN UNCHANGED keyLost ELSE NotSaved
  /\ UNCHANGED published

\* The dialer, whose failure is only logged, and s.running = true.
TorUp ==
  /\ tor.at = "up"
  /\ tor' = [tor EXCEPT !.at = "done", !.running = TRUE]
  /\ UNCHANGED <<keyFile, published, keyLost>>

\* Manager.Start.
ManagerStart(ok) ==
  \/ TorStart(ok) \/ AddOnion(ok) \/ EmptyKey(ok) \/ FillKey(ok)
  \/ TorUp /\ ok

\* Manager.Stop: a Close that fails leaves the instance and running as they are.
ManagerStop(ok) ==
  /\ tor' = IF ok \/ ~tor.instance
            THEN [tor EXCEPT !.instance = FALSE, !.running = FALSE] ELSE tor
  /\ UNCHANGED <<keyFile, published, keyLost>>

\* The process ends; a key it was about to save is gone.
TorGone ==
  /\ tor' = NoService
  /\ IF tor.at \in {"empty", "fill"} THEN NotSaved ELSE UNCHANGED keyLost
  /\ UNCHANGED <<keyFile, published>>

-----------------------------------------------------------------------------
TorTypeOK ==
  /\ keyFile \in Onion \cup {NoOnion}
  /\ tor \in [at : {"idle", "onion", "empty", "fill", "up", "done"},
              instance : BOOLEAN, running : BOOLEAN, hostname : Onion \cup {NoOnion}]
  /\ published \subseteq Onion
  /\ keyLost \in Nat

\* The server keeps its .onion address over restarts and crashes: it has one
\* more for every time that a start could not read the key of the file, or
\* that the save of the only key failed or was cut short, and for nothing else
\* (Service.Start, saveOnionKey).
OneAddress == Cardinality(published) <= 1 + keyLost
=============================================================================
