-------------------------------- MODULE GeoIP --------------------------------
(***************************************************************************)
(* The country and network databases, src/geoip: the two files on disk,    *)
(* the readers the client holds open, the weekly task that downloads both  *)
(* and reloads them, and the lookup that decides whether an address is     *)
(* blocked. The process may end at any step of the task and start again on *)
(* the same directory. A database is the number of its edition; the mirror *)
(* may publish an edition that cannot be opened, and a load may fail to    *)
(* open one that can.                                                      *)
(***************************************************************************)
EXTENDS Integers

CONSTANTS
  Country,      \* country codes
  Unknown,      \* the code "XX"
  Private,      \* an address that is private, loopback or link local
  Absent,       \* no file, no reader
  Cut,          \* a file that was only partly written
  MaxEdition    \* bound: editions the mirror publishes

ASSUME GeoAssumption ==
  /\ MaxEdition \in Nat
  /\ Unknown \notin Country /\ Private \notin Country \cup {Unknown}
  /\ {Absent, Cut} \cap Nat = {} /\ Absent # Cut

Database == {"asn", "country"}

VARIABLES
  mirror,       \* per kind: the edition published now
  broken,       \* per kind: the published editions that cannot be opened
  disk,         \* per kind: asn.mmdb, country.mmdb
  reader,       \* per kind: Client.asnDB, Client.countryDB
  client,       \* the running process: Client.enabled and denySet
  update,       \* UpdateDatabases: the step it is at, errs, the .tmp file
  opened        \* history: the newest country edition opened since a load
                \* failed on a good file or met one published broken, or 0

geoVars == <<mirror, broken, disk, reader, client, update, opened>>

NoUpdate == [at |-> "idle", errs |-> FALSE, tmp |-> Absent]
Down     == [up |-> FALSE, enabled |-> FALSE, deny |-> {}]
Closed   == [k \in Database |-> Absent]

\* maxminddb.Open looks for the metadata at the end of the file.
Opens(k, d) == d[k] \in Nat \ broken[k]
Read(k, d)  == IF Opens(k, d) THEN d[k] ELSE Absent

-----------------------------------------------------------------------------
\* What a load can find of the file of k: what it is; by an error of os.Stat
\* no file; by an error of maxminddb.Open one that does not open.
Found(k) == IF disk[k] = Absent THEN {Absent} ELSE {disk[k], Absent, Cut}

\* Both readers are closed and opened again under Client.mu. A file that is
\* not there is skipped; the first one that does not open ends the function.
LoadDatabase(d) ==
  [Closed EXCEPT !["country"] = Read("country", d),
                 !["asn"] = IF Opens("country", d) \/ d["country"] = Absent
                            THEN Read("asn", d) ELSE Absent]

\* The readers after a load, and what it means for the history.
Load ==
  \E country \in Found("country"), asn \in Found("asn") :
    LET r == LoadDatabase([country |-> country, asn |-> asn])
    IN  /\ reader' = r
        /\ opened' = CASE country # disk["country"] \/ country \in broken["country"] -> 0
                       [] r["country"] \in Nat /\ r["country"] > opened -> r["country"]
                       [] OTHER -> opened

\* NewClient and the load at start, with what the configuration says now.
Start(enabled, deny) ==
  /\ ~client.up
  /\ client' = [up |-> TRUE, enabled |-> enabled, deny |-> deny]
  /\ IF enabled THEN Load ELSE UNCHANGED <<reader, opened>>
  /\ UNCHANGED <<mirror, broken, disk, update>>

\* The process ends; a download is cut off and leaves its .tmp behind.
End ==
  /\ client.up
  /\ client' = Down
  /\ reader' = Closed
  /\ update' = NoUpdate
  /\ UNCHANGED <<mirror, broken, disk, opened>>

\* The geoip_update task begins, on schedule or by hand; the scheduler runs
\* a task once at a time. It is registered only where GeoIP is enabled.
UpdateDatabases ==
  /\ client.enabled
  /\ update = NoUpdate
  /\ update' = [NoUpdate EXCEPT !.at = "asn"]
  /\ UNCHANGED <<mirror, broken, disk, reader, client, opened>>

\* Where the task goes from the download of k; an error is kept for later.
After(k, failed) ==
  [at |-> IF k = "asn" THEN "country" ELSE "load",
   errs |-> update.errs \/ failed, tmp |-> Absent]

\* The answer goes straight into the file that is in use.
WritesInPlace(k) ==
  /\ update.at = k
  /\ \/ /\ update.tmp = Absent
        /\ update' = [update EXCEPT !.tmp = mirror[k]]
        /\ disk' = [disk EXCEPT ![k] = Cut]
     \/ /\ update.tmp # Absent
        /\ disk' = [disk EXCEPT ![k] = update.tmp]
        /\ update' = After(k, FALSE)
  /\ UNCHANGED <<mirror, broken, reader, client, opened>>

\* downloadFile: the answer is copied to a .tmp file, which then takes the
\* place of the database; what it holds is not looked at. Each step may fail.
downloadFile(k) ==
  /\ update.at = k
  /\ \/ /\ update.tmp = Absent /\ mirror[k] > 0
        /\ update' = [update EXCEPT !.tmp = mirror[k]]
        /\ UNCHANGED disk
     \/ /\ update.tmp # Absent
        /\ disk' = [disk EXCEPT ![k] = update.tmp]
        /\ update' = After(k, FALSE)
     \/ /\ update' = After(k, TRUE)
        /\ UNCHANGED disk
  /\ UNCHANGED <<mirror, broken, reader, client, opened>>

\* The end of UpdateDatabases: one failed download and nothing is reloaded,
\* the file that did arrive waits for the next load.
Reload ==
  /\ update.at = "load"
  /\ IF update.errs THEN UNCHANGED <<reader, opened>> ELSE Load
  /\ update' = NoUpdate
  /\ UNCHANGED <<mirror, broken, disk, client>>

\* The mirror publishes the next edition of k, good or not. (external)
Publish(k, good) ==
  /\ mirror[k] < MaxEdition
  /\ mirror' = [mirror EXCEPT ![k] = @ + 1]
  /\ broken' = IF good THEN broken ELSE [broken EXCEPT ![k] = @ \cup {mirror[k] + 1}]
  /\ UNCHANGED <<disk, reader, client, update, opened>>

-----------------------------------------------------------------------------
\* What Lookup says of an address the databases place in country a. A
\* private address is never blocked; without a country database every
\* address is of the unknown country.
Lookup(a) ==
  LET code == IF a = Private \/ reader["country"] = Absent THEN Unknown ELSE a
  IN [code |-> code, blocked |-> a # Private /\ code \in client.deny]

GeoInit ==
  /\ mirror = [k \in Database |-> 0]
  /\ broken = [k \in Database |-> {}]
  /\ disk = Closed
  /\ reader = Closed
  /\ client = Down
  /\ update = NoUpdate
  /\ opened = 0

GeoNext ==
  \/ \E enabled \in BOOLEAN, deny \in SUBSET (Country \cup {Unknown}) : Start(enabled, deny)
  \/ End
  \/ UpdateDatabases
  \/ \E k \in Database : downloadFile(k)
  \/ Reload
  \/ \E k \in Database, good \in BOOLEAN : Publish(k, good)

GeoSpec == GeoInit /\ [][GeoNext]_geoVars

-----------------------------------------------------------------------------
(***************************************************************************)
(* Properties                                                              *)
(***************************************************************************)

\* Once a country database has been opened, a denied country stays blocked,
\* and by an edition no older, through failed downloads of either file,
\* reloads, a broken network database and restarts in the middle of an
\* update. Two things end it until a later load opens the file. The load may
\* fail on the country file, intact as it is, with the readers closed before
\* (LoadDatabase). Or the mirror published the file broken: downloadFile
\* replaces the good one without opening what it received, and the next good
\* one is not loaded before both downloads succeed.
CountryKept ==
  client.enabled /\ opened # 0 =>
    /\ reader["country"] # Absent /\ reader["country"] >= opened
    /\ \A a \in Country : a \in client.deny => Lookup(a).blocked
=============================================================================
