---------------------------- MODULE PasswordFile ----------------------------
(***************************************************************************)
(* The password file of a private instance, src/caspasswd, with its users: *)
(* logins (src/web/auth.go) that move a bcrypt hash to Argon2id in a       *)
(* goroutine of their own, the credentials generated at start, and the     *)
(* operator, who edits the file by hand. Nothing locks the file. A rewrite *)
(* empties it and then writes all of it; a read takes what is there.       *)
(* Passwords are numbered in the order they are set. The login's throttle  *)
(* is BruteForce.tla. A login that needs no rewrite is not a step.         *)
(***************************************************************************)
EXTENDS Naturals

CONSTANTS
  Name,         \* users
  Admin,        \* the user of generated credentials
  Worker,       \* goroutines of RehashPassword
  Missing,      \* no file
  Garbled,      \* a file LoadFile rejects
  NoHash,       \* no line for the user
  MaxPassword   \* bound: passwords ever set

ASSUME NameAssumption == Admin \in Name
ASSUME PasswordAssumption == MaxPassword \in Nat

\* A line of the file: which password, and how it is hashed.
Hash == [pw : 1..MaxPassword, alg : {"bcrypt", "argon2id"}]

ASSUME FileAssumption ==
  /\ NoHash \notin Hash
  /\ Missing # Garbled
  /\ {Missing, Garbled} \cap [Name -> Hash \cup {NoHash}] = {}

VARIABLES
  file,       \* the password file
  server,     \* down, generate, generating, up
  job,        \* per goroutine: its step, the login it follows, the data it loaded
  known,      \* per user: the password that was last set, 0 for none
  issued,     \* passwords set so far
  retired,    \* history: passwords replaced while no rewrite had them in hand
  disturbed   \* history: a rewrite overlapped with another, or was cut short

pwVars == <<file, server, job, known, issued, retired, disturbed>>

Data    == [Name -> Hash \cup {NoHash}]
NoUsers == [u \in Name |-> NoHash]
NoJob   == [at |-> "idle", user |-> Admin, pw |-> 0, data |-> NoUsers]

Argon(pw) == [pw |-> pw, alg |-> "argon2id"]

PasswordInit ==
  /\ file = Missing
  /\ server = "down"
  /\ job = [w \in Worker |-> NoJob]
  /\ known = [u \in Name |-> 0]
  /\ issued = 0
  /\ retired = {}
  /\ disturbed = FALSE

\* LoadFile succeeds; an empty file has no users and is no error.
Loads == file \in Data

FileExistsAndHasUsers == Loads /\ file # NoUsers

Check(u, pw)   == file[u] # NoHash /\ file[u].pw = pw
NeedsRehash(u) == file[u] # NoHash /\ file[u].alg = "bcrypt"

RehashesUnchecked(u, pw) == Loads /\ NeedsRehash(u)

\* The login is good, and its hash is an old one.
LoadAndCheckWithRehash(u, pw) == Loads /\ Check(u, pw) /\ NeedsRehash(u)

Working == \E w \in Worker : job[w].at # "idle"

-----------------------------------------------------------------------------
\* Start: when nobody could log in, a private instance makes up credentials.
Boot(public) ==
  /\ server = "down"
  /\ server' = IF public \/ FileExistsAndHasUsers THEN "up" ELSE "generate"
  /\ UNCHANGED <<file, job, known, issued, retired, disturbed>>

\* os.WriteFile opens the file, which empties it, and writes: by then the
\* file may hold what another has written, of which a longer one leaves its
\* tail behind, or be another file, when an editor has renamed one into place.
Written(data) == {data} \cup IF file = NoUsers THEN {} ELSE {Garbled, file}

\* GenerateCredentialsFile; an error ends the process.
GenerateOpen ==
  /\ server = "generate"
  /\ server' = "generating"
  /\ file' = NoUsers
  /\ UNCHANGED <<job, known, issued, retired, disturbed>>

GenerateWrite ==
  /\ server = "generating"
  /\ issued < MaxPassword
  /\ server' = "up"
  /\ issued' = issued + 1
  /\ file' \in Written([NoUsers EXCEPT ![Admin] = Argon(issued + 1)])
  /\ known' = [known EXCEPT ![Admin] = issued + 1]
  /\ UNCHANGED <<job, retired, disturbed>>

\* handleLoginSubmit lets the user in and starts a goroutine.
handleLoginSubmit(w, u, pw) ==
  /\ server = "up"
  /\ job[w].at = "idle"
  /\ LoadAndCheckWithRehash(u, pw)
  /\ job' = [job EXCEPT ![w] = [at |-> "load", user |-> u, pw |-> pw, data |-> NoUsers]]
  /\ disturbed' = (disturbed \/ Working)
  /\ UNCHANGED <<file, server, known, issued, retired>>

\* RehashPassword reads the file a second time. The user of the login may be
\* gone from it by now; an error ends the goroutine.
RehashLoad(w) ==
  /\ job[w].at = "load"
  /\ job' = [job EXCEPT ![w] = IF Loads THEN [@ EXCEPT !.at = "open", !.data = file] ELSE NoJob]
  /\ UNCHANGED <<file, server, known, issued, retired, disturbed>>

RehashOpen(w) ==
  /\ job[w].at = "open"
  /\ job' = [job EXCEPT ![w].at = "write"]
  /\ file' = NoUsers
  /\ UNCHANGED <<server, known, issued, retired, disturbed>>

WritesOneUser(w) ==
  /\ job[w].at = "write"
  /\ file' \in Written([NoUsers EXCEPT ![job[w].user] = Argon(job[w].pw)])
  /\ job' = [job EXCEPT ![w] = NoJob]
  /\ UNCHANGED <<server, known, issued, retired, disturbed>>

\* writePasswordFile
RehashWrite(w) ==
  /\ job[w].at = "write"
  /\ file' \in Written([job[w].data EXCEPT ![job[w].user] = Argon(job[w].pw)])
  /\ job' = [job EXCEPT ![w] = NoJob]
  /\ UNCHANGED <<server, known, issued, retired, disturbed>>

\* The disk is full: nothing or a part is written, and nobody is told.
RehashFails(w) ==
  /\ job[w].at = "write"
  /\ file' \in {file, Garbled}
  /\ job' = [job EXCEPT ![w] = NoJob]
  /\ disturbed' = TRUE
  /\ UNCHANGED <<server, known, issued, retired>>

GenerateFails ==
  /\ server = "generating"
  /\ file' \in {file, Garbled}
  /\ server' = "down"
  /\ disturbed' = TRUE
  /\ UNCHANGED <<job, known, issued, retired>>

\* The process ends, with a rewrite perhaps half done.
ServerEnds ==
  /\ server # "down"
  /\ server' = "down"
  /\ disturbed' = (disturbed \/ server = "generating" \/ \E w \in Worker : job[w].at = "write")
  /\ job' = [w \in Worker |-> NoJob]
  /\ UNCHANGED <<file, known, issued, retired>>

-----------------------------------------------------------------------------
\* The operator puts a line for u into the file, or takes it out. A rewrite
\* with u's old line in hand, or for u's old password, brings it back.
Edit(u, line, pw) ==
  /\ file # Garbled
  /\ file' = [IF file = Missing THEN NoUsers ELSE file EXCEPT ![u] = line]
  /\ known' = [known EXCEPT ![u] = pw]
  /\ retired' = IF \E w \in Worker : \/ job[w].at \in {"open", "write"}
                                     \/ job[w].at = "load" /\ job[w].user = u
                THEN retired ELSE retired \cup ({u} \X (1..issued))
  /\ disturbed' = (disturbed \/ Working \/ server \in {"generate", "generating"})
  /\ UNCHANGED <<server, job>>

SetPassword(u, alg) ==
  /\ issued < MaxPassword
  /\ issued' = issued + 1
  /\ Edit(u, [pw |-> issued + 1, alg |-> alg], issued + 1)

RemoveUser(u) ==
  /\ Loads /\ file[u] # NoHash
  /\ Edit(u, NoHash, 0)
  /\ UNCHANGED issued

PasswordNext ==
  \/ \E public \in BOOLEAN : Boot(public)
  \/ GenerateOpen \/ GenerateWrite \/ GenerateFails
  \/ \E w \in Worker, u \in Name, pw \in 1..MaxPassword : handleLoginSubmit(w, u, pw)
  \/ \E w \in Worker : RehashLoad(w) \/ RehashOpen(w) \/ RehashWrite(w) \/ RehashFails(w)
  \/ ServerEnds
  \/ \E u \in Name, alg \in {"bcrypt", "argon2id"} : SetPassword(u, alg)
  \/ \E u \in Name : RemoveUser(u)

PasswordSpec == PasswordInit /\ [][PasswordNext]_pwVars

-----------------------------------------------------------------------------
(***************************************************************************)
(* Properties                                                              *)
(***************************************************************************)

PasswordTypeOK ==
  /\ file \in Data \cup {Missing, Garbled}
  /\ server \in {"down", "generate", "generating", "up"}
  /\ job \in [Worker -> [at : {"idle", "load", "open", "write"}, user : Name,
                         pw : 0..MaxPassword, data : Data]]
  /\ known \in [Name -> 0..MaxPassword]
  /\ issued \in 0..MaxPassword
  /\ retired \subseteq Name \X (1..MaxPassword)
  /\ disturbed \in BOOLEAN

\* A password that was replaced, or whose user was removed, while no rewrite
\* had the old line in hand never opens the door again, however later
\* rewrites overlap, fail or are cut short by a crash (LoadAndCheckWithRehash,
\* RehashPassword).
RetiredStaysRetired ==
  Loads => \A u \in Name : file[u] # NoHash => <<u, file[u].pw>> \notin retired

\* Rewrites one at a time, none cut short, lose nobody and change nobody's
\* password: between two of them each user has a line, and it is for the
\* password that was last set (RehashPassword, GenerateCredentialsFile).
RewriteKeepsEveryone ==
  ~disturbed /\ server # "generating" /\ (\A w \in Worker : job[w].at # "write") =>
    \A u \in Name :
      IF known[u] = 0 THEN Loads => file[u] = NoHash
                      ELSE Loads /\ Check(u, known[u])
=============================================================================
