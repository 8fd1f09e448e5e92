--------------------------- MODULE Access_proofs ---------------------------
(***************************************************************************)
(* Proofs about the modules that MCAccess checks together: PasswordFile,   *)
(* Credentials, GeoIP, Csrf and Logs. They share no state and each has an  *)
(* inductive invariant of its own.                                         *)
(***************************************************************************)
EXTENDS PasswordFile, Credentials, GeoIP, Csrf, Logs, SequenceTheorems, TLAPS

-----------------------------------------------------------------------------
(***************************************************************************)
(* The password file                                                       *)
(***************************************************************************)

\* A file's lines hold no password that was retired.
Unretired(data) ==
  \A u \in Name : data[u] # NoHash => <<u, data[u].pw>> \notin retired

\* What the rewrites have in hand is not retired either, and passwords are
\* retired only after they were set.
HandsUnretired ==
  /\ \A w \in Worker :
       /\ job[w].at # "idle" => <<job[w].user, job[w].pw>> \notin retired
       /\ job[w].at \in {"open", "write"} => Unretired(job[w].data)
  /\ retired \subseteq Name \X (1..issued)

\* Each user has a line for the password that was last set, and nobody else.
Complete(data) ==
  \A u \in Name : IF known[u] = 0 THEN data[u] = NoHash
                                  ELSE data[u] # NoHash /\ data[u].pw = known[u]

\* Logins are answered by a running server only.
WorkersUp == server # "up" => \A w \in Worker : job[w].at = "idle"

\* While nothing has disturbed the rewrites there is one at a time; it has
\* everyone in hand and the password that was last set, and empties the file
\* before it writes. Credentials are made up only when there are none.
Undisturbed ==
  ~disturbed =>
    /\ \A v, w \in Worker : job[v].at # "idle" /\ job[w].at # "idle" => v = w
    /\ \A w \in Worker : job[w].at # "idle" =>
         /\ known[job[w].user] # 0 /\ job[w].pw = known[job[w].user]
         /\ job[w].at \in {"open", "write"} => Complete(job[w].data)
         /\ job[w].at = "write" => file = NoUsers
    /\ server \in {"generate", "generating"} => \A u \in Name : known[u] = 0
    /\ server = "generating" => file = NoUsers

\* A rewrite has the number of a password.
PasswordsSet == \A w \in Worker : job[w].at # "idle" => job[w].pw \in 1..MaxPassword

PasswordInv ==
  /\ PasswordTypeOK /\ PasswordsSet
  /\ HandsUnretired /\ RetiredStaysRetired
  /\ WorkersUp /\ Undisturbed /\ RewriteKeepsEveryone

\* A file without users is a file; no file and a garbled one are not.
LEMMA FileFacts ==
  /\ NoUsers \in Data /\ \A u \in Name : NoUsers[u] = NoHash
  /\ Missing \notin Data /\ Garbled \notin Data /\ Missing # Garbled
BY FileAssumption DEF NoUsers, Data

\* The step of one rewrite leaves the others alone.
LEMMA WorkerMoves ==
  ASSUME PasswordTypeOK, NEW w \in Worker, NEW v, job' = [job EXCEPT ![w] = v]
  PROVE  job'[w] = v /\ \A x \in Worker : x # w => job'[x] = job[x]
BY DEF PasswordTypeOK

\* A rewrite that is over.
LEMMA JobOver ==
  /\ NoJob \in [at : {"idle", "load", "open", "write"}, user : Name,
                pw : 0..MaxPassword, data : Data]
  /\ NoJob.at = "idle"
BY FileFacts, NameAssumption, PasswordAssumption DEF NoJob

\* Putting a line into a file.
LEMMA LineSet ==
  ASSUME NEW data \in Data, NEW u \in Name, NEW line \in Hash \cup {NoHash}
  PROVE  /\ [data EXCEPT ![u] = line] \in Data
         /\ [data EXCEPT ![u] = line][u] = line
         /\ \A v \in Name : v # u => [data EXCEPT ![u] = line][v] = data[v]
BY DEF Data

\* The line of a password that is hashed anew.
LEMMA ArgonLine ==
  ASSUME NEW pw \in 1..MaxPassword
  PROVE  Argon(pw) \in Hash /\ Argon(pw).pw = pw /\ Argon(pw) # NoHash
BY FileAssumption DEF Argon, Hash

\* What a rewrite leaves is what it wrote, what was there, or garbled; when
\* nobody wrote in between it is what it wrote.
LEMMA WrittenIs ==
  ASSUME NEW data, file' \in Written(data)
  PROVE  /\ file' \in {data, Garbled, file}
         /\ file = NoUsers => file' = data
BY DEF Written

\* A password that is used in a step is one that was set.
LEMMA JobTypes ==
  ASSUME PasswordTypeOK, NEW w \in Worker
  PROVE  job[w].user \in Name /\ job[w].pw \in 0..MaxPassword /\ job[w].data \in Data
BY DEF PasswordTypeOK

\* Every step keeps the types.
LEMMA PasswordTypeStep ==
  ASSUME PasswordTypeOK, PasswordsSet, [PasswordNext]_pwVars
  PROVE  PasswordTypeOK' /\ PasswordsSet'
<1> USE DEF PasswordTypeOK, PasswordsSet
<1>0. issued \in Nat
  BY PasswordAssumption
<1>1. ASSUME NEW public \in BOOLEAN, Boot(public)
      PROVE  PasswordTypeOK' /\ PasswordsSet'
  BY <1>1 DEF Boot
<1>2. CASE GenerateOpen
  BY <1>2, FileFacts DEF GenerateOpen
<1>3. CASE GenerateWrite
  <2>1. issued + 1 \in 1..MaxPassword /\ issued + 1 \in 0..MaxPassword
    BY <1>0, <1>3, PasswordAssumption DEF GenerateWrite
  <2>2. [NoUsers EXCEPT ![Admin] = Argon(issued + 1)] \in Data
    BY <2>1, ArgonLine, LineSet, FileFacts, NameAssumption
  <2>3. file' \in Data \cup {Missing, Garbled}
    BY <1>3, <2>2, WrittenIs DEF GenerateWrite
  <2> QED BY <1>3, <2>1, <2>3 DEF GenerateWrite
<1>4. CASE GenerateFails
  BY <1>4 DEF GenerateFails
<1>5. ASSUME NEW w \in Worker, NEW u \in Name, NEW pw \in 1..MaxPassword,
             handleLoginSubmit(w, u, pw)
      PROVE  PasswordTypeOK' /\ PasswordsSet'
  <2>1. pw \in 0..MaxPassword
    BY PasswordAssumption
  <2> QED BY <1>5, <2>1, FileFacts DEF handleLoginSubmit
<1>6. ASSUME NEW w \in Worker, RehashLoad(w)
      PROVE  PasswordTypeOK' /\ PasswordsSet'
  BY <1>6, JobOver DEF RehashLoad, Loads
<1>7. ASSUME NEW w \in Worker, RehashOpen(w)
      PROVE  PasswordTypeOK' /\ PasswordsSet'
  BY <1>7, FileFacts DEF RehashOpen
<1>8. ASSUME NEW w \in Worker, RehashWrite(w)
      PROVE  PasswordTypeOK' /\ PasswordsSet'
  <2>1. job[w].pw \in 1..MaxPassword
    BY <1>8 DEF RehashWrite
  <2>2. [job[w].data EXCEPT ![job[w].user] = Argon(job[w].pw)] \in Data
    BY <2>1, ArgonLine, LineSet, JobTypes
  <2>3. file' \in Data \cup {Missing, Garbled}
    BY <1>8, <2>2, WrittenIs DEF RehashWrite
  <2> QED BY <1>8, <2>3, JobOver DEF RehashWrite
<1>9. ASSUME NEW w \in Worker, RehashFails(w)
      PROVE  PasswordTypeOK' /\ PasswordsSet'
  BY <1>9, JobOver DEF RehashFails
<1>10. CASE ServerEnds
  BY <1>10, JobOver DEF ServerEnds
<1>11. ASSUME NEW u \in Name, NEW line \in Hash \cup {NoHash}, NEW pw \in 0..MaxPassword,
              Edit(u, line, pw), issued' \in 0..MaxPassword
       PROVE  PasswordTypeOK' /\ PasswordsSet'
  <2>1. file' \in Data
    BY <1>11, FileFacts, LineSet DEF Edit
  <2>2. retired' \subseteq Name \X (1..MaxPassword)
    <3>1. {u} \X (1..issued) \subseteq Name \X (1..MaxPassword)
      BY <1>0, PasswordAssumption
    <3> QED BY <1>11, <3>1 DEF Edit
  <2> QED BY <1>11, <2>1, <2>2 DEF Edit
<1>12. ASSUME NEW u \in Name, NEW alg \in {"bcrypt", "argon2id"}, SetPassword(u, alg)
       PROVE  PasswordTypeOK' /\ PasswordsSet'
  <2>1. issued + 1 \in 1..MaxPassword /\ issued + 1 \in 0..MaxPassword
    BY <1>0, <1>12, PasswordAssumption DEF SetPassword
  <2>2. [pw |-> issued + 1, alg |-> alg] \in Hash
    BY <2>1 DEF Hash
  <2> QED BY <1>11, <1>12, <2>1, <2>2 DEF SetPassword
<1>13. ASSUME NEW u \in Name, RemoveUser(u)
       PROVE  PasswordTypeOK' /\ PasswordsSet'
  <2>1. 0 \in 0..MaxPassword
    BY PasswordAssumption
  <2> QED BY <1>11, <1>13, <2>1 DEF RemoveUser
<1>14. CASE UNCHANGED pwVars
  BY <1>14 DEF pwVars
<1> QED BY <1>1, <1>2, <1>3, <1>4, <1>5, <1>6, <1>7, <1>8, <1>9, <1>10, <1>12, <1>13, <1>14
        DEF PasswordNext

\* A rewrite writes no retired password when it has none in hand.
LEMMA UnretiredSet ==
  ASSUME NEW data \in Data, Unretired(data), NEW u \in Name,
         NEW line \in Hash \cup {NoHash}, line # NoHash => <<u, line.pw>> \notin retired
  PROVE  Unretired([data EXCEPT ![u] = line])
BY LineSet DEF Unretired

\* Steps that retire no password and leave no retired one in a file or in
\* the hands of a rewrite.
LEMMA RetiredKept ==
  ASSUME HandsUnretired, retired' = retired, issued \in Nat, issued' \in Nat, issued <= issued',
         file' \in Data => Unretired(file'),
         \A w \in Worker : \/ job'[w].at = "idle"
                           \/ /\ <<job'[w].user, job'[w].pw>> \notin retired
                              /\ job'[w].at \in {"open", "write"} => Unretired(job'[w].data)
  PROVE  HandsUnretired' /\ RetiredStaysRetired'
<1>1. RetiredStaysRetired'
  BY DEF RetiredStaysRetired, Loads, Unretired
<1>2. retired' \subseteq Name \X (1..issued')
  BY DEF HandsUnretired
<1>3. HandsUnretired'
  BY <1>2 DEF HandsUnretired, Unretired
<1> QED BY <1>1, <1>3

\* The operator retires passwords only when no rewrite has them in hand, and
\* the new one is not among them.
LEMMA EditRetires ==
  ASSUME PasswordTypeOK, HandsUnretired, RetiredStaysRetired,
         NEW u \in Name, NEW line \in Hash \cup {NoHash}, NEW pw, Edit(u, line, pw),
         line # NoHash => line.pw = issued + 1, issued' \in {issued, issued + 1}
  PROVE  HandsUnretired' /\ RetiredStaysRetired'
<1>0. issued \in Nat /\ job' = job
  BY PasswordAssumption DEF PasswordTypeOK, Edit
<1>1. /\ retired \subseteq retired' /\ retired' \subseteq Name \X (1..issued)
      /\ \A v \in Name : v # u => \A n : <<v, n>> \in retired' => <<v, n>> \in retired
  <2>1. /\ {u} \X (1..issued) \subseteq Name \X (1..issued)
        /\ \A v \in Name : v # u => \A n : <<v, n>> \notin {u} \X (1..issued)
    OBVIOUS
  <2>2. retired' = retired \/ retired' = retired \cup ({u} \X (1..issued))
    BY DEF Edit
  <2>3. retired \subseteq Name \X (1..issued)
    BY DEF HandsUnretired
  <2> QED BY <2>1, <2>2, <2>3
<1>2. retired' \subseteq Name \X (1..issued')
  <2>1. Name \X (1..issued) \subseteq Name \X (1..issued')
    BY <1>0
  <2> QED BY <1>1, <2>1
<1>3. RetiredStaysRetired'
  <2>1. PICK data \in Data : /\ file' = [data EXCEPT ![u] = line]
                             /\ \A v \in Name : data[v] # NoHash =>
                                  <<v, data[v].pw>> \notin retired
    <3>1. CASE file = Missing
      BY <3>1, FileFacts DEF Edit
    <3>2. CASE file # Missing
      <4>1. file \in Data
        BY <3>2 DEF Edit, PasswordTypeOK
      <4> QED BY <3>2, <4>1 DEF Edit, RetiredStaysRetired, Loads
    <3> QED BY <3>1, <3>2
  <2>2. file'[u] = line /\ \A v \in Name : v # u => file'[v] = data[v]
    BY <2>1, LineSet
  <2>3. <<u, issued + 1>> \notin retired'
    BY <1>0, <1>1
  <2> QED BY <1>1, <2>1, <2>2, <2>3 DEF RetiredStaysRetired, Loads
<1>4. \A w \in Worker : job[w].at # "idle" => <<job[w].user, job[w].pw>> \notin retired'
  <2> SUFFICES ASSUME NEW w \in Worker, job[w].at # "idle"
               PROVE  <<job[w].user, job[w].pw>> \notin retired'
    OBVIOUS
  <2>1. job[w].user \in Name /\ job[w].at \in {"load", "open", "write"}
    BY DEF PasswordTypeOK
  <2>2. CASE job[w].user # u
    BY <1>1, <2>1, <2>2 DEF HandsUnretired
  <2>3. CASE job[w].user = u
    BY <2>1, <2>3 DEF HandsUnretired, Edit
  <2> QED BY <2>2, <2>3
<1>5. \A w \in Worker : job[w].at \in {"open", "write"} =>
        retired' = retired /\ Unretired(job[w].data)
  BY DEF Edit, HandsUnretired
<1>6. HandsUnretired'
  BY <1>0, <1>2, <1>4, <1>5 DEF HandsUnretired, Unretired
<1> QED BY <1>3, <1>6

\* No step brings a retired password back.
LEMMA RetiredStep ==
  ASSUME PasswordTypeOK, PasswordsSet, HandsUnretired, RetiredStaysRetired,
         [PasswordNext]_pwVars
  PROVE  HandsUnretired' /\ RetiredStaysRetired'
<1>1. /\ issued \in Nat /\ issued <= issued /\ (file \in Data => Unretired(file))
      /\ Unretired(NoUsers) /\ Garbled \notin Data
  BY PasswordAssumption, FileFacts
     DEF PasswordTypeOK, RetiredStaysRetired, Loads, Unretired
<1>2. \A w \in Worker : \/ job[w].at = "idle"
                        \/ /\ <<job[w].user, job[w].pw>> \notin retired
                           /\ job[w].at \in {"open", "write"} => Unretired(job[w].data)
  BY DEF HandsUnretired
<1>3. CASE (\E public \in BOOLEAN : Boot(public)) \/ GenerateOpen \/ GenerateFails
  BY <1>1, <1>2, <1>3, RetiredKept DEF Boot, GenerateOpen, GenerateFails
<1>4. CASE GenerateWrite
  <2> DEFINE line == Argon(issued + 1)
  <2>1. issued + 1 \in 1..MaxPassword
    BY <1>1, <1>4, PasswordAssumption DEF GenerateWrite, PasswordTypeOK
  <2>2. line \in Hash \cup {NoHash} /\ line.pw = issued + 1
    BY <2>1, ArgonLine
  <2> HIDE DEF line
  <2>3. <<Admin, issued + 1>> \notin retired
    BY <1>1 DEF HandsUnretired
  <2>4. Unretired([NoUsers EXCEPT ![Admin] = line])
    BY <1>1, <2>2, <2>3, FileFacts, NameAssumption, UnretiredSet
  <2>5. file' \in {[NoUsers EXCEPT ![Admin] = line], Garbled, file}
    BY <1>4, WrittenIs DEF GenerateWrite, line
  <2>6. file' \in Data => Unretired(file')
    BY <1>1, <2>4, <2>5
  <2> QED BY <1>1, <1>2, <1>4, <2>6, RetiredKept DEF GenerateWrite
<1>5. ASSUME NEW w \in Worker, NEW u \in Name, NEW pw \in 1..MaxPassword,
             handleLoginSubmit(w, u, pw)
      PROVE  HandsUnretired' /\ RetiredStaysRetired'
  <2>1. /\ job'[w] = [at |-> "load", user |-> u, pw |-> pw, data |-> NoUsers]
        /\ \A x \in Worker : x # w => job'[x] = job[x]
    BY <1>5, WorkerMoves DEF handleLoginSubmit
  <2>2. <<u, pw>> \notin retired
    BY <1>1, <1>5 DEF handleLoginSubmit, LoadAndCheckWithRehash, Loads, Check, Unretired
  <2>3. \A x \in Worker : \/ job'[x].at = "idle"
                          \/ /\ <<job'[x].user, job'[x].pw>> \notin retired
                             /\ job'[x].at \in {"open", "write"} => Unretired(job'[x].data)
    BY <1>2, <2>1, <2>2
  <2>4. file' = file /\ retired' = retired /\ issued' = issued
    BY <1>5 DEF handleLoginSubmit
  <2> QED BY <1>1, <2>3, <2>4, RetiredKept
<1>6. ASSUME NEW w \in Worker, RehashLoad(w)
      PROVE  HandsUnretired' /\ RetiredStaysRetired'
  <2>1. /\ \/ job'[w] = NoJob
           \/ /\ job'[w].user = job[w].user /\ job'[w].pw = job[w].pw
              /\ job'[w].data = file /\ file \in Data
        /\ \A x \in Worker : x # w => job'[x] = job[x]
    BY <1>6 DEF RehashLoad, PasswordTypeOK, Loads
  <2>2. \A x \in Worker : \/ job'[x].at = "idle"
                          \/ /\ <<job'[x].user, job'[x].pw>> \notin retired
                             /\ job'[x].at \in {"open", "write"} => Unretired(job'[x].data)
    BY <1>1, <1>2, <1>6, <2>1, JobOver DEF RehashLoad
  <2> QED BY <1>1, <1>6, <2>2, RetiredKept DEF RehashLoad
<1>7. ASSUME NEW w \in Worker, RehashOpen(w)
      PROVE  HandsUnretired' /\ RetiredStaysRetired'
  <2>1. /\ job'[w].user = job[w].user /\ job'[w].pw = job[w].pw
        /\ job'[w].data = job[w].data
        /\ \A x \in Worker : x # w => job'[x] = job[x]
    BY <1>7 DEF RehashOpen, PasswordTypeOK
  <2>2. \A x \in Worker : \/ job'[x].at = "idle"
                          \/ /\ <<job'[x].user, job'[x].pw>> \notin retired
                             /\ job'[x].at \in {"open", "write"} => Unretired(job'[x].data)
    BY <1>2, <1>7, <2>1 DEF RehashOpen
  <2> QED BY <1>1, <1>7, <2>2, RetiredKept DEF RehashOpen
<1>8. ASSUME NEW w \in Worker, RehashWrite(w) \/ RehashFails(w)
      PROVE  HandsUnretired' /\ RetiredStaysRetired'
  <2>1. job'[w] = NoJob /\ \A x \in Worker : x # w => job'[x] = job[x]
    BY <1>8, WorkerMoves DEF RehashWrite, RehashFails
  <2>2. \A x \in Worker : \/ job'[x].at = "idle"
                          \/ /\ <<job'[x].user, job'[x].pw>> \notin retired
                             /\ job'[x].at \in {"open", "write"} => Unretired(job'[x].data)
    BY <1>2, <2>1, JobOver
  <2> DEFINE line == Argon(job[w].pw)
  <2>3. job[w].pw \in 1..MaxPassword /\ job[w].at = "write"
    BY <1>8 DEF RehashWrite, RehashFails, PasswordsSet
  <2>4. line \in Hash \cup {NoHash} /\ line.pw = job[w].pw
    BY <2>3, ArgonLine
  <2> HIDE DEF line
  <2>5. Unretired([job[w].data EXCEPT ![job[w].user] = line])
    BY <1>2, <2>3, <2>4, JobTypes, UnretiredSet
  <2>6. file' \in {[job[w].data EXCEPT ![job[w].user] = line], Garbled, file}
    BY <1>8, WrittenIs DEF RehashWrite, RehashFails, line
  <2>7. file' \in Data => Unretired(file')
    BY <1>1, <2>5, <2>6
  <2> QED BY <1>1, <1>8, <2>2, <2>7, RetiredKept DEF RehashWrite, RehashFails
<1>9. CASE ServerEnds
  <2>1. \A x \in Worker : job'[x].at = "idle"
    BY <1>9, JobOver DEF ServerEnds
  <2> QED BY <1>1, <1>9, <2>1, RetiredKept DEF ServerEnds
<1>10. ASSUME NEW u \in Name, NEW alg \in {"bcrypt", "argon2id"}, SetPassword(u, alg)
       PROVE  HandsUnretired' /\ RetiredStaysRetired'
  <2>1. [pw |-> issued + 1, alg |-> alg] \in Hash
    BY <1>1, <1>10, PasswordAssumption DEF SetPassword, PasswordTypeOK, Hash
  <2> QED BY <1>10, <2>1, EditRetires DEF SetPassword
<1>11. ASSUME NEW u \in Name, RemoveUser(u)
       PROVE  HandsUnretired' /\ RetiredStaysRetired'
  BY <1>11, EditRetires DEF RemoveUser
<1>12. CASE UNCHANGED pwVars
  BY <1>1, <1>2, <1>12, RetiredKept DEF pwVars
<1> QED BY <1>3, <1>4, <1>5, <1>6, <1>7, <1>8, <1>9, <1>10, <1>11, <1>12 DEF PasswordNext

\* No rewrite has the file open.
Settled == server # "generating" /\ \A w \in Worker : job[w].at # "write"

\* A complete file is what RewriteKeepsEveryone asks for.
LEMMA CompleteKeeps ==
  ASSUME file \in Data => Complete(file),
         file \notin Data => \A u \in Name : known[u] = 0
  PROVE  RewriteKeepsEveryone
BY DEF RewriteKeepsEveryone, Loads, Complete, Check

\* And conversely.
LEMMA KeepsComplete ==
  ASSUME RewriteKeepsEveryone, ~disturbed, Settled
  PROVE  /\ file \in Data => Complete(file)
         /\ file \notin Data => \A u \in Name : known[u] = 0
BY DEF RewriteKeepsEveryone, Loads, Complete, Check, Settled

\* Rewrites that nothing disturbs keep everyone's line and password.
LEMMA RewriteStep ==
  ASSUME PasswordTypeOK, PasswordsSet, WorkersUp, Undisturbed, RewriteKeepsEveryone,
         [PasswordNext]_pwVars
  PROVE  WorkersUp' /\ Undisturbed' /\ RewriteKeepsEveryone'
<1> DEFINE Goal == WorkersUp' /\ Undisturbed' /\ RewriteKeepsEveryone'
<1>1. CASE disturbed' /\ WorkersUp'
  BY <1>1 DEF Undisturbed, RewriteKeepsEveryone
<1>2. ASSUME NEW public \in BOOLEAN, Boot(public)
      PROVE  Goal
  <2>1. /\ server = "down" /\ file' = file /\ job' = job /\ known' = known
        /\ disturbed' = disturbed /\ server' \in {"up", "generate"}
        /\ server' = "generate" => ~(file \in Data /\ file # NoUsers)
    BY <1>2 DEF Boot, FileExistsAndHasUsers, Loads
  <2>2. Settled
    BY <2>1 DEF Settled, WorkersUp
  <2>3. ~disturbed /\ server' = "generate" => \A u \in Name : known[u] = 0
    BY <2>1, <2>2, KeepsComplete, FileFacts DEF Complete
  <2>4. WorkersUp' /\ Undisturbed'
    BY <2>1, <2>3 DEF WorkersUp, Undisturbed, Complete
  <2>5. RewriteKeepsEveryone'
    BY <2>1 DEF RewriteKeepsEveryone, Loads, Check
  <2> QED BY <2>4, <2>5
<1>3. CASE GenerateOpen
  BY <1>3 DEF GenerateOpen, WorkersUp, Undisturbed, RewriteKeepsEveryone
<1>4. CASE GenerateWrite
  <2> DEFINE data == [NoUsers EXCEPT ![Admin] = Argon(issued + 1)]
  <2>1. /\ server = "generating" /\ server' = "up" /\ job' = job /\ disturbed' = disturbed
        /\ known' = [known EXCEPT ![Admin] = issued + 1] /\ file' \in Written(data)
    BY <1>4 DEF GenerateWrite
  <2>2. \A w \in Worker : job[w].at = "idle"
    BY <2>1 DEF WorkersUp
  <2>3. issued + 1 \in 1..MaxPassword /\ issued + 1 # 0
    BY <1>4, PasswordAssumption DEF GenerateWrite, PasswordTypeOK
  <2>4. data \in Data /\ data[Admin] = Argon(issued + 1)
        /\ \A u \in Name : u # Admin => data[u] = NoHash
    BY <2>3, ArgonLine, LineSet, FileFacts, NameAssumption
  <2>5. ~disturbed => file' = data /\ \A u \in Name : known[u] = 0
    BY <2>1, WrittenIs DEF Undisturbed
  <2> HIDE DEF data
  <2>6. ~disturbed => \A u \in Name : IF known'[u] = 0 THEN data[u] = NoHash
                                     ELSE data[u] # NoHash /\ data[u].pw = known'[u]
    <3>1. known'[Admin] = issued + 1 /\ \A u \in Name : u # Admin => known'[u] = known[u]
      BY <2>1, NameAssumption DEF PasswordTypeOK
    <3> QED BY <2>3, <2>4, <2>5, <3>1, ArgonLine
  <2>7. WorkersUp' /\ Undisturbed'
    BY <2>1, <2>2 DEF WorkersUp, Undisturbed
  <2>8. RewriteKeepsEveryone'
    BY <2>1, <2>4, <2>5, <2>6 DEF RewriteKeepsEveryone, Loads, Check
  <2> QED BY <2>7, <2>8
<1>5. ASSUME NEW w \in Worker, NEW u \in Name, NEW pw \in 1..MaxPassword,
             handleLoginSubmit(w, u, pw)
      PROVE  Goal
  <2>1. /\ job'[w] = [at |-> "load", user |-> u, pw |-> pw, data |-> NoUsers]
        /\ \A x \in Worker : x # w => job'[x] = job[x]
    BY <1>5, WorkerMoves DEF handleLoginSubmit
  <2>2. /\ server = "up" /\ server' = server /\ file' = file /\ known' = known
        /\ disturbed' = (disturbed \/ Working)
        /\ file \in Data /\ file[u] # NoHash /\ file[u].pw = pw
    BY <1>5 DEF handleLoginSubmit, LoadAndCheckWithRehash, Loads, Check
  <2>3. ~disturbed' => ~disturbed /\ \A x \in Worker : job[x].at = "idle"
    BY <2>2 DEF Working
  <2>4. ~disturbed' => known[u] # 0 /\ known[u] = pw
    BY <2>2, <2>3, KeepsComplete DEF Settled, Complete
  <2>5. WorkersUp' /\ Undisturbed'
    BY <2>1, <2>2, <2>3, <2>4 DEF WorkersUp, Undisturbed
  <2>6. RewriteKeepsEveryone'
    BY <2>2, <2>3 DEF RewriteKeepsEveryone, Loads, Check
  <2> QED BY <2>5, <2>6
<1>6. ASSUME NEW w \in Worker, RehashLoad(w)
      PROVE  Goal
  <2>1. /\ \/ job'[w] = NoJob
           \/ /\ job'[w].user = job[w].user /\ job'[w].pw = job[w].pw
              /\ job'[w].at = "open" /\ job'[w].data = file /\ file \in Data
        /\ \A x \in Worker : x # w => job'[x] = job[x]
    BY <1>6 DEF RehashLoad, PasswordTypeOK, Loads
  <2>2. /\ job[w].at = "load" /\ file' = file /\ server' = server /\ known' = known
        /\ disturbed' = disturbed
    BY <1>6 DEF RehashLoad
  <2>3. server = "up"
    BY <2>2 DEF WorkersUp
  <2>4. ~disturbed => Settled
    BY <2>2, <2>3 DEF Undisturbed, Settled
  <2>5. ~disturbed /\ file \in Data => Complete(file)
    BY <2>4, KeepsComplete
  <2>6. WorkersUp' /\ Undisturbed'
    BY <2>1, <2>2, <2>3, <2>5, JobOver DEF WorkersUp, Undisturbed, Complete
  <2>7. RewriteKeepsEveryone'
    BY <2>2, <2>4, <2>5 DEF RewriteKeepsEveryone, Loads, Check, Settled
  <2> QED BY <2>6, <2>7
<1>7. ASSUME NEW w \in Worker, RehashOpen(w)
      PROVE  Goal
  <2>1. /\ job'[w].user = job[w].user /\ job'[w].pw = job[w].pw
        /\ job'[w].at = "write" /\ job'[w].data = job[w].data
        /\ \A x \in Worker : x # w => job'[x] = job[x]
    BY <1>7 DEF RehashOpen, PasswordTypeOK
  <2>2. /\ job[w].at = "open" /\ file' = NoUsers /\ server' = server /\ known' = known
        /\ disturbed' = disturbed
    BY <1>7 DEF RehashOpen
  <2>3. server = "up"
    BY <2>2 DEF WorkersUp
  <2>4. WorkersUp' /\ Undisturbed'
    BY <2>1, <2>2, <2>3 DEF WorkersUp, Undisturbed, Complete
  <2>5. RewriteKeepsEveryone'
    BY <2>1 DEF RewriteKeepsEveryone
  <2> QED BY <2>4, <2>5
<1>8. ASSUME NEW w \in Worker, RehashWrite(w)
      PROVE  Goal
  <2> DEFINE data == [job[w].data EXCEPT ![job[w].user] = Argon(job[w].pw)]
  <2>1. job'[w] = NoJob /\ \A x \in Worker : x # w => job'[x] = job[x]
    BY <1>8, WorkerMoves DEF RehashWrite
  <2>2. /\ job[w].at = "write" /\ file' \in Written(data) /\ server' = server
        /\ known' = known /\ disturbed' = disturbed
    BY <1>8 DEF RehashWrite
  <2>3. job[w].pw \in 1..MaxPassword
    BY <2>2 DEF PasswordsSet
  <2>4. data \in Data /\ data[job[w].user] = Argon(job[w].pw)
        /\ \A u \in Name : u # job[w].user => data[u] = job[w].data[u]
    BY <2>3, ArgonLine, LineSet, JobTypes
  <2>5. ~disturbed => file' = data
    BY <2>2, WrittenIs DEF Undisturbed
  <2> HIDE DEF data
  <2>6. ~disturbed => Complete(data)
    BY <2>2, <2>3, <2>4, ArgonLine, JobTypes DEF Undisturbed, Complete
  <2>7. server = "up"
    BY <2>2 DEF WorkersUp
  <2>8. WorkersUp' /\ Undisturbed'
    BY <2>1, <2>2, <2>5, <2>7, JobOver DEF WorkersUp, Undisturbed, Complete
  <2>9. RewriteKeepsEveryone'
    BY <2>2, <2>4, <2>5, <2>6 DEF RewriteKeepsEveryone, Loads, Check, Complete
  <2> QED BY <2>8, <2>9
<1>9. ASSUME NEW w \in Worker, RehashFails(w)
      PROVE  Goal
  <2>1. job'[w] = NoJob /\ \A x \in Worker : x # w => job'[x] = job[x]
    BY <1>9, WorkerMoves DEF RehashFails
  <2>2. WorkersUp'
    BY <1>9, <2>1, JobOver DEF RehashFails, WorkersUp
  <2> QED BY <1>1, <1>9, <2>2 DEF RehashFails
<1>10. CASE GenerateFails
  <2>1. WorkersUp'
    BY <1>10 DEF GenerateFails, WorkersUp
  <2> QED BY <1>1, <1>10, <2>1 DEF GenerateFails
<1>11. CASE ServerEnds
  <2>1. \A w \in Worker : job'[w].at = "idle"
    BY <1>11, JobOver DEF ServerEnds
  <2>2. /\ server' = "down" /\ file' = file /\ known' = known
        /\ ~disturbed' => ~disturbed /\ Settled
    BY <1>11 DEF ServerEnds, Settled
  <2>3. WorkersUp' /\ Undisturbed'
    BY <2>1, <2>2 DEF WorkersUp, Undisturbed
  <2>4. RewriteKeepsEveryone'
    BY <2>2 DEF RewriteKeepsEveryone, Loads, Check, Settled
  <2> QED BY <2>3, <2>4
<1>12. ASSUME NEW u \in Name, NEW line \in Hash \cup {NoHash}, NEW pw, Edit(u, line, pw),
              IF pw = 0 THEN line = NoHash ELSE line # NoHash /\ line.pw = pw
       PROVE  Goal
  <2>1. /\ job' = job /\ server' = server /\ known' = [known EXCEPT ![u] = pw]
        /\ ~disturbed' => /\ ~disturbed /\ \A w \in Worker : job[w].at = "idle"
                          /\ server \notin {"generate", "generating"}
    BY <1>12 DEF Edit, Working
  <2>2. ~disturbed' => Settled
    BY <2>1 DEF Settled
  <2>3. PICK data \in Data : /\ file' = [data EXCEPT ![u] = line]
                             /\ data = IF file = Missing THEN NoUsers ELSE file
    BY <1>12, FileFacts DEF Edit, PasswordTypeOK
  <2>4. /\ file' \in Data /\ file'[u] = line
        /\ \A v \in Name : v # u => file'[v] = data[v]
    BY <2>3, LineSet
  <2>5. known'[u] = pw /\ \A v \in Name : v # u => known'[v] = known[v]
    BY <2>1 DEF PasswordTypeOK
  <2>6. ~disturbed' => Complete(data)
    BY <2>1, <2>2, <2>3, KeepsComplete, FileFacts DEF Complete
  <2>7. ~disturbed' => \A v \in Name : IF known'[v] = 0 THEN file'[v] = NoHash
                                      ELSE file'[v] # NoHash /\ file'[v].pw = known'[v]
    BY <1>12, <2>4, <2>5, <2>6 DEF Complete
  <2>8. WorkersUp' /\ Undisturbed'
    BY <2>1 DEF WorkersUp, Undisturbed
  <2>9. RewriteKeepsEveryone'
    BY <2>4, <2>7 DEF RewriteKeepsEveryone, Loads, Check
  <2> QED BY <2>8, <2>9
<1>13. ASSUME NEW u \in Name, NEW alg \in {"bcrypt", "argon2id"}, SetPassword(u, alg)
       PROVE  Goal
  <2>1. issued + 1 \in 1..MaxPassword /\ issued + 1 # 0
    BY <1>13, PasswordAssumption DEF SetPassword, PasswordTypeOK
  <2>2. [pw |-> issued + 1, alg |-> alg] \in Hash
    BY <2>1 DEF Hash
  <2>3. [pw |-> issued + 1, alg |-> alg] # NoHash
    BY <2>2, FileAssumption
  <2> QED BY <1>12, <1>13, <2>1, <2>2, <2>3 DEF SetPassword
<1>14. ASSUME NEW u \in Name, RemoveUser(u)
       PROVE  Goal
  BY <1>12, <1>14 DEF RemoveUser
<1>15. CASE UNCHANGED pwVars
  BY <1>15 DEF pwVars, WorkersUp, Undisturbed, RewriteKeepsEveryone, Loads, Check, Complete
<1> QED BY <1>2, <1>3, <1>4, <1>5, <1>6, <1>7, <1>8, <1>9, <1>10, <1>11, <1>13, <1>14, <1>15
        DEF PasswordNext

\* PasswordInv is an invariant, with any number of rewrites at once.
THEOREM PasswordInvariance == PasswordSpec => []PasswordInv
<1>1. PasswordInit => PasswordInv
  <2> SUFFICES ASSUME PasswordInit PROVE PasswordInv
    OBVIOUS
  <2>1. \A w \in Worker : job[w] = NoJob /\ job[w].at = "idle"
    BY JobOver DEF PasswordInit
  <2>2. PasswordTypeOK
    <3>1. job \in [Worker -> [at : {"idle", "load", "open", "write"}, user : Name,
                              pw : 0..MaxPassword, data : Data]]
      BY JobOver DEF PasswordInit
    <3>2. known \in [Name -> 0..MaxPassword] /\ issued \in 0..MaxPassword
      BY PasswordAssumption DEF PasswordInit
    <3> QED BY <3>1, <3>2 DEF PasswordInit, PasswordTypeOK
  <2>3. PasswordsSet /\ HandsUnretired /\ WorkersUp
    BY <2>1 DEF PasswordInit, PasswordsSet, HandsUnretired, WorkersUp
  <2>4. RetiredStaysRetired /\ Undisturbed /\ RewriteKeepsEveryone
    BY <2>1, FileFacts
       DEF PasswordInit, RetiredStaysRetired, Undisturbed, RewriteKeepsEveryone, Loads
  <2> QED BY <2>2, <2>3, <2>4 DEF PasswordInv
<1>2. PasswordInv /\ [PasswordNext]_pwVars => PasswordInv'
  BY PasswordTypeStep, RetiredStep, RewriteStep DEF PasswordInv
<1> QED BY <1>1, <1>2, PTL DEF PasswordSpec

\* A password retired while no rewrite had it in hand stays retired, whatever
\* rewrites do to each other and wherever the process ends.
THEOREM RetiredForGood == PasswordSpec => []RetiredStaysRetired
<1>1. PasswordInv => RetiredStaysRetired
  BY DEF PasswordInv
<1> QED BY <1>1, PasswordInvariance, PTL

\* Rewrites one at a time, none cut short, keep everyone and every password.
THEOREM RewritesKeepEveryone == PasswordSpec => []RewriteKeepsEveryone
<1>1. PasswordInv => RewriteKeepsEveryone
  BY DEF PasswordInv
<1> QED BY <1>1, PasswordInvariance, PTL

-----------------------------------------------------------------------------
(***************************************************************************)
(* The country database                                                    *)
(***************************************************************************)

\* Editions only go forward: what a download holds is no older than the file
\* it will replace, and no file is newer than the mirror.
EditionsGrow ==
  /\ mirror \in [Database -> Nat]
  /\ disk \in [Database -> Nat \cup {Absent}]
  /\ \A k \in Database : disk[k] # Absent => disk[k] <= mirror[k]
  /\ update.tmp # Absent =>
       /\ update.at \in Database
       /\ update.tmp \in Nat /\ update.tmp <= mirror[update.at]
       /\ disk[update.at] # Absent => disk[update.at] <= update.tmp

\* The country file on disk is at least as new as what was opened from it.
OpenedOnDisk ==
  /\ opened \in Nat
  /\ opened # 0 => disk["country"] # Absent /\ opened <= disk["country"]

\* So is the reader of a server that looks countries up.
OpenedIsRead ==
  client.enabled /\ opened # 0 => reader["country"] \in Nat /\ reader["country"] >= opened

GeoInv == EditionsGrow /\ OpenedOnDisk /\ OpenedIsRead

\* Loading what is on disk: a country file that opens is opened, and is no
\* older than what was opened before.
LEMMA LoadKeeps ==
  ASSUME GeoInv, Load, disk' = disk
  PROVE  /\ OpenedOnDisk'
         /\ opened' # 0 => reader'["country"] \in Nat /\ reader'["country"] >= opened'
<1>1. /\ disk["country"] \in Nat \cup {Absent} /\ {Absent, Cut} \cap Nat = {} /\ opened \in Nat
      /\ opened # 0 => disk["country"] # Absent /\ opened <= disk["country"]
  BY GeoAssumption DEF GeoInv, EditionsGrow, OpenedOnDisk, Database
<1>2. PICK country \in Found("country"), asn \in Found("asn") :
        /\ reader' = LoadDatabase([country |-> country, asn |-> asn])
        /\ opened' = CASE country # disk["country"] \/ country \in broken["country"] -> 0
                       [] reader'["country"] \in Nat /\ reader'["country"] > opened
                            -> reader'["country"]
                       [] OTHER -> opened
  BY DEF Load
<1>3. reader'["country"] = IF country \in Nat \ broken["country"] THEN country ELSE Absent
  BY <1>2 DEF LoadDatabase, Closed, Database, Read, Opens
<1>4. CASE country # disk["country"]
  <2>1. country \notin Nat
    BY <1>1, <1>2, <1>4 DEF Found
  <2>2. opened' = 0
    BY <1>1, <1>2, <1>3, <1>4, <2>1
  <2> QED BY <2>2 DEF OpenedOnDisk
<1>5. CASE country = disk["country"] /\ country \in broken["country"]
  <2>1. reader'["country"] = Absent
    BY <1>3, <1>5
  <2>2. opened' = 0
    BY <1>1, <1>2, <1>5, <2>1
  <2> QED BY <2>2 DEF OpenedOnDisk
<1>6. CASE country = disk["country"] /\ country = Absent /\ country \notin broken["country"]
  BY <1>1, <1>2, <1>3, <1>6 DEF OpenedOnDisk
<1>7. CASE country = disk["country"] /\ country \in Nat /\ country \notin broken["country"]
  BY <1>1, <1>2, <1>3, <1>7 DEF OpenedOnDisk
<1> QED BY <1>1, <1>4, <1>5, <1>6, <1>7

\* Downloads, loads, restarts and the mirror keep it.
LEMMA GeoStep ==
  ASSUME GeoInv, [GeoNext]_geoVars
  PROVE  GeoInv'
<1> USE DEF GeoInv
<1>0. "country" \in Database /\ Absent \notin Nat
  BY GeoAssumption DEF Database
<1>1. ASSUME NEW enabled \in BOOLEAN, NEW deny, Start(enabled, deny)
      PROVE  GeoInv'
  <2>1. EditionsGrow'
    BY <1>1 DEF Start, EditionsGrow
  <2>2. CASE enabled
    <3>1. Load /\ disk' = disk
      BY <1>1, <2>2 DEF Start
    <3> QED BY <2>1, <3>1, LoadKeeps DEF OpenedIsRead
  <2>3. CASE ~enabled
    BY <1>1, <2>1, <2>3 DEF Start, OpenedOnDisk, OpenedIsRead
  <2> QED BY <2>2, <2>3
<1>2. CASE End
  BY <1>2 DEF End, Down, NoUpdate, EditionsGrow, OpenedOnDisk, OpenedIsRead
<1>3. CASE UpdateDatabases
  <2>1. update'.tmp = Absent
    BY <1>3 DEF UpdateDatabases, NoUpdate
  <2> QED BY <1>3, <2>1 DEF UpdateDatabases, EditionsGrow, OpenedOnDisk, OpenedIsRead
<1>4. ASSUME NEW k \in Database, downloadFile(k)
      PROVE  GeoInv'
  <2>1. /\ update.at = k /\ mirror' = mirror /\ reader' = reader /\ client' = client
        /\ opened' = opened
    BY <1>4 DEF downloadFile
  <2>2. CASE update' = [update EXCEPT !.tmp = mirror[k]] /\ disk' = disk /\ update.tmp = Absent
    <3>1. \/ update'.tmp = mirror[k] /\ update'.at = k
          \/ update'.tmp = Absent
      BY <2>1, <2>2
    <3> QED BY <2>1, <2>2, <3>1 DEF EditionsGrow, OpenedOnDisk, OpenedIsRead
  <2>3. CASE /\ update.tmp # Absent /\ disk' = [disk EXCEPT ![k] = update.tmp]
             /\ update' = After(k, FALSE)
    <3>1. update'.tmp = Absent
      BY <2>3 DEF After
    <3>2. /\ disk'[k] = update.tmp /\ \A j \in Database : j # k => disk'[j] = disk[j]
          /\ update.tmp \in Nat /\ update.tmp <= mirror[k]
          /\ disk[k] # Absent => disk[k] <= update.tmp
      BY <2>1, <2>3 DEF EditionsGrow
    <3>3. EditionsGrow'
      BY <2>1, <2>3, <3>1, <3>2 DEF EditionsGrow
    <3>4. OpenedOnDisk'
      <4>1. disk["country"] \in Nat \cup {Absent} /\ opened \in Nat
        BY <1>0 DEF EditionsGrow, OpenedOnDisk
      <4> QED BY <1>0, <2>1, <3>2, <4>1 DEF OpenedOnDisk
    <3> QED BY <2>1, <3>3, <3>4 DEF OpenedIsRead
  <2>4. CASE update' = After(k, TRUE) /\ disk' = disk
    <3>1. update'.tmp = Absent
      BY <2>4 DEF After
    <3> QED BY <2>1, <2>4, <3>1 DEF EditionsGrow, OpenedOnDisk, OpenedIsRead
  <2> QED BY <1>4, <2>2, <2>3, <2>4 DEF downloadFile
<1>5. CASE Reload
  <2>1. /\ update'.tmp = Absent /\ mirror' = mirror /\ disk' = disk /\ client' = client
    BY <1>5 DEF Reload, NoUpdate
  <2>2. EditionsGrow'
    BY <2>1 DEF EditionsGrow
  <2>3. CASE update.errs
    BY <1>5, <2>1, <2>2, <2>3 DEF Reload, OpenedOnDisk, OpenedIsRead
  <2>4. CASE ~update.errs
    BY <1>5, <2>1, <2>2, <2>4, LoadKeeps DEF Reload, OpenedIsRead
  <2> QED BY <2>3, <2>4
<1>6. ASSUME NEW k \in Database, NEW good \in BOOLEAN, Publish(k, good)
      PROVE  GeoInv'
  <2>1. /\ mirror' = [mirror EXCEPT ![k] = mirror[k] + 1] /\ disk' = disk
        /\ reader' = reader /\ client' = client /\ update' = update /\ opened' = opened
    BY <1>6 DEF Publish
  <2>2. /\ mirror' \in [Database -> Nat]
        /\ \A j \in Database : mirror[j] \in Nat /\ mirror'[j] \in Nat /\ mirror[j] <= mirror'[j]
    BY <2>1 DEF EditionsGrow
  <2>3. EditionsGrow'
    BY <2>1, <2>2 DEF EditionsGrow
  <2> QED BY <2>1, <2>3 DEF OpenedOnDisk, OpenedIsRead
<1>7. CASE UNCHANGED geoVars
  BY <1>7 DEF geoVars, EditionsGrow, OpenedOnDisk, OpenedIsRead
<1> QED BY <1>1, <1>2, <1>3, <1>4, <1>5, <1>6, <1>7 DEF GeoNext

\* Once a country database was opened, denied countries stay blocked until a
\* load fails on it or the mirror publishes one that cannot be opened, over
\* any number of updates, failed downloads and restarts (LoadDatabase,
\* downloadFile).
THEOREM CountryIsKept == GeoSpec => []CountryKept
<1>1. GeoInit => GeoInv
  BY DEF GeoInit, GeoInv, EditionsGrow, OpenedOnDisk, OpenedIsRead, Closed, NoUpdate, Down
<1>2. GeoInv => CountryKept
  <2> SUFFICES ASSUME GeoInv, client.enabled, opened # 0
               PROVE  /\ reader["country"] # Absent /\ reader["country"] >= opened
                      /\ \A a \in Country : a \in client.deny => Lookup(a).blocked
    BY DEF CountryKept
  <2>1. reader["country"] # Absent /\ reader["country"] >= opened
    BY GeoAssumption DEF GeoInv, OpenedIsRead
  <2>2. \A a \in Country : a # Private
    BY GeoAssumption
  <2> QED BY <2>1, <2>2 DEF Lookup
<1> QED BY <1>1, <1>2, GeoStep, PTL DEF GeoSpec

-----------------------------------------------------------------------------
(***************************************************************************)
(* The credentials of accounts                                             *)
(***************************************************************************)

\* A credential whose owner was told that it has ended never works again.
EndedIsOver == \A c \in ended : row[c].state \in {"used", "gone"}

\* The history of lapses has every credential that is past its expiry.
LapsesShown == \A c \in Cred : row[c].state = "live" /\ Past(c, now) => c \in lapsed

\* What a call has in hand. Its time is not in the future; the row it is about
\* was there once; the keys it replaces are deleted; the credentials it made
\* work unless someone meddled with them before their owner has them.
CallIsGood(k) ==
  /\ ~call[k].late
  /\ call[k].time <= now
  /\ call[k].at = "insert" => call[k].on \in Owner
  /\ call[k].at \in {"expire", "consume", "extend"} =>
       call[k].on \in Cred /\ row[call[k].on].state # "none"
  /\ call[k].at = "expire" => call[k].on \in lapsed
  /\ \A c \in call[k].old : row[c].state = "gone"
  /\ \A c \in call[k].made : c \notin asked \cup lapsed => row[c].state = "live"

CredentialInv ==
  /\ CredentialTypeOK
  /\ EndedIsOver /\ LapsesShown /\ GivenIsGood
  /\ \A k \in Caller : CallIsGood(k)

\* What a step may do with the rows: leave one as it is, make one work that
\* was never there, or end one; one that worked ends only at its owner's
\* request or past its expiry.
RowsMove ==
  /\ now' \in Nat /\ now <= now' /\ asked \subseteq asked' /\ lapsed \subseteq lapsed'
  /\ \A c \in Cred :
       \/ row'[c].state = row[c].state
       \/ row[c].state = "none" /\ row'[c].state = "live"
       \/ /\ Stored(c) /\ row'[c].state \in {"used", "gone"}
          /\ row[c].state = "live" => c \in asked' \cup lapsed'

\* A call that is over has nothing in hand.
LEMMA QuietIsGood ==
  ASSUME now' \in Nat, NEW k \in Caller, call'[k] = Quiet
  PROVE  CallIsGood(k)'
BY DEF CallIsGood, Quiet

\* Such steps keep what the other calls have in hand, and the invariant, if
\* what they add to the histories and to one call is good.
LEMMA RowsMoveKeeps ==
  ASSUME CredentialInv, CredentialTypeOK', RowsMove, LapsesShown',
         \A c \in ended' : c \in ended \/ row'[c].state \in {"used", "gone"},
         \A c \in given' : \/ c \in given
                           \/ c \notin asked' \cup lapsed' => row'[c].state = "live",
         \A k \in Caller : call'[k] = call[k] \/ CallIsGood(k)'
  PROVE  CredentialInv'
<1> USE DEF CredentialInv
<1>1. /\ now \in Nat /\ now' \in Nat /\ ended' \subseteq Cred /\ given' \subseteq Cred
      /\ \A k \in Caller : call[k].time \in Nat /\ call[k].made \subseteq Cred
                           /\ call[k].old \subseteq Cred
  BY ClockAssumption DEF CredentialTypeOK, CallTypeOK
<1>2. EndedIsOver'
  BY <1>1 DEF EndedIsOver, RowsMove, Stored
<1>3. GivenIsGood'
  BY <1>1 DEF GivenIsGood, RowsMove, Stored
<1>4. ASSUME NEW k \in Caller, call'[k] = call[k]
      PROVE  CallIsGood(k)'
  <2>0. CallIsGood(k) /\ call[k].time \in Nat
    BY <1>1
  <2>1. ~call'[k].late /\ call'[k].time <= now'
    BY <1>1, <1>4, <2>0 DEF CallIsGood, RowsMove
  <2>2. /\ call'[k].at = "insert" => call'[k].on \in Owner
        /\ call'[k].at = "expire" => call'[k].on \in lapsed'
    BY <1>4, <2>0 DEF CallIsGood, RowsMove
  <2>3. call'[k].at \in {"expire", "consume", "extend"} =>
          call'[k].on \in Cred /\ row'[call'[k].on].state # "none"
    BY <1>4, <2>0 DEF CallIsGood, RowsMove, Stored
  <2>4. \A c \in call'[k].old : row'[c].state = "gone"
    BY <1>1, <1>4, <2>0 DEF CallIsGood, RowsMove, Stored
  <2>5. \A c \in call'[k].made : c \notin asked' \cup lapsed' => row'[c].state = "live"
    BY <1>1, <1>4, <2>0 DEF CallIsGood, RowsMove, Stored
  <2> QED BY <2>1, <2>2, <2>3, <2>4, <2>5 DEF CallIsGood
<1> QED BY <1>2, <1>3, <1>4

\* Deleting leaves rows that are gone, and the others as they are.
LEMMA WithoutRows ==
  ASSUME CredentialInv, NEW cs
  PROVE  /\ Without(cs) \in [Cred -> Row]
         /\ \A c \in Cred :
              /\ c \in cs /\ Stored(c) => Without(cs)[c].state = "gone"
              /\ ~(c \in cs /\ Stored(c)) => Without(cs)[c] = row[c]
BY DEF CredentialInv, CredentialTypeOK, Row, Without, Gone, NoRow

\* A step that changes one call keeps the types of the others.
LEMMA OneCall ==
  ASSUME CredentialInv, NEW k \in Caller, NEW r, call' = [call EXCEPT ![k] = r]
  PROVE  /\ DOMAIN call' = Caller /\ call'[k] = r
         /\ \A j \in Caller : j # k => call'[j] = call[j]
BY DEF CredentialInv, CredentialTypeOK

\* The types after a step of one call.
LEMMA TypesKept ==
  ASSUME CredentialInv, now' \in 0..MaxClock, row' \in [Cred -> Row],
         given' \subseteq Cred, asked' \subseteq Cred, ended' \subseteq Cred, lapsed' \subseteq Cred,
         NEW k \in Caller, CallTypeOK(k)',
         DOMAIN call' = Caller, \A j \in Caller : j # k => call'[j] = call[j]
  PROVE  CredentialTypeOK'
<1>1. ASSUME NEW j \in Caller, j # k
      PROVE  CallTypeOK(j)'
  BY <1>1 DEF CallTypeOK, CredentialInv, CredentialTypeOK
<1> QED BY <1>1 DEF CredentialTypeOK

\* A call that is over has the type of a call.
LEMMA QuietTyped ==
  ASSUME NEW k \in Caller, call'[k] = Quiet
  PROVE  CallTypeOK(k)'
BY ClockAssumption DEF CallTypeOK, Quiet

\* A creation makes a row that works, in a place where none was; deleting
\* others with it, as CreateAdminToken does, ends them.
LEMMA CreationKeeps ==
  ASSUME CredentialInv, NEW k \in Caller, NEW c \in Cred, row[c].state = "none",
         NEW cs \in SUBSET Cred, c \notin cs, \A d \in cs : Stored(d),
         row' \in [Cred -> Row], row'[c].state = "live",
         \A d \in Cred \ {c} : row'[d] = Without(cs)[d],
         Past(c, now)' => c \in lapsed',
         now' = now, given' = given, asked' = asked \cup cs, ended' = ended \cup cs,
         lapsed' \in {lapsed, lapsed \cup {c}},
         DOMAIN call' = Caller, \A j \in Caller : j # k => call'[j] = call[j],
         CallTypeOK(k)',
         \/ call'[k] = [Quiet EXCEPT !.at = "return", !.made = {c}]
         \/ /\ call'[k].late = call[k].late /\ call'[k].time = call[k].time
            /\ call'[k].at = "insert" /\ call'[k].on \in Owner
            /\ call'[k].old = call[k].old /\ call'[k].made = call[k].made \cup {c}
  PROVE  CredentialInv'
<1> USE DEF CredentialInv
<1>0. now \in Nat /\ now' \in Nat
  BY ClockAssumption DEF CredentialTypeOK
<1>1. CredentialTypeOK'
  BY TypesKept DEF CredentialTypeOK
<1>2. \A d \in Cred \ {c} : /\ d \in cs => row'[d].state = "gone"
                            /\ d \notin cs => row'[d] = row[d]
  BY WithoutRows
<1>3. RowsMove
  BY <1>0, <1>2 DEF RowsMove
<1>4. LapsesShown'
  BY <1>2 DEF LapsesShown, Past
<1>5. \A d \in ended' : d \in ended \/ row'[d].state \in {"used", "gone"}
  BY <1>2
<1>6. CallIsGood(k)'
  <2>1. CASE call'[k] = [Quiet EXCEPT !.at = "return", !.made = {c}]
    BY <1>0, <2>1 DEF CallIsGood, Quiet
  <2>2. CASE /\ call'[k].late = call[k].late /\ call'[k].time = call[k].time
             /\ call'[k].at = "insert" /\ call'[k].on \in Owner
             /\ call'[k].old = call[k].old /\ call'[k].made = call[k].made \cup {c}
    <3>1. CallIsGood(k) /\ call[k].old \subseteq Cred /\ call[k].made \subseteq Cred
      BY DEF CredentialTypeOK, CallTypeOK
    <3>2. \A d \in call'[k].old : row'[d].state = "gone"
      BY <1>3, <2>2, <3>1 DEF CallIsGood, RowsMove, Stored
    <3>3. \A d \in call'[k].made : d \notin asked' \cup lapsed' => row'[d].state = "live"
      BY <1>3, <2>2, <3>1 DEF CallIsGood, RowsMove, Stored
    <3> QED BY <2>2, <3>1, <3>2, <3>3 DEF CallIsGood
  <2> QED BY <2>1, <2>2
<1> QED BY <1>1, <1>3, <1>4, <1>5, <1>6, RowsMoveKeeps

\* A statement that deletes rows, and ends the call it belongs to or none.
LEMMA DeletionKeeps ==
  ASSUME CredentialInv, NEW cs \in SUBSET Cred, row' = Without(cs),
         now' = now, given' = given, lapsed' = lapsed,
         \A c \in cs : row[c].state = "live" => c \in asked' \cup lapsed,
         asked' \in {asked, asked \cup cs}, ended' \in {ended, ended \cup cs},
         \A c \in ended' : c \in ended \/ Stored(c),
         CredentialTypeOK',
         \A j \in Caller : call'[j] = call[j] \/ CallIsGood(j)'
  PROVE  CredentialInv'
<1> USE DEF CredentialInv
<1>0. now \in Nat /\ now' \in Nat
  BY ClockAssumption DEF CredentialTypeOK
<1>1. \A c \in Cred : /\ c \in cs /\ Stored(c) => row'[c].state = "gone"
                      /\ ~(c \in cs /\ Stored(c)) => row'[c] = row[c]
  BY WithoutRows
<1>2. RowsMove
  BY <1>0, <1>1 DEF RowsMove, Stored
<1>3. LapsesShown'
  BY <1>1 DEF LapsesShown, Past
<1>4. \A c \in ended' : c \in ended \/ row'[c].state \in {"used", "gone"}
  BY <1>1 DEF CredentialTypeOK
<1> QED BY <1>2, <1>3, <1>4, RowsMoveKeeps

\* The DELETEs of revocations.
LEMMA RevokedKeeps ==
  ASSUME CredentialInv, NEW cs \in SUBSET Cred, \A c \in cs : Stored(c), Revoked(cs)
  PROVE  CredentialInv'
<1>1. CredentialTypeOK'
  <2>1. row' \in [Cred -> Row]
    BY WithoutRows DEF Revoked
  <2> QED BY <2>1 DEF Revoked, CredentialInv, CredentialTypeOK, CallTypeOK
<1> QED BY <1>1, DeletionKeeps DEF Revoked

\* The rows a statement finds by table and owner are stored rows.
LEMMA StoredRows ==
  ASSUME NEW kind, NEW o
  PROVE  /\ Rows(kind, o) \subseteq Kind(kind) /\ Kind(kind) \subseteq Cred
         /\ \A c \in Kind(kind) : Stored(c) /\ row[c].kind = kind
BY DEF Rows, Kind

\* Steps that begin a call change nothing else.
LEMMA BeginKeeps ==
  ASSUME CredentialInv, UNCHANGED <<now, row, given, asked, ended, lapsed>>,
         NEW k \in Caller, NEW r, call' = [call EXCEPT ![k] = r],
         CallTypeOK(k)', CallIsGood(k)'
  PROVE  CredentialInv'
<1>0. now \in Nat
  BY ClockAssumption DEF CredentialInv, CredentialTypeOK
<1>1. \A j \in Caller : j # k => call'[j] = call[j]
  BY OneCall
<1>2. CredentialTypeOK'
  BY <1>1, OneCall, TypesKept DEF CredentialInv, CredentialTypeOK
<1>3. RowsMove /\ LapsesShown'
  BY <1>0 DEF RowsMove, LapsesShown, Past, CredentialInv
<1> QED BY <1>1, <1>2, <1>3, RowsMoveKeeps

\* Steps that only end a call.
LEMMA StopKeeps ==
  ASSUME CredentialInv, UNCHANGED <<now, row, given, asked, ended, lapsed>>,
         NEW k \in Caller, Stop(k)
  PROVE  CredentialInv'
<1>0. now' \in Nat
  BY ClockAssumption DEF CredentialInv, CredentialTypeOK
<1>1. call' = [call EXCEPT ![k] = Quiet]
  BY DEF Stop
<1> QED BY <1>0, <1>1, OneCall, QuietIsGood, QuietTyped, BeginKeeps

\* Sessions, tokens and recovery keys are made and returned.
LEMMA CreationStep ==
  ASSUME CredentialInv, NEW k \in Caller, Creation(k)
  PROVE  CredentialInv'
<1> USE DEF CredentialInv
<1>0. /\ now \in Nat /\ Duration \in Nat /\ Never \notin Nat /\ 0 \in 0..MaxClock
      /\ row \in [Cred -> Row]
  BY ClockAssumption DEF CredentialTypeOK
<1>1. ASSUME NEW c \in Cred, Making(k, c)
      PROVE  /\ DOMAIN call' = Caller /\ \A j \in Caller : j # k => call'[j] = call[j]
             /\ CallTypeOK(k)'
             /\ call'[k] = [Quiet EXCEPT !.at = "return", !.made = {c}]
  <2>1. /\ DOMAIN call' = Caller /\ \A j \in Caller : j # k => call'[j] = call[j]
        /\ call'[k] = [Quiet EXCEPT !.at = "return", !.made = {c}]
    BY <1>1, OneCall DEF Making
  <2> QED BY <1>0, <2>1 DEF CallTypeOK, Quiet
<1>2. \A d \in Cred : Without({})[d] = row[d]
  BY WithoutRows
<1>3. ASSUME NEW c \in Cred, NEW o \in Owner, CreateSession(k, c, o)
      PROVE  CredentialInv'
  <2>1. /\ row[c].state = "none" /\ row' \in [Cred -> Row]
        /\ row'[c].state = "live" /\ row'[c].expires = now + Duration
        /\ \A d \in Cred \ {c} : row'[d] = row[d]
    BY <1>0, <1>3 DEF CreateSession, NoRow, Live, Row
  <2>2. ~Past(c, now)'
    BY <1>0, <1>3, <2>1 DEF Past, CreateSession
  <2>3. /\ {} \in SUBSET Cred /\ c \notin {} /\ \A d \in {} : Stored(d)
        /\ \A d \in Cred \ {c} : row'[d] = Without({})[d]
        /\ asked' = asked \cup {} /\ ended' = ended \cup {}
    BY <1>2, <1>3, <2>1 DEF CreateSession
  <2>4. /\ now' = now /\ given' = given /\ lapsed' \in {lapsed, lapsed \cup {c}}
        /\ Making(k, c)
    BY <1>3 DEF CreateSession
  <2> QED BY <1>1, <2>1, <2>2, <2>3, <2>4, CreationKeeps
<1>4. ASSUME NEW c \in Cred, NEW o \in Owner, NEW expires \in {Never} \cup 0..MaxClock,
             CreateToken(k, c, o, expires)
      PROVE  CredentialInv'
  <2>1. /\ row[c].state = "none" /\ row' \in [Cred -> Row]
        /\ row'[c].state = "live" /\ row'[c].expires = expires
        /\ \A d \in Cred \ {c} : row'[d] = row[d]
    BY <1>0, <1>4 DEF CreateToken, NoRow, Live, Row
  <2>2. Past(c, now)' => c \in lapsed'
    BY <1>4, <2>1 DEF Past, CreateToken
  <2>3. lapsed' \in {lapsed, lapsed \cup {c}}
    BY <1>4 DEF CreateToken
  <2>4. /\ {} \in SUBSET Cred /\ c \notin {} /\ \A d \in {} : Stored(d)
        /\ \A d \in Cred \ {c} : row'[d] = Without({})[d]
        /\ asked' = asked \cup {} /\ ended' = ended \cup {}
    BY <1>2, <1>4, <2>1 DEF CreateToken
  <2> QED BY <1>1, <1>4, <2>1, <2>2, <2>3, <2>4, CreationKeeps DEF CreateToken
<1>5. ASSUME NEW c \in Cred, NEW o \in Owner, CreateAdminToken(k, c, o)
      PROVE  CredentialInv'
  <2> DEFINE cs == Rows("admin", o)
  <2>1. /\ row[c].state = "none" /\ cs \subseteq Cred /\ \A d \in cs : Stored(d)
    BY <1>5, StoredRows DEF CreateAdminToken, NoRow
  <2>2. c \notin cs
    BY <2>1 DEF Stored
  <2>3. Without(cs) \in [Cred -> Row]
    BY WithoutRows
  <2>4. /\ row' \in [Cred -> Row]
        /\ row'[c].state = "live" /\ row'[c].expires = Never
        /\ \A d \in Cred \ {c} : row'[d] = Without(cs)[d]
    BY <1>0, <1>5, <2>3 DEF CreateAdminToken, Live, Row
  <2>5. ~Past(c, now)'
    BY <2>4 DEF Past
  <2> HIDE DEF cs
  <2>6. /\ now' = now /\ given' = given /\ asked' = asked \cup cs /\ ended' = ended \cup cs
        /\ lapsed' = lapsed /\ Making(k, c)
    BY <1>5 DEF CreateAdminToken, cs
  <2> QED BY <1>1, <2>1, <2>2, <2>4, <2>5, <2>6, CreationKeeps
<1>6. ASSUME NEW o \in Owner, GenerateKeys(k, o)
      PROVE  CredentialInv'
  <2> DEFINE cs == Rows("key", o)
  <2>1. cs \subseteq Cred /\ \A c \in cs : Stored(c)
    BY StoredRows
  <2> HIDE DEF cs
  <2>2. /\ row' = Without(cs) /\ asked' = asked \cup cs
        /\ UNCHANGED <<now, given, ended, lapsed>>
        /\ call' = [call EXCEPT ![k] = [Quiet EXCEPT !.at = "insert", !.on = o, !.old = cs]]
    BY <1>6 DEF GenerateKeys, cs
  <2>3. /\ DOMAIN call' = Caller /\ \A j \in Caller : j # k => call'[j] = call[j]
        /\ call'[k] = [Quiet EXCEPT !.at = "insert", !.on = o, !.old = cs]
    BY <2>2, OneCall
  <2>4. CallTypeOK(k)'
    BY <1>0, <2>1, <2>3 DEF CallTypeOK, Quiet
  <2>5. CredentialTypeOK'
    BY <2>1, <2>2, <2>3, <2>4, WithoutRows, TypesKept DEF CredentialTypeOK
  <2>6. CallIsGood(k)'
    BY <1>0, <2>1, <2>2, <2>3, WithoutRows DEF CallIsGood, Quiet
  <2> QED BY <2>1, <2>2, <2>3, <2>5, <2>6, DeletionKeeps
<1>7. ASSUME NEW c \in Cred, InsertKey(k, c)
      PROVE  CredentialInv'
  <2>0. CallIsGood(k) /\ CallTypeOK(k)
    BY DEF CredentialTypeOK
  <2>1. call[k].on \in Owner
    BY <1>7, <2>0 DEF CallIsGood, InsertKey
  <2>2. /\ row[c].state = "none" /\ row' \in [Cred -> Row]
        /\ row'[c].state = "live" /\ row'[c].expires = Never
        /\ \A d \in Cred \ {c} : row'[d] = row[d]
    BY <1>0, <1>7, <2>1 DEF InsertKey, NoRow, Live, Row
  <2>3. ~Past(c, now)'
    BY <2>2 DEF Past
  <2>4. /\ DOMAIN call' = Caller /\ \A j \in Caller : j # k => call'[j] = call[j]
        /\ call'[k] = [call[k] EXCEPT !.made = call[k].made \cup {c}]
    BY <1>7 DEF InsertKey, CredentialTypeOK
  <2>5. /\ call'[k].late = call[k].late /\ call'[k].time = call[k].time
        /\ call'[k].at = "insert" /\ call'[k].on = call[k].on
        /\ call'[k].old = call[k].old /\ call'[k].made = call[k].made \cup {c}
        /\ DOMAIN call'[k] = DOMAIN Quiet
    BY <1>7, <2>0, <2>4 DEF InsertKey, CallTypeOK, Quiet
  <2>6. CallTypeOK(k)'
    BY <2>0, <2>5 DEF CallTypeOK
  <2>7. /\ {} \in SUBSET Cred /\ c \notin {} /\ \A d \in {} : Stored(d)
        /\ \A d \in Cred \ {c} : row'[d] = Without({})[d]
        /\ asked' = asked \cup {} /\ ended' = ended \cup {}
    BY <1>2, <1>7, <2>2 DEF InsertKey
  <2> QED BY <1>7, <2>1, <2>2, <2>3, <2>4, <2>5, <2>6, <2>7, CreationKeeps DEF InsertKey
<1>8. CASE Return(k)
  <2>0. CallIsGood(k) /\ CallTypeOK(k)
    BY DEF CredentialTypeOK
  <2>1. DOMAIN call' = Caller /\ call'[k] = Quiet /\ \A j \in Caller : j # k => call'[j] = call[j]
    BY <1>8, OneCall DEF Return, Stop
  <2>2. CallTypeOK(k)' /\ CallIsGood(k)'
    BY <1>0, <1>8, <2>1, QuietTyped, QuietIsGood DEF Return
  <2>3. CredentialTypeOK'
    BY <1>8, <2>0, <2>1, <2>2, TypesKept DEF Return, CallTypeOK, CredentialTypeOK
  <2>4. RowsMove /\ LapsesShown'
    BY <1>0, <1>8 DEF Return, RowsMove, LapsesShown, Past
  <2>5. \A c \in ended' : c \in ended \/ row'[c].state \in {"used", "gone"}
    BY <1>8, <2>0 DEF Return, CallIsGood
  <2>6. \A c \in given' : \/ c \in given
                          \/ c \notin asked' \cup lapsed' => row'[c].state = "live"
    BY <1>8, <2>0 DEF Return, CallIsGood
  <2> QED BY <2>1, <2>2, <2>3, <2>4, <2>5, <2>6, RowsMoveKeeps
<1> QED BY <1>3, <1>4, <1>5, <1>6, <1>7, <1>8 DEF Creation

\* Validations, and the statements that follow their SELECT.
LEMMA ValidationStep ==
  ASSUME CredentialInv, NEW k \in Caller, Validation(k)
  PROVE  CredentialInv'
<1> USE DEF CredentialInv
<1>0. /\ now \in Nat /\ 0 \in 0..MaxClock /\ row \in [Cred -> Row]
      /\ CallIsGood(k) /\ CallTypeOK(k)
  BY ClockAssumption DEF CredentialTypeOK
<1>1. ASSUME NEW c \in Cred, Select(k, c)
      PROVE  CredentialInv'
  <2>1. PICK next \in {"expire", "accept", "consume"} :
          /\ \/ Validate(c, next) \/ validateToken(c, next)
             \/ validateAdminToken(c, next) \/ VerifyAndConsumeKey(c, next)
          /\ call' = [call EXCEPT ![k] =
                        [Quiet EXCEPT !.at = next, !.on = c, !.late = c \in ended]]
    BY <1>1 DEF Select
  <2>2. row[c].state = "live" /\ UNCHANGED <<now, row, given, asked, ended, lapsed>>
    BY <1>1 DEF Select
  <2>3. c \notin ended
    BY <2>2 DEF EndedIsOver
  <2>4. call'[k] = [Quiet EXCEPT !.at = next, !.on = c, !.late = FALSE]
    <3>1. (c \in ended) = FALSE
      BY <2>3
    <3> QED BY <2>1, <3>1, OneCall
  <2>5. CallTypeOK(k)'
    BY <1>0, <2>4 DEF CallTypeOK, Quiet
  <2>6. next = "expire" => c \in lapsed
    BY <2>1, <2>2 DEF Validate, validateToken, validateAdminToken, VerifyAndConsumeKey,
                      LapsesShown
  <2>7. CallIsGood(k)'
    BY <1>0, <2>2, <2>3, <2>4, <2>6 DEF CallIsGood, Quiet
  <2> QED BY <2>1, <2>2, <2>5, <2>7, BeginKeeps
<1>2. CASE Expire(k)
  <2> DEFINE cs == {call[k].on}
  <2>1. cs \in SUBSET Cred /\ \A c \in cs : c \in lapsed
    BY <1>0, <1>2 DEF Expire, CallIsGood
  <2> HIDE DEF cs
  <2>2. row' = Without(cs) /\ Stop(k) /\ UNCHANGED <<now, given, asked, ended, lapsed>>
    BY <1>2 DEF Expire, cs
  <2>3. DOMAIN call' = Caller /\ call'[k] = Quiet /\ \A j \in Caller : j # k => call'[j] = call[j]
    BY <2>2, OneCall DEF Stop
  <2>4. CallTypeOK(k)' /\ CallIsGood(k)'
    BY <1>0, <2>2, <2>3, QuietTyped, QuietIsGood
  <2>5. CredentialTypeOK'
    BY <2>2, <2>3, <2>4, WithoutRows, TypesKept DEF CredentialTypeOK
  <2> QED BY <2>1, <2>2, <2>3, <2>4, <2>5, DeletionKeeps
<1>3. CASE Consume(k)
  <2> DEFINE c == call[k].on
  <2>0. c \in Cred /\ row[c].state # "none" /\ call[k].at = "consume"
    BY <1>0, <1>3 DEF Consume, CallIsGood
  <2>1. /\ row' = IF Stored(c) THEN [row EXCEPT ![c].state = "used"] ELSE row
        /\ asked' = asked \cup {c} /\ ended' = ended \cup {c}
        /\ call' = [call EXCEPT ![k].at = "accept"]
        /\ UNCHANGED <<now, given, lapsed>>
    BY <1>3 DEF Consume
  <2>2. /\ call'[k].at = "accept" /\ call'[k].on = c
        /\ call'[k].late = call[k].late /\ call'[k].time = call[k].time
        /\ call'[k].old = call[k].old /\ call'[k].made = call[k].made
        /\ DOMAIN call'[k] = DOMAIN Quiet
        /\ DOMAIN call' = Caller /\ \A j \in Caller : j # k => call'[j] = call[j]
    BY <1>0, <2>1 DEF CallTypeOK, CredentialTypeOK, Quiet
  <2> HIDE DEF c
  <2>3. /\ row' \in [Cred -> Row] /\ row'[c].state \in {"used", "gone"}
        /\ row'[c].expires = row[c].expires
        /\ \A d \in Cred \ {c} : row'[d] = row[d]
        /\ Stored(c) \/ row'[c].state = row[c].state
    BY <1>0, <2>0, <2>1 DEF Stored, Row
  <2>4. CallTypeOK(k)'
    BY <1>0, <2>0, <2>2 DEF CallTypeOK
  <2>5. CredentialTypeOK'
    BY <2>0, <2>1, <2>2, <2>3, <2>4, TypesKept DEF CredentialTypeOK
  <2>6. RowsMove
    BY <1>0, <2>0, <2>1, <2>3 DEF RowsMove
  <2>7. LapsesShown'
    BY <2>0, <2>1, <2>3 DEF LapsesShown, Past
  <2>8. CallIsGood(k)'
    <3>1. call[k].old \subseteq Cred /\ call[k].made \subseteq Cred
      BY <1>0 DEF CallTypeOK
    <3>2. \A d \in call'[k].old : row'[d].state = "gone"
      BY <1>0, <2>2, <2>6, <3>1 DEF CallIsGood, RowsMove, Stored
    <3>3. \A d \in call'[k].made : d \notin asked' \cup lapsed' => row'[d].state = "live"
      BY <1>0, <2>2, <2>6, <3>1 DEF CallIsGood, RowsMove, Stored
    <3> QED BY <1>0, <2>1, <2>2, <3>2, <3>3 DEF CallIsGood
  <2> QED BY <2>0, <2>1, <2>2, <2>3, <2>5, <2>6, <2>7, <2>8, RowsMoveKeeps
<1>4. CASE Accept(k)
  BY <1>4, StopKeeps DEF Accept
<1> QED BY <1>1, <1>2, <1>3, <1>4 DEF Validation

\* Extensions of a session and the scheduled cleanups.
LEMMA ServiceStep ==
  ASSUME CredentialInv, NEW k \in Caller,
         \/ \E c \in Cred : ExtendBegin(k, c)
         \/ Extend(k) \/ CleanupBegin(k) \/ CleanupExpired(k) \/ CallEnds(k)
  PROVE  CredentialInv'
<1> USE DEF CredentialInv
<1>0. /\ now \in Nat /\ now \in 0..MaxClock /\ row \in [Cred -> Row] /\ Never \notin Nat
      /\ Duration \in Nat /\ CallIsGood(k) /\ CallTypeOK(k)
  BY ClockAssumption DEF CredentialTypeOK
<1>1. ASSUME NEW c \in Cred, ExtendBegin(k, c)
      PROVE  CredentialInv'
  <2>1. /\ call' = [call EXCEPT ![k] = [Quiet EXCEPT !.at = "extend", !.on = c, !.time = now]]
        /\ UNCHANGED <<now, row, given, asked, ended, lapsed>>
        /\ row[c].state # "none"
    BY <1>1 DEF ExtendBegin, Kind, Stored
  <2>2. call'[k] = [Quiet EXCEPT !.at = "extend", !.on = c, !.time = now]
    BY <2>1, OneCall
  <2>3. CallTypeOK(k)'
    BY <1>0, <2>2 DEF CallTypeOK, Quiet
  <2>4. CallIsGood(k)'
    BY <1>0, <2>1, <2>2 DEF CallIsGood, Quiet
  <2> QED BY <2>1, <2>3, <2>4, BeginKeeps
<1>2. CASE Extend(k)
  <2> DEFINE c == call[k].on
  <2>0. c \in Cred
    BY <1>0, <1>2 DEF Extend, CallIsGood
  <2>1. /\ row' = IF Stored(c) THEN [row EXCEPT ![c].expires = call[k].time + Duration] ELSE row
        /\ lapsed' = IF call[k].time + Duration < now THEN lapsed \cup {c} ELSE lapsed
        /\ Stop(k) /\ UNCHANGED <<now, given, asked, ended>>
    BY <1>2 DEF Extend
  <2>2. DOMAIN call' = Caller /\ call'[k] = Quiet /\ \A j \in Caller : j # k => call'[j] = call[j]
    BY <2>1, OneCall DEF Stop
  <2>3. CallTypeOK(k)' /\ CallIsGood(k)'
    BY <1>0, <2>1, <2>2, QuietTyped, QuietIsGood
  <2>4. call[k].time + Duration \in Nat
    BY <1>0 DEF CallTypeOK
  <2> HIDE DEF c
  <2>5. /\ row' \in [Cred -> Row]
        /\ \A d \in Cred : row'[d].state = row[d].state
        /\ \A d \in Cred \ {c} : row'[d] = row[d]
        /\ Stored(c) => row'[c].expires = call[k].time + Duration
    BY <1>0, <2>0, <2>1, <2>4 DEF Row
  <2>6. lapsed' \in {lapsed, lapsed \cup {c}}
    BY <2>1
  <2>7. CredentialTypeOK'
    BY <2>0, <2>1, <2>2, <2>3, <2>5, <2>6, TypesKept DEF CredentialTypeOK
  <2>8. RowsMove
    BY <1>0, <2>1, <2>5, <2>6 DEF RowsMove
  <2>9. LapsesShown'
    <3>1. ASSUME NEW d \in Cred, row'[d].state = "live", Past(d, now)'
          PROVE  d \in lapsed'
      <4>1. CASE d = c
        BY <2>0, <2>1, <2>4, <2>5, <3>1, <4>1 DEF Past, Stored
      <4>2. CASE d # c
        BY <2>1, <2>5, <2>6, <3>1, <4>2 DEF Past, LapsesShown
      <4> QED BY <4>1, <4>2
    <3> QED BY <3>1 DEF LapsesShown
  <2> QED BY <2>1, <2>2, <2>3, <2>7, <2>8, <2>9, RowsMoveKeeps
<1>3. CASE CleanupBegin(k)
  <2>1. /\ call' = [call EXCEPT ![k] = [Quiet EXCEPT !.at = "cleanup", !.time = now]]
        /\ UNCHANGED <<now, row, given, asked, ended, lapsed>>
    BY <1>3 DEF CleanupBegin
  <2>2. call'[k] = [Quiet EXCEPT !.at = "cleanup", !.time = now]
    BY <2>1, OneCall
  <2>3. CallTypeOK(k)'
    BY <1>0, <2>2 DEF CallTypeOK, Quiet
  <2>4. CallIsGood(k)'
    BY <1>0, <2>1, <2>2 DEF CallIsGood, Quiet
  <2> QED BY <2>1, <2>3, <2>4, BeginKeeps
<1>4. CASE CleanupExpired(k)
  <2>1. PICK kind \in {"session", "token"} :
          row' = Without({c \in Kind(kind) : Past(c, call[k].time)})
    BY <1>4 DEF CleanupExpired
  <2> DEFINE cs == {c \in Kind(kind) : Past(c, call[k].time)}
  <2>2. cs \in SUBSET Cred
    BY DEF Kind
  <2>3. \A c \in cs : row[c].state = "live" => c \in lapsed
    <3>1. call[k].time \in Nat /\ call[k].time <= now
      BY <1>0 DEF CallTypeOK, CallIsGood
    <3>2. ASSUME NEW c \in cs
          PROVE  Past(c, now)
      BY <1>0, <2>2, <3>1 DEF Past, Row
    <3> QED BY <2>2, <3>2 DEF LapsesShown
  <2> HIDE DEF cs
  <2>4. row' = Without(cs) /\ Stop(k) /\ UNCHANGED <<now, given, asked, ended, lapsed>>
    BY <1>4, <2>1 DEF CleanupExpired, cs
  <2>5. DOMAIN call' = Caller /\ call'[k] = Quiet /\ \A j \in Caller : j # k => call'[j] = call[j]
    BY <2>4, OneCall DEF Stop
  <2>6. CallTypeOK(k)' /\ CallIsGood(k)'
    BY <1>0, <2>4, <2>5, QuietTyped, QuietIsGood
  <2>7. CredentialTypeOK'
    BY <2>4, <2>5, <2>6, WithoutRows, TypesKept DEF CredentialTypeOK
  <2> QED BY <2>2, <2>3, <2>4, <2>5, <2>6, <2>7, DeletionKeeps
<1>5. CASE CallEnds(k)
  BY <1>5, StopKeeps DEF CallEnds
<1> QED BY <1>1, <1>2, <1>3, <1>4, <1>5

\* Every step keeps the invariant.
LEMMA CredentialStep ==
  ASSUME CredentialInv, [CredentialNext]_credVars
  PROVE  CredentialInv'
<1>1. CASE \E k \in Caller :
             \/ Creation(k) \/ Validation(k)
             \/ (\E c \in Cred : ExtendBegin(k, c)) \/ Extend(k)
             \/ CleanupBegin(k) \/ CleanupExpired(k)
             \/ CallEnds(k)
  BY <1>1, CreationStep, ValidationStep, ServiceStep
<1>2. CASE Revocation
  <2>1. ASSUME NEW o \in Owner, NEW c \in Cred, Revoke(o, c)
        PROVE  CredentialInv'
    <3>1. {c} \in SUBSET Cred /\ \A d \in {c} : Stored(d)
      BY <2>1, StoredRows DEF Revoke
    <3> QED BY <2>1, <3>1, RevokedKeeps DEF Revoke
  <2>2. ASSUME NEW o \in Owner, NEW c \in Cred, DeleteAllExcept(o, c)
        PROVE  CredentialInv'
    <3> DEFINE cs == Rows("session", o) \ {c}
    <3>1. cs \in SUBSET Cred /\ \A d \in cs : Stored(d)
      BY StoredRows
    <3> HIDE DEF cs
    <3>2. Revoked(cs)
      BY <2>2 DEF DeleteAllExcept, cs
    <3> QED BY <3>1, <3>2, RevokedKeeps
  <2>3. ASSUME NEW o \in Owner, DeleteAllForUser(o)
        PROVE  CredentialInv'
    <3>1. PICK kind \in {"session", "key"} : Revoked(Rows(kind, o))
      BY <2>3 DEF DeleteAllForUser
    <3> DEFINE cs == Rows(kind, o)
    <3>2. cs \in SUBSET Cred /\ \A d \in cs : Stored(d)
      BY StoredRows
    <3> HIDE DEF cs
    <3>3. Revoked(cs)
      BY <3>1 DEF cs
    <3> QED BY <3>2, <3>3, RevokedKeeps
  <2> QED BY <1>2, <2>1, <2>2, <2>3 DEF Revocation
<1>3. CASE Pass
  <2> USE DEF CredentialInv
  <2>0. now \in 0..MaxClock /\ MaxClock \in Nat
    BY ClockAssumption DEF CredentialTypeOK
  <2>1. /\ now' = now + 1 /\ now' \in 0..MaxClock
        /\ lapsed' = lapsed \cup {c \in Cred : row[c].state = "live" /\ Past(c, now + 1)}
        /\ UNCHANGED <<row, call, given, asked, ended>>
    BY <1>3, <2>0 DEF Pass
  <2>2. CredentialTypeOK'
    BY <2>1 DEF CredentialTypeOK, CallTypeOK
  <2>3. RowsMove
    BY <2>0, <2>1 DEF RowsMove
  <2>4. LapsesShown'
    BY <2>1 DEF LapsesShown, Past
  <2> QED BY <2>1, <2>2, <2>3, <2>4, RowsMoveKeeps
<1>4. CASE UNCHANGED credVars
  BY <1>4 DEF credVars, CredentialInv, CredentialTypeOK, CallTypeOK, EndedIsOver, LapsesShown,
              GivenIsGood, CallIsGood, Past
<1> QED BY <1>1, <1>2, <1>3, <1>4 DEF CredentialNext

\* The inductive invariant of the credentials: types, histories and what every
\* call in progress has in hand.
THEOREM CredentialInvariance == CredentialSpec => []CredentialInv
<1>1. CredentialInit => CredentialInv
  <2> SUFFICES ASSUME CredentialInit
               PROVE  CredentialInv
    OBVIOUS
  <2>1. now = 0 /\ 0 \in 0..MaxClock /\ row \in [Cred -> Row] /\ DOMAIN call = Caller
    BY ClockAssumption DEF CredentialInit, Row, NoRow
  <2>2. ASSUME NEW k \in Caller
        PROVE  CallTypeOK(k) /\ CallIsGood(k)
    <3>1. call[k] = Quiet
      BY DEF CredentialInit
    <3> QED BY <2>1, <3>1 DEF CallTypeOK, CallIsGood, Quiet
  <2>3. EndedIsOver /\ LapsesShown /\ GivenIsGood
    BY DEF CredentialInit, NoRow, EndedIsOver, LapsesShown, GivenIsGood
  <2> QED BY <2>1, <2>2, <2>3 DEF CredentialInit, CredentialInv, CredentialTypeOK
<1> QED BY <1>1, CredentialStep, PTL DEF CredentialSpec

\* A validation that begins after a credential was revoked, replaced or
\* consumed by a call that has returned never accepts it.
THEOREM NothingAcceptedLate == CredentialSpec => []NoLateAcceptance
<1>1. CredentialInv => NoLateAcceptance
  BY DEF CredentialInv, CallIsGood, NoLateAcceptance
<1> QED BY <1>1, CredentialInvariance, PTL

\* What its owner was given and has not asked to end works until it expires.
THEOREM WhatIsGivenWorks == CredentialSpec => []GivenIsGood
<1>1. CredentialInv => GivenIsGood
  BY DEF CredentialInv
<1> QED BY <1>1, CredentialInvariance, PTL

-----------------------------------------------------------------------------
(***************************************************************************)
(* The forms of the web pages                                              *)
(***************************************************************************)

\* What is so of every request on its own. A page that comes with a cookie has
\* that cookie's token; a form that failed comes back without a cookie; a post
\* has its number. The other site has no token of the browser's.
RequestIsGood(c) ==
  /\ req[c].at = "answer" => req[c].cookie = req[c].token /\ req[c].token # NoToken
  /\ req[c].at = "rendered" => req[c].cookie = NoToken
  /\ req[c].at \in {"post", "handler", "log"} => req[c].n >= 1
  /\ c = Site =>
       /\ req[c].at \in {"blank", "post", "handler", "log"}
       /\ req[c].path = "form" => req[c].token \in {NoToken, MaxTokens + 1}
       /\ req[c].at = "handler" => req[c].path = "api"

\* While the server takes requests the audit log is open, and whoever reports
\* a refusal has its logger; nobody waits for a server that is down.
AuditInUse ==
  /\ proc = "serving" =>
       /\ globalLogger = "set" /\ auditFile = "open"
       /\ \A c \in Client : req[c].at = "log" => req[c].logger = "set"
  /\ proc = "down" => \A c \in Client : ~Waiting(c)

CsrfInv ==
  /\ CsrfTypeOK
  /\ \A c \in Client : RequestIsGood(c)
  /\ AuditInUse /\ RefusalsRecorded

\* c waits for a page that will come with a cookie.
Sends(c) == req[c].at \in {"get", "logout", "answer", "loggedOut"}

\* Such a page leaves the cookie as it is. A page of the row has its token.
KeptTab(c) ==
  /\ Sends(c) /\ jar # NoToken => req[c].cookie = jar
  /\ c \in kept =>
       /\ req[c].at # "log"
       /\ req[c].at \in {"page", "post", "handler", "rendered"} =>
            jar # NoToken /\ req[c].token = jar
       /\ req[c].at \in {"post", "handler"} => req[c].cookie = jar

\* While there is a row of pages with one token, what is under way leaves the
\* cookie at that token. Before its first page has come one tab waits alone.
ReloadInv ==
  kept # {} =>
    /\ \A c \in Tab : KeptTab(c)
    /\ jar = NoToken => \A c, d \in Tab : Sends(c) /\ Sends(d) => c = d
    /\ \A s \in Part : parts[s].at # "none" => jar # NoToken /\ parts[s].cookie = jar

\* Set changes what one tab shows, or the other site.
LEMMA SetOne ==
  ASSUME CsrfInv, NEW c \in Client, NEW r, Set(c, r)
  PROVE  /\ DOMAIN req' = Client /\ req'[c] = r
         /\ \A o \in Client : o # c => req'[o] = req[o]
BY DEF Set, CsrfInv, CsrfTypeOK

\* A step of one client keeps the invariant if what it leaves of that client
\* and of the refusals is good.
LEMMA ClientKeeps ==
  ASSUME CsrfInv, NEW c \in Client, DOMAIN req' = Client,
         \A o \in Client : o # c => req'[o] = req[o],
         RequestTypeOK(c)', RequestIsGood(c)',
         jar' \in 0..MaxTokens, tokens' \in 0..MaxTokens, posts' \in 0..MaxPosts,
         parts' = parts, kept' \subseteq Tab, proc' = proc, proc # "down", globalLogger' = globalLogger, auditFile' = auditFile,
         proc = "serving" /\ req'[c].at = "log" => req'[c].logger = "set",
         refused' \subseteq 1..MaxPosts, entries' \subseteq Nat, refused' \subseteq entries'
  PROVE  CsrfInv'
<1> USE DEF CsrfInv
<1>1. \A o \in Client : RequestTypeOK(o)'
  BY DEF CsrfTypeOK, RequestTypeOK
<1>2. CsrfTypeOK'
  BY <1>1 DEF CsrfTypeOK, AuditTypeOK
<1>3. \A o \in Client : RequestIsGood(o)'
  BY DEF RequestIsGood
<1>4. AuditInUse'
  BY DEF AuditInUse
<1> QED BY <1>2, <1>3, <1>4 DEF RefusalsRecorded

\* A request for a page.
LEMMA FetchIsGood ==
  ASSUME CsrfInv, NEW c \in Tab, NEW method \in {"get", "logout"},
         NEW cookie \in {jar, NoToken}, Fetch(c, method, cookie)
  PROVE  /\ DOMAIN req' = Client /\ \A o \in Client : o # c => req'[o] = req[o]
         /\ RequestTypeOK(c)' /\ RequestIsGood(c)'
         /\ req'[c].at = method /\ req'[c].cookie = cookie
         /\ kept' \subseteq Tab
<1>1. /\ DOMAIN req' = Client /\ \A o \in Client : o # c => req'[o] = req[o]
      /\ req'[c] = [Blank EXCEPT !.at = method, !.cookie = cookie]
  BY SetOne DEF Fetch, Client
<1>2. /\ c # Site /\ 0 \in 0..MaxTokens /\ 0 \in 0..MaxTokens + 1 /\ 0 \in 0..MaxPosts
      /\ cookie \in 0..MaxTokens /\ kept \subseteq Tab
  BY CsrfAssumption DEF CsrfInv, CsrfTypeOK, NoToken
<1>3. RequestTypeOK(c)' /\ req'[c].at = method /\ req'[c].cookie = cookie
  BY <1>1, <1>2 DEF RequestTypeOK, Blank, Stage, NoToken
<1>4. RequestIsGood(c)'
  BY <1>2, <1>3 DEF RequestIsGood
<1>5. kept' \subseteq Tab
  BY <1>2 DEF Fetch
<1> QED BY <1>1, <1>3, <1>4, <1>5

\* A form that is sent.
LEMMA PostKeeps ==
  ASSUME CsrfInv, NEW c \in Client, NEW path1 \in {"form", "api"}, NEW cookie \in 0..MaxTokens,
         NEW token \in 0..MaxTokens + 1, Post(c, path1, cookie, token),
         c = Site /\ path1 = "form" => token \in {NoToken, MaxTokens + 1}
  PROVE  CsrfInv'
<1> USE DEF CsrfInv
<1>1. /\ DOMAIN req' = Client /\ \A o \in Client : o # c => req'[o] = req[o]
      /\ req'[c] = [Blank EXCEPT !.at = "post", !.path = path1, !.cookie = cookie,
                                 !.token = token, !.n = posts + 1]
  BY SetOne DEF Post
<1>2. /\ posts \in Nat /\ posts + 1 \in 0..MaxPosts /\ posts + 1 >= 1 /\ posts' = posts + 1
      /\ UNCHANGED <<jar, parts, tokens, kept, refused, proc, auditVars>> /\ proc # "down"
  BY CsrfAssumption DEF Post, CsrfTypeOK, Up
<1>3. /\ RequestTypeOK(c)' /\ req'[c].at = "post" /\ req'[c].path = path1
      /\ req'[c].token = token /\ req'[c].n = posts + 1
  BY <1>1, <1>2 DEF RequestTypeOK, Blank, Stage
<1>4. RequestIsGood(c)'
  BY <1>2, <1>3 DEF RequestIsGood
<1> QED BY <1>1, <1>2, <1>3, <1>4, ClientKeeps
     DEF CsrfTypeOK, AuditTypeOK, auditVars, RefusalsRecorded

\* The steps of the browser's tabs, and of the server on their requests for
\* pages.
LEMMA TabStep ==
  ASSUME CsrfInv, NEW c \in Tab,
         \/ \E method \in {"get", "logout"} : Open(c, method)
         \/ Follow(c) \/ Submit(c) \/ Arrive(c) \/ ArriveLogout(c) \/ HandleSafe(c) \/ Render(c)
  PROVE  CsrfInv'
<1> USE DEF CsrfInv
<1>0. /\ c \in Client /\ c # Site /\ Site \in Client /\ MaxTokens \in Nat /\ MaxPosts \in Nat
      /\ jar \in 0..MaxTokens /\ tokens \in 0..MaxTokens /\ posts \in 0..MaxPosts
      /\ kept \subseteq Tab
      /\ refused \subseteq 1..MaxPosts /\ entries \subseteq Nat /\ refused \subseteq entries
      /\ RequestTypeOK(c) /\ RequestIsGood(c)
  BY CsrfAssumption DEF CsrfTypeOK, AuditTypeOK, RefusalsRecorded, Client
<1>1. ASSUME NEW method \in {"get", "logout"}, Open(c, method)
      PROVE  CsrfInv'
  <2>1. /\ UNCHANGED <<jar, parts, tokens, posts, refused, proc, auditVars>>
        /\ proc # "down" /\ Fetch(c, method, jar)
    BY <1>1 DEF Open, Up
  <2> QED BY <1>0, <2>1, FetchIsGood, ClientKeeps DEF auditVars
<1>7. CASE Follow(c)
  <2>1. /\ UNCHANGED <<jar, parts, tokens, posts, refused, proc, auditVars>>
        /\ proc # "down" /\ Fetch(c, "get", NoToken)
    BY <1>7 DEF Follow, Up
  <2> QED BY <1>0, <2>1, FetchIsGood, ClientKeeps DEF auditVars
<1>2. CASE Submit(c)
  BY <1>0, <1>2, PostKeeps DEF Submit, RequestTypeOK
<1>3. CASE Arrive(c)
  <2>1. /\ req[c].at \in {"answer", "rendered"}
        /\ jar' = IF req[c].cookie = NoToken THEN jar ELSE req[c].cookie
        /\ UNCHANGED <<parts, tokens, posts, kept, refused, proc, auditVars>>
    BY <1>3 DEF Arrive
  <2>2. /\ DOMAIN req' = Client /\ \A o \in Client : o # c => req'[o] = req[o]
        /\ req'[c] = [Blank EXCEPT !.at = "page", !.token = req[c].token]
    BY <1>0, <1>3, SetOne DEF Arrive
  <2>3. proc # "down"
    BY <1>0, <2>1 DEF AuditInUse, Waiting
  <2>4. jar' \in 0..MaxTokens
    BY <1>0, <2>1 DEF RequestTypeOK
  <2>5. RequestTypeOK(c)' /\ req'[c].at = "page" /\ req'[c].token = req[c].token
    BY <1>0, <2>2 DEF RequestTypeOK, Blank, Stage, NoToken
  <2>6. RequestIsGood(c)'
    BY <1>0, <2>5 DEF RequestIsGood
  <2>7. /\ tokens' = tokens /\ posts' = posts /\ parts' = parts /\ kept' = kept
        /\ refused' = refused /\ proc' = proc /\ globalLogger' = globalLogger
        /\ auditFile' = auditFile /\ entries' = entries /\ req'[c].at # "log"
    BY <2>1, <2>5 DEF auditVars
  <2> QED BY <1>0, <2>2, <2>3, <2>4, <2>5, <2>6, <2>7, ClientKeeps
<1>4. CASE ArriveLogout(c)
  <2>1. /\ req[c].at = "loggedOut" /\ jar' \in {NoToken, req[c].cookie}
        /\ kept' = {}
        /\ UNCHANGED <<parts, tokens, posts, refused, proc, auditVars>>
    BY <1>4 DEF ArriveLogout
  <2>2. /\ DOMAIN req' = Client /\ \A o \in Client : o # c => req'[o] = req[o]
        /\ req'[c] = [Blank EXCEPT !.at = "get", !.cookie = jar']
    BY <1>0, <1>4, SetOne DEF ArriveLogout
  <2>3. proc # "down"
    BY <1>0, <2>1 DEF AuditInUse, Waiting
  <2>4. jar' \in 0..MaxTokens
    BY <1>0, <2>1 DEF RequestTypeOK, NoToken
  <2>5. RequestTypeOK(c)' /\ req'[c].at = "get"
    BY <1>0, <2>2, <2>4 DEF RequestTypeOK, Blank, Stage, NoToken
  <2>6. RequestIsGood(c)'
    BY <1>0, <2>1, <2>5 DEF RequestIsGood
  <2>7. /\ tokens' = tokens /\ posts' = posts /\ parts' = parts
        /\ refused' = refused /\ proc' = proc /\ globalLogger' = globalLogger
        /\ auditFile' = auditFile /\ entries' = entries /\ kept' \subseteq Tab
        /\ req'[c].at # "log"
    BY <2>1, <2>5 DEF auditVars
  <2> QED BY <1>0, <2>2, <2>3, <2>4, <2>5, <2>6, <2>7, ClientKeeps
<1>5. CASE HandleSafe(c)
  <2> DEFINE token == SafeToken(req[c])
             at == IF req[c].at = "get" THEN "answer" ELSE "loggedOut"
  <2>1. /\ proc # "down" /\ (tokens < MaxTokens \/ req[c].cookie # NoToken)
        /\ tokens' = IF token = Fresh THEN Fresh ELSE tokens
        /\ Set(c, [Blank EXCEPT !.at = at, !.cookie = token, !.token = token])
        /\ UNCHANGED <<jar, parts, posts, kept, refused, proc, auditVars>>
    BY <1>5 DEF HandleSafe, Up, Generate
  <2>2. token \in 1..MaxTokens
    BY <1>0, <2>1 DEF SafeToken, RequestTypeOK, Fresh, NoToken
  <2>3. at \in {"answer", "loggedOut"}
    OBVIOUS
  <2> HIDE DEF token, at
  <2>4. tokens' \in 0..MaxTokens
    BY <1>0, <2>1, <2>2
  <2>5. /\ DOMAIN req' = Client /\ \A o \in Client : o # c => req'[o] = req[o]
        /\ req'[c] = [Blank EXCEPT !.at = at, !.cookie = token, !.token = token]
    BY <1>0, <2>1, SetOne
  <2>6. /\ RequestTypeOK(c)' /\ req'[c].at = at
        /\ req'[c].cookie = token /\ req'[c].token = token
    BY <1>0, <2>2, <2>3, <2>5 DEF RequestTypeOK, Blank, Stage
  <2>7. RequestIsGood(c)'
    BY <1>0, <2>2, <2>3, <2>6 DEF RequestIsGood, NoToken
  <2>8. /\ jar' = jar /\ posts' = posts /\ parts' = parts /\ kept' = kept
        /\ refused' = refused /\ proc' = proc /\ globalLogger' = globalLogger
        /\ auditFile' = auditFile /\ entries' = entries /\ proc # "down"
        /\ req'[c].at # "log"
    BY <2>1, <2>3, <2>6 DEF auditVars
  <2> QED BY <1>0, <2>4, <2>5, <2>6, <2>7, <2>8, ClientKeeps
<1>6. CASE Render(c)
  <2> DEFINE token == GetCSRFToken(req[c])
  <2>1. /\ proc # "down" /\ token <= MaxTokens
        /\ tokens' = IF token = Fresh THEN Fresh ELSE tokens
        /\ Set(c, [Blank EXCEPT !.at = "rendered", !.token = token])
        /\ UNCHANGED <<jar, parts, posts, kept, refused, proc, auditVars>>
    BY <1>6 DEF Render, Up, Generate
  <2>2. token \in 0..MaxTokens
    BY <1>0, <2>1 DEF GetCSRFToken, RequestTypeOK, Fresh
  <2> HIDE DEF token
  <2>3. tokens' \in 0..MaxTokens
    BY <1>0, <2>1, <2>2
  <2>4. /\ DOMAIN req' = Client /\ \A o \in Client : o # c => req'[o] = req[o]
        /\ req'[c] = [Blank EXCEPT !.at = "rendered", !.token = token]
    BY <1>0, <2>1, SetOne
  <2>5. RequestTypeOK(c)' /\ req'[c].at = "rendered" /\ req'[c].cookie = NoToken
    BY <1>0, <2>2, <2>4 DEF RequestTypeOK, Blank, Stage, NoToken
  <2>6. RequestIsGood(c)'
    BY <1>0, <2>5 DEF RequestIsGood
  <2> QED BY <1>0, <2>1, <2>3, <2>4, <2>5, <2>6, ClientKeeps DEF auditVars
<1> QED BY <1>1, <1>2, <1>3, <1>4, <1>5, <1>6, <1>7

\* A step of a request for a part of a page.
LEMMA PartStep ==
  ASSUME CsrfInv, NEW s \in Part, FetchPart(s) \/ HandlePart(s) \/ ArrivePart(s)
  PROVE  CsrfInv'
<1> USE DEF CsrfInv
<1>0. /\ MaxTokens \in Nat /\ jar \in 0..MaxTokens /\ tokens \in 0..MaxTokens /\ kept \subseteq Tab
      /\ parts \in [Part -> [at : {"none", "get", "answer"}, cookie : 0..MaxTokens]]
      /\ 0 \in 0..MaxTokens
  BY CsrfAssumption DEF CsrfTypeOK
<1>1. UNCHANGED <<req, posts, refused, proc, auditVars>>
  BY DEF FetchPart, HandlePart, ArrivePart
<1>2. ASSUME jar' \in 0..MaxTokens, tokens' \in 0..MaxTokens, kept' \subseteq Tab,
             parts' \in [Part -> [at : {"none", "get", "answer"}, cookie : 0..MaxTokens]]
      PROVE  CsrfInv'
  <2>1. CsrfTypeOK'
    BY <1>1, <1>2 DEF CsrfTypeOK, AuditTypeOK, auditVars, RequestTypeOK
  <2>2. AuditInUse' /\ RefusalsRecorded' /\ (\A c \in Client : RequestIsGood(c))'
    BY <1>1 DEF AuditInUse, RefusalsRecorded, auditVars, Waiting, RequestIsGood
  <2> QED BY <2>1, <2>2
<1>3. CASE FetchPart(s)
  BY <1>0, <1>2, <1>3 DEF FetchPart
<1>4. CASE HandlePart(s)
  <2> DEFINE token == SafeToken(parts[s])
  <2>1. /\ tokens < MaxTokens \/ parts[s].cookie # NoToken
        /\ tokens' = IF token = Fresh THEN Fresh ELSE tokens
        /\ parts' = [parts EXCEPT ![s] = [at |-> "answer", cookie |-> token]]
        /\ jar' = jar /\ kept' = kept
    BY <1>4 DEF HandlePart, Generate
  <2>2. token \in 0..MaxTokens
    BY <1>0, <2>1 DEF SafeToken, Fresh, NoToken
  <2> HIDE DEF token
  <2>3. tokens' \in 0..MaxTokens
    BY <1>0, <2>1, <2>2
  <2> QED BY <1>0, <1>2, <2>1, <2>2, <2>3
<1>5. CASE ArrivePart(s)
  <2>1. jar' \in 0..MaxTokens
    BY <1>0, <1>5 DEF ArrivePart
  <2> QED BY <1>0, <1>2, <1>5, <2>1 DEF ArrivePart, NoPart, NoToken
<1> QED BY <1>3, <1>4, <1>5

\* The server's steps on a form, of a tab or of the other site.
LEMMA FormStep ==
  ASSUME CsrfInv, NEW c \in Client,
         ValidatePost(c) \/ Redirect(c) \/ \E d \in BOOLEAN : Refuse(c, d)
  PROVE  CsrfInv'
<1> USE DEF CsrfInv
<1>0. /\ MaxTokens \in Nat /\ MaxPosts \in Nat
      /\ jar \in 0..MaxTokens /\ tokens \in 0..MaxTokens /\ posts \in 0..MaxPosts
      /\ kept \subseteq Tab
      /\ refused \subseteq 1..MaxPosts /\ entries \subseteq Nat /\ refused \subseteq entries
      /\ RequestTypeOK(c) /\ RequestIsGood(c) /\ globalLogger \in {"none", "set"}
      /\ proc = "serving" => globalLogger = "set" /\ auditFile = "open"
  BY CsrfAssumption DEF CsrfTypeOK, AuditTypeOK, RefusalsRecorded, AuditInUse
<1>1. CASE ValidatePost(c)
  <2>1. /\ proc # "down" /\ req[c].at = "post"
        /\ UNCHANGED <<jar, parts, tokens, posts, kept, refused, proc, auditVars>>
    BY <1>1 DEF ValidatePost, Up
  <2>2. CASE isCSRFExempt(req[c]) \/ Valid(req[c])
    <3>1. /\ DOMAIN req' = Client /\ \A o \in Client : o # c => req'[o] = req[o]
          /\ req'[c] = [req[c] EXCEPT !.at = "handler"]
      BY <1>1, <2>2, SetOne DEF ValidatePost
    <3>2. /\ req'[c].at = "handler" /\ req'[c].path = req[c].path
          /\ req'[c].cookie = req[c].cookie /\ req'[c].token = req[c].token
          /\ req'[c].n = req[c].n /\ req'[c].logger = req[c].logger
          /\ DOMAIN req'[c] = DOMAIN req[c]
      BY <1>0, <3>1 DEF RequestTypeOK, Blank
    <3>3. RequestTypeOK(c)'
      BY <1>0, <3>2 DEF RequestTypeOK, Stage
    <3>4. ASSUME c = Site
          PROVE  req[c].path = "api"
      <4>1. req[c].path = "form" => ~Valid(req[c])
        BY <1>0, <3>4 DEF RequestTypeOK, RequestIsGood, Valid, extractCSRFToken, NoToken
      <4> QED BY <1>0, <2>2, <4>1 DEF isCSRFExempt, RequestTypeOK
    <3>5. RequestIsGood(c)'
      BY <1>0, <2>1, <3>2, <3>4 DEF RequestIsGood
    <3> QED BY <1>0, <2>1, <3>1, <3>2, <3>3, <3>5, ClientKeeps DEF auditVars
  <2>3. CASE ~(isCSRFExempt(req[c]) \/ Valid(req[c]))
    <3>1. /\ DOMAIN req' = Client /\ \A o \in Client : o # c => req'[o] = req[o]
          /\ req'[c] = [req[c] EXCEPT !.at = "log", !.logger = globalLogger]
      BY <1>1, <2>3, SetOne DEF ValidatePost, CSRFFailure, GetLogger
    <3>2. /\ req'[c].at = "log" /\ req'[c].path = req[c].path
          /\ req'[c].cookie = req[c].cookie /\ req'[c].token = req[c].token
          /\ req'[c].n = req[c].n /\ req'[c].logger = globalLogger
          /\ DOMAIN req'[c] = DOMAIN req[c]
      BY <1>0, <3>1 DEF RequestTypeOK, Blank
    <3>3. RequestTypeOK(c)'
      BY <1>0, <3>2 DEF RequestTypeOK, Stage
    <3>4. RequestIsGood(c)'
      BY <1>0, <2>1, <3>2 DEF RequestIsGood
    <3> QED BY <1>0, <2>1, <3>1, <3>2, <3>3, <3>4, ClientKeeps DEF auditVars
  <2> QED BY <2>2, <2>3
<1>2. ASSUME Set(c, Blank)
      PROVE  /\ DOMAIN req' = Client /\ \A o \in Client : o # c => req'[o] = req[o]
             /\ RequestTypeOK(c)' /\ RequestIsGood(c)' /\ req'[c].at = "blank"
  <2>1. /\ DOMAIN req' = Client /\ \A o \in Client : o # c => req'[o] = req[o]
        /\ req'[c] = Blank
    BY <1>2, SetOne
  <2> QED BY <1>0, <2>1 DEF RequestTypeOK, RequestIsGood, Blank, Stage, NoToken
<1>3. CASE Redirect(c)
  <2>1. /\ proc # "down"
        /\ UNCHANGED <<jar, parts, tokens, posts, refused, proc, auditVars>>
        /\ c \in Tab => Fetch(c, "get", jar)
        /\ c \notin Tab => Set(c, Blank) /\ kept' = kept
    BY <1>3 DEF Redirect, Up
  <2>2. CASE c \in Tab
    BY <1>0, <2>1, <2>2, FetchIsGood, ClientKeeps DEF auditVars
  <2>3. CASE c \notin Tab
    BY <1>0, <1>2, <2>1, <2>3, ClientKeeps DEF auditVars
  <2> QED BY <2>2, <2>3
<1>4. ASSUME NEW d \in BOOLEAN, Refuse(c, d)
      PROVE  CsrfInv'
  <2>1. /\ proc # "down" /\ req[c].at = "log" /\ Set(c, Blank)
        /\ globalLogger' = globalLogger /\ auditFile' = auditFile
        /\ UNCHANGED <<jar, parts, tokens, posts, kept, proc>>
    BY <1>4 DEF Refuse, Up, Log
  <2>2. req[c].n \in 1..MaxPosts
    BY <1>0, <2>1 DEF RequestTypeOK, RequestIsGood
  <2>3. entries \subseteq entries' /\ entries' \subseteq entries \cup {req[c].n}
    BY <1>4 DEF Refuse, Log
  <2>4. refused' \subseteq entries' /\ refused' \subseteq 1..MaxPosts
    <3>1. CASE d /\ proc = "serving"
      <4>1. req[c].logger = "set"
        BY <2>1, <3>1 DEF AuditInUse
      <4>2. Recorded(req[c].logger, d)
        BY <1>0, <3>1, <4>1 DEF Recorded
      <4>3. entries' = entries \cup {req[c].n} /\ refused' = refused \cup {req[c].n}
        BY <1>4, <3>1, <4>2 DEF Refuse, Log
      <4> QED BY <1>0, <2>2, <4>3
    <3>2. CASE ~(d /\ proc = "serving")
      <4>1. refused' = refused
        BY <1>4, <3>2 DEF Refuse
      <4> QED BY <1>0, <2>3, <4>1
    <3> QED BY <3>1, <3>2
  <2>5. entries' \subseteq Nat
    <3>1. entries \subseteq Nat /\ req[c].n \in Nat
      BY <1>0, <2>2
    <3> QED BY <2>3, <3>1
  <2>6. /\ DOMAIN req' = Client /\ \A o \in Client : o # c => req'[o] = req[o]
        /\ RequestTypeOK(c)' /\ RequestIsGood(c)' /\ req'[c].at # "log"
    BY <1>2, <2>1
  <2>7. /\ jar' \in 0..MaxTokens /\ tokens' \in 0..MaxTokens /\ posts' \in 0..MaxPosts
        /\ kept' \subseteq Tab /\ parts' = parts /\ proc' = proc
    BY <1>0, <2>1
  <2> QED BY <2>1, <2>4, <2>5, <2>6, <2>7, ClientKeeps
<1> QED BY <1>1, <1>3, <1>4

\* Every step keeps the invariant.
LEMMA CsrfStep ==
  ASSUME CsrfInv, [CsrfNext]_csrfVars
  PROVE  CsrfInv'
<1> USE DEF CsrfInv
<1>0. /\ Site \in Client /\ MaxTokens \in Nat /\ MaxPosts \in Nat
      /\ jar \in 0..MaxTokens /\ MaxTokens + 1 \in 0..MaxTokens + 1
      /\ 0 \in 0..MaxTokens /\ 0 \in 0..MaxTokens + 1
  BY CsrfAssumption DEF CsrfTypeOK, Client
<1>1. ASSUME NEW c \in Tab,
             \/ \E method \in {"get", "logout"} : Open(c, method)
             \/ Follow(c) \/ Submit(c) \/ Arrive(c) \/ ArriveLogout(c) \/ HandleSafe(c) \/ Render(c)
      PROVE  CsrfInv'
  BY <1>1, TabStep
<1>2. ASSUME NEW c \in Client,
             \/ ValidatePost(c) \/ Redirect(c)
             \/ \E d \in BOOLEAN : Refuse(c, d)
      PROVE  CsrfInv'
  BY <1>2, FormStep
<1>9. ASSUME NEW s \in Part, FetchPart(s) \/ HandlePart(s) \/ ArrivePart(s)
      PROVE  CsrfInv'
  BY <1>9, PartStep
<1>3. CASE ForeignPost
  <2>1. ASSUME NEW cookie \in {jar, NoToken}, NEW token \in {NoToken, MaxTokens + 1},
               Post(Site, "form", cookie, token)
        PROVE  CsrfInv'
    <3>1. cookie \in 0..MaxTokens /\ token \in 0..MaxTokens + 1
      BY <1>0 DEF NoToken
    <3> QED BY <1>0, <2>1, <3>1, PostKeeps
  <2>2. CASE Post(Site, "api", jar, NoToken)
    BY <1>0, <2>2, PostKeeps DEF NoToken
  <2> QED BY <1>3, <2>1, <2>2 DEF ForeignPost
<1>4. CASE CookieExpires
  <2>1. /\ jar' = NoToken /\ kept' = {}
        /\ UNCHANGED <<req, parts, tokens, posts, refused, proc, auditVars>>
    BY <1>4 DEF CookieExpires
  <2>2. CsrfTypeOK'
    BY <1>0, <2>1 DEF CsrfTypeOK, AuditTypeOK, auditVars, RequestTypeOK, NoToken
  <2>3. (\A c \in Client : RequestIsGood(c))'
    BY <2>1 DEF RequestIsGood
  <2> QED BY <2>1, <2>2, <2>3 DEF AuditInUse, RefusalsRecorded, auditVars, Waiting
<1>5. CASE StopAudit
  <2>1. /\ proc' = "draining" /\ UNCHANGED webVars /\ entries' = entries
        /\ globalLogger' = "none" /\ auditFile' \in {"open", "closed"}
    BY <1>5 DEF StopAudit, CloseGlobal, CsrfTypeOK, AuditTypeOK
  <2>2. CsrfTypeOK'
    BY <2>1 DEF CsrfTypeOK, AuditTypeOK, webVars, RequestTypeOK
  <2> QED BY <2>1, <2>2 DEF webVars, RequestIsGood, AuditInUse, RefusalsRecorded
<1>6. CASE Exit
  <2>1. /\ proc' = "down" /\ UNCHANGED <<jar, tokens, posts, kept, refused>>
        /\ globalLogger' = "none" /\ auditFile' = "closed" /\ entries' = entries
    BY <1>6 DEF Exit, ProcessGone
  <2>2. /\ DOMAIN req' = Client /\ parts' = [s \in Part |-> NoPart]
        /\ \A c \in Client : \/ req'[c] = Blank
                             \/ req'[c] = req[c] /\ ~Waiting(c)
    BY <1>6 DEF Exit, CutRequests
  <2>3. ASSUME NEW c \in Client
        PROVE  RequestTypeOK(c)' /\ RequestIsGood(c)' /\ ~Waiting(c)'
    <3>1. CASE req'[c] = Blank
      BY <1>0, <3>1, CsrfAssumption
         DEF RequestTypeOK, RequestIsGood, Waiting, Blank, Stage, NoToken
    <3>2. CASE req'[c] = req[c] /\ ~Waiting(c)
      BY <3>2 DEF CsrfTypeOK, RequestTypeOK, RequestIsGood, Waiting
    <3> QED BY <2>2, <3>1, <3>2
  <2>4. CsrfTypeOK'
    BY <1>0, <2>1, <2>2, <2>3 DEF CsrfTypeOK, AuditTypeOK, NoPart, NoToken
  <2> QED BY <2>1, <2>3, <2>4 DEF AuditInUse, RefusalsRecorded
<1>7. CASE StartAgain
  <2>1. /\ proc = "down" /\ proc' = "serving" /\ UNCHANGED webVars /\ entries' = entries
        /\ globalLogger' = "set" /\ auditFile' = "open"
    BY <1>7 DEF StartAgain, InitGlobal, New
  <2>2. CsrfTypeOK'
    BY <2>1 DEF CsrfTypeOK, AuditTypeOK, webVars, RequestTypeOK
  <2>3. \A c \in Client : req[c].at # "log"
    BY <2>1 DEF AuditInUse, Waiting
  <2> QED BY <2>1, <2>2, <2>3
     DEF webVars, RequestIsGood, AuditInUse, RefusalsRecorded
<1>8. CASE UNCHANGED csrfVars
  <2>1. UNCHANGED webVars /\ UNCHANGED proc /\ UNCHANGED auditVars
    BY <1>8 DEF csrfVars
  <2>2. CsrfTypeOK'
    BY <2>1 DEF webVars, auditVars, CsrfTypeOK, AuditTypeOK, RequestTypeOK
  <2>3. AuditInUse'
    BY <2>1 DEF webVars, auditVars, AuditInUse, Waiting
  <2> QED BY <2>1, <2>2, <2>3
     DEF webVars, auditVars, RequestIsGood, RefusalsRecorded
<1> QED BY <1>1, <1>2, <1>3, <1>4, <1>5, <1>6, <1>7, <1>8, <1>9 DEF CsrfNext

\* The inductive invariant of the forms: types, every request on its own, and
\* the audit log in use.
THEOREM CsrfInvariance == CsrfSpec => []CsrfInv
<1>1. CsrfInit => CsrfInv
  <2> SUFFICES ASSUME CsrfInit
               PROVE  CsrfInv
    OBVIOUS
  <2>1. /\ MaxTokens \in Nat /\ MaxPosts \in Nat /\ 0 \in 0..MaxTokens
        /\ 0 \in 0..MaxTokens + 1 /\ 0 \in 0..MaxPosts
    BY CsrfAssumption
  <2>2. ASSUME NEW c \in Client
        PROVE  RequestTypeOK(c) /\ RequestIsGood(c) /\ req[c].at = "blank"
    <3>1. req[c] = Blank
      BY DEF CsrfInit
    <3> QED BY <2>1, <3>1 DEF RequestTypeOK, RequestIsGood, Blank, Stage, NoToken
  <2>3. CsrfTypeOK
    <3>1. parts \in [Part -> [at : {"none", "get", "answer"}, cookie : 0..MaxTokens]]
      BY <2>1 DEF CsrfInit, NoPart, NoToken
    <3>2. AuditTypeOK
      BY DEF CsrfInit, AuditInit, AuditTypeOK, System
    <3>3. DOMAIN req = Client /\ Site \in Client
      BY DEF CsrfInit, Client
    <3>4. /\ jar = 0 /\ tokens = 0 /\ posts = 0 /\ proc = "serving" /\ kept = {} /\ refused = {}
      BY DEF CsrfInit, NoToken
    <3> QED BY <2>1, <2>2, <3>1, <3>2, <3>3, <3>4 DEF CsrfTypeOK
  <2>4. AuditInUse /\ RefusalsRecorded
    BY <2>2 DEF CsrfInit, AuditInit, AuditInUse, RefusalsRecorded
  <2> QED BY <2>2, <2>3, <2>4 DEF CsrfInv
<1> QED BY <1>1, CsrfStep, PTL DEF CsrfSpec

\* No form that a page of another site makes the browser send is handled,
\* whatever cookie goes with it and whatever token the page makes up.
THEOREM ForeignFormsAreRefused == CsrfSpec => []ForeignFormRefused
<1>1. CsrfInv => ForeignFormRefused
  BY DEF CsrfInv, RequestIsGood, ForeignFormRefused, isCSRFExempt, Client
<1> QED BY <1>1, CsrfInvariance, PTL

\* Every refusal answered before a shutdown, on a disk that takes writes, is in
\* the audit log and stays there.
THEOREM RefusalsAreRecorded == CsrfSpec => []RefusalsRecorded
<1>1. CsrfInv => RefusalsRecorded
  BY DEF CsrfInv
<1> QED BY <1>1, CsrfInvariance, PTL

\* A step of one tab that leaves the cookie, the row and the parts alone keeps
\* the row if the tab is good afterwards and does not begin to send.
LEMMA OneTabKeeps ==
  ASSUME ReloadInv, NEW c \in Tab, jar' = jar, kept' = kept, parts' = parts,
         \A o \in Tab : o # c => req'[o] = req[o],
         kept # {} => KeptTab(c)' /\ (Sends(c)' => Sends(c))
  PROVE  ReloadInv'
<1> SUFFICES ASSUME kept # {}
             PROVE  /\ \A o \in Tab : KeptTab(o)'
                    /\ jar = NoToken => \A o, p \in Tab : Sends(o)' /\ Sends(p)' => o = p
  BY DEF ReloadInv
<1>1. \A o \in Tab : KeptTab(o)'
  BY DEF ReloadInv, KeptTab, Sends
<1>2. \A o \in Tab : Sends(o)' => Sends(o)
  BY DEF Sends
<1> QED BY <1>1, <1>2 DEF ReloadInv

\* A request for a page joins the row, starts one or ends it.
LEMMA FetchKeeps ==
  ASSUME CsrfInv, ReloadInv, NEW c \in Tab, NEW method \in {"get", "logout"},
         NEW cookie \in {jar, NoToken}, Fetch(c, method, cookie), jar' = jar, parts' = parts
  PROVE  ReloadInv'
<1>1. /\ req'[c].at = method /\ req'[c].cookie = cookie
      /\ \A o \in Tab : o # c => req'[o] = req[o]
  BY FetchIsGood DEF Client
<1>2. Sends(c)' /\ req'[c].at \notin {"page", "post", "handler", "rendered", "log"}
  BY <1>1 DEF Sends
<1>3. ASSUME AtRest(c)
      PROVE  /\ \A o \in Tab : o # c => ~Sends(o)' /\ req[o].at \in {"blank", "page"}
             /\ \A s \in Part : parts[s].at = "none"
  BY <1>1, <1>3 DEF AtRest, Waiting, Sends, NoPart
<1>4. CASE cookie # NoToken /\ kept # {}
  <2>1. kept' = kept \cup {c} /\ cookie = jar /\ jar # NoToken
    BY <1>4 DEF Fetch
  <2>2. ASSUME NEW o \in Tab PROVE KeptTab(o)'
    <3>1. CASE o = c
      BY <1>1, <1>2, <2>1, <3>1 DEF KeptTab
    <3>2. CASE o # c
      <4>1. KeptTab(o) /\ req'[o] = req[o] /\ (o \in kept' => o \in kept)
        BY <1>1, <1>4, <2>1, <3>2 DEF ReloadInv
      <4> QED BY <4>1 DEF KeptTab, Sends
    <3> QED BY <3>1, <3>2
  <2> QED BY <1>4, <2>1, <2>2 DEF ReloadInv
<1>5. CASE cookie # NoToken /\ kept = {} /\ AtRest(c)
  <2>1. kept' = {c} /\ cookie = jar /\ jar # NoToken
    BY <1>5 DEF Fetch
  <2>2. ASSUME NEW o \in Tab PROVE KeptTab(o)'
    BY <1>1, <1>2, <1>3, <1>5, <2>1 DEF KeptTab
  <2> QED BY <1>3, <1>5, <2>1, <2>2 DEF ReloadInv
<1>6. CASE cookie = NoToken /\ jar = NoToken /\ AtRest(c)
  <2>1. kept' = {c}
    BY <1>6 DEF Fetch
  <2>2. ASSUME NEW o \in Tab PROVE KeptTab(o)'
    BY <1>1, <1>2, <1>3, <1>6, <2>1 DEF KeptTab
  <2> QED BY <1>3, <1>6, <2>1, <2>2 DEF ReloadInv
<1>7. CASE /\ ~(cookie # NoToken /\ (kept # {} \/ AtRest(c)))
           /\ ~(cookie = NoToken /\ jar = NoToken /\ AtRest(c))
  <2>1. kept' = {}
    BY <1>7 DEF Fetch
  <2> QED BY <2>1 DEF ReloadInv
<1> QED BY <1>4, <1>5, <1>6, <1>7

\* A page arrives, and with it the cookie of its token.
LEMMA ArriveKeeps ==
  ASSUME CsrfInv, ReloadInv, NEW c \in Tab, Arrive(c)
  PROVE  ReloadInv'
<1>0. /\ RequestIsGood(c) /\ c \in Client /\ Tab \subseteq Client
      /\ req[c].at \in {"answer", "rendered"} /\ kept' = kept /\ parts' = parts
      /\ jar' = IF req[c].cookie = NoToken THEN jar ELSE req[c].cookie
      /\ Set(c, [Blank EXCEPT !.at = "page", !.token = req[c].token])
  BY DEF Arrive, CsrfInv, Client
<1>1. /\ req'[c].at = "page" /\ req'[c].token = req[c].token
      /\ \A o \in Tab : o # c => req'[o] = req[o]
  <2>1. /\ req'[c] = [Blank EXCEPT !.at = "page", !.token = req[c].token]
        /\ \A o \in Client : o # c => req'[o] = req[o]
    BY <1>0, SetOne
  <2> QED BY <1>0, <2>1 DEF Blank
<1> SUFFICES ASSUME kept # {}
             PROVE  ReloadInv'
  BY <1>0 DEF ReloadInv
<1>2. \A o \in Tab : KeptTab(o)
  BY DEF ReloadInv
<1>3. ~Sends(c)'
  BY <1>1 DEF Sends
<1>4. CASE jar' = jar
  <2>1. KeptTab(c)'
    <3>1. c \in kept => jar # NoToken /\ req[c].token = jar
      <4>1. CASE req[c].at = "answer"
        BY <1>0, <1>4, <4>1 DEF RequestIsGood
      <4>2. CASE req[c].at = "rendered"
        BY <1>2, <4>2 DEF KeptTab
      <4> QED BY <1>0, <4>1, <4>2
    <3> QED BY <1>0, <1>1, <1>3, <1>4, <3>1 DEF KeptTab
  <2> QED BY <1>0, <1>1, <1>3, <1>4, <2>1, OneTabKeeps
<1>5. CASE jar' # jar
  <2>1. req[c].at = "answer" /\ jar' = req[c].token /\ jar' # NoToken /\ Sends(c)
    BY <1>0, <1>5 DEF RequestIsGood, Sends
  <2>2. jar = NoToken
    BY <1>0, <1>2, <1>5, <2>1 DEF KeptTab
  <2>3. \A o \in Tab : o # c => ~Sends(o)
    BY <2>1, <2>2 DEF ReloadInv
  <2>4. \A s \in Part : parts[s].at = "none"
    BY <2>2 DEF ReloadInv
  <2>5. ASSUME NEW o \in Tab, o # c PROVE KeptTab(o)'
    <3>1. KeptTab(o) /\ req'[o] = req[o] /\ ~Sends(o)
      BY <1>1, <1>2, <2>3, <2>5
    <3>2. o \in kept => req[o].at \notin {"page", "post", "handler", "rendered", "log"}
      BY <2>2, <3>1 DEF KeptTab
    <3> QED BY <1>0, <3>1, <3>2 DEF KeptTab, Sends
  <2>6. KeptTab(c)'
    BY <1>1, <1>3, <2>1 DEF KeptTab
  <2> QED BY <1>0, <2>1, <2>4, <2>5, <2>6 DEF ReloadInv
<1> QED BY <1>4, <1>5

\* The steps of the tabs' requests keep the row.
LEMMA ReloadTabStep ==
  ASSUME CookieName = Literal, FieldName = Literal, CsrfInv, ReloadInv, NEW c \in Tab,
         \/ \E method \in {"get", "logout"} : Open(c, method)
         \/ Follow(c) \/ Submit(c) \/ Arrive(c) \/ ArriveLogout(c) \/ HandleSafe(c) \/ Render(c)
         \/ ValidatePost(c) \/ Redirect(c)
         \/ \E d \in BOOLEAN : Refuse(c, d)
  PROVE  ReloadInv'
<1>0. /\ c \in Client /\ Tab \subseteq Client
      /\ RequestTypeOK(c) /\ RequestIsGood(c)
      /\ MaxTokens \in Nat /\ tokens \in 0..MaxTokens /\ jar \in 0..MaxTokens
  BY CsrfAssumption DEF CsrfInv, CsrfTypeOK, Client
<1>1. ASSUME kept # {}
      PROVE  KeptTab(c)
  BY <1>1 DEF ReloadInv
<1>2. ASSUME NEW r, Set(c, r), jar' = jar, kept' = kept, parts' = parts,
             kept # {} => KeptTab(c)' /\ (Sends(c)' => Sends(c))
      PROVE  ReloadInv'
  <2>1. \A o \in Tab : o # c => req'[o] = req[o]
    BY <1>0, <1>2, SetOne
  <2> QED BY <1>2, <2>1, OneTabKeeps
<1>3. ASSUME NEW method \in {"get", "logout"}, Open(c, method)
      PROVE  ReloadInv'
  BY <1>3, FetchKeeps DEF Open
<1>4. CASE Follow(c)
  BY <1>4, FetchKeeps DEF Follow
<1>5. CASE Redirect(c)
  BY <1>5, FetchKeeps DEF Redirect
<1>6. CASE ArriveLogout(c)
  BY <1>6 DEF ArriveLogout, ReloadInv
<1>7. CASE Submit(c)
  <2>1. /\ kept' = kept /\ parts' = parts /\ jar' = jar /\ req[c].at = "page"
        /\ Set(c, [Blank EXCEPT !.at = "post", !.path = "form", !.cookie = jar,
                                !.token = req[c].token, !.n = posts + 1])
    BY <1>7 DEF Submit, Post
  <2>2. req'[c].at = "post" /\ req'[c].cookie = jar /\ req'[c].token = req[c].token
    <3>1. req'[c] = [Blank EXCEPT !.at = "post", !.path = "form", !.cookie = jar,
                                  !.token = req[c].token, !.n = posts + 1]
      BY <1>0, <2>1, SetOne
    <3> QED BY <3>1 DEF Blank
  <2>3. kept # {} => KeptTab(c)'
    BY <1>1, <2>1, <2>2 DEF KeptTab, Sends
  <2> QED BY <1>2, <2>1, <2>2, <2>3 DEF Sends
<1>8. CASE HandleSafe(c)
  <2> DEFINE token == SafeToken(req[c])
             at == IF req[c].at = "get" THEN "answer" ELSE "loggedOut"
  <2>1. /\ req[c].at \in {"get", "logout"} /\ kept' = kept /\ parts' = parts /\ jar' = jar
        /\ tokens < MaxTokens \/ req[c].cookie # NoToken
        /\ Set(c, [Blank EXCEPT !.at = at, !.cookie = token, !.token = token])
    BY <1>8 DEF HandleSafe, isSafeMethod
  <2>2. /\ req[c].cookie # NoToken => token = req[c].cookie
        /\ at \in {"answer", "loggedOut"}
    BY DEF SafeToken
  <2> HIDE DEF token, at
  <2>3. req'[c].at = at /\ req'[c].cookie = token
    <3>1. req'[c] = [Blank EXCEPT !.at = at, !.cookie = token, !.token = token]
      BY <1>0, <2>1, SetOne
    <3> QED BY <3>1 DEF Blank
  <2>4. Sends(c)
    BY <2>1 DEF Sends
  <2>5. kept # {} => KeptTab(c)'
    BY <1>1, <2>1, <2>2, <2>3, <2>4 DEF KeptTab
  <2> QED BY <1>2, <2>1, <2>4, <2>5
<1>9. CASE Render(c)
  <2>1. /\ kept' = kept /\ parts' = parts /\ jar' = jar /\ req[c].at = "handler"
        /\ Set(c, [Blank EXCEPT !.at = "rendered", !.token = GetCSRFToken(req[c])])
    BY <1>9 DEF Render
  <2>2. req'[c].at = "rendered" /\ req'[c].token = GetCSRFToken(req[c])
    <3>1. req'[c] = [Blank EXCEPT !.at = "rendered", !.token = GetCSRFToken(req[c])]
      BY <1>0, <2>1, SetOne
    <3> QED BY <3>1 DEF Blank
  <2>3. ASSUME kept # {} PROVE KeptTab(c)'
    <3>1. c \in kept => jar # NoToken /\ GetCSRFToken(req[c]) = jar
      BY <1>1, <2>1, <2>3 DEF KeptTab, GetCSRFToken
    <3> QED BY <2>1, <2>2, <3>1 DEF KeptTab, Sends
  <2> QED BY <1>2, <2>1, <2>2, <2>3 DEF Sends
<1>10. CASE ValidatePost(c)
  <2> DEFINE r == IF isCSRFExempt(req[c]) \/ Valid(req[c])
                  THEN [req[c] EXCEPT !.at = "handler"] ELSE CSRFFailure(req[c])
  <2>1. /\ kept' = kept /\ parts' = parts /\ jar' = jar /\ req[c].at = "post" /\ Set(c, r)
    BY <1>10 DEF ValidatePost
  <2>2. req'[c] = r
    BY <1>0, <2>1, SetOne
  <2>3. /\ r.at \in {"handler", "log"} /\ r.token = req[c].token /\ r.cookie = req[c].cookie
        /\ Valid(req[c]) => r.at = "handler"
    BY <1>0 DEF RequestTypeOK, Blank, CSRFFailure
  <2> HIDE DEF r
  <2>4. ASSUME kept # {} PROVE KeptTab(c)'
    <3>1. c \in kept => Valid(req[c])
      BY <1>1, <2>1, <2>4 DEF KeptTab, Valid, extractCSRFToken
    <3> QED BY <1>1, <2>1, <2>2, <2>3, <2>4, <3>1 DEF KeptTab, Sends
  <2> QED BY <1>2, <2>1, <2>2, <2>3, <2>4 DEF Sends
<1>11. ASSUME NEW d \in BOOLEAN, Refuse(c, d)
       PROVE  ReloadInv'
  <2>1. kept' = kept /\ parts' = parts /\ jar' = jar /\ Set(c, Blank)
    BY <1>11 DEF Refuse
  <2>2. req'[c].at = "blank"
    BY <1>0, <2>1, SetOne DEF Blank
  <2>3. KeptTab(c)' /\ ~Sends(c)'
    BY <2>2 DEF KeptTab, Sends
  <2> QED BY <1>2, <2>1, <2>3
<1> QED BY <1>3, <1>4, <1>5, <1>6, <1>7, <1>8, <1>9, <1>10, <1>11, ArriveKeeps

\* So do the requests for parts of pages.
LEMMA ReloadPartStep ==
  ASSUME CsrfInv, ReloadInv, NEW s \in Part, FetchPart(s) \/ HandlePart(s) \/ ArrivePart(s)
  PROVE  ReloadInv'
<1>0. req' = req /\ DOMAIN parts = Part
  BY DEF FetchPart, HandlePart, ArrivePart, CsrfInv, CsrfTypeOK
<1>1. ASSUME jar' = jar, kept' = kept, NEW r, parts' = [parts EXCEPT ![s] = r],
             kept # {} => (r.at # "none" => jar # NoToken /\ r.cookie = jar)
      PROVE  ReloadInv'
  <2> SUFFICES ASSUME kept # {}
               PROVE  ReloadInv'
    BY <1>1 DEF ReloadInv
  <2>1. \A o \in Tab : KeptTab(o)' /\ (Sends(o)' <=> Sends(o))
    BY <1>0, <1>1 DEF ReloadInv, KeptTab, Sends
  <2>2. \A p \in Part : parts'[p].at # "none" => jar # NoToken /\ parts'[p].cookie = jar
    <3> TAKE p \in Part
    <3>1. parts'[p] = IF p = s THEN r ELSE parts[p]
      BY <1>0, <1>1
    <3> QED BY <1>1, <3>1 DEF ReloadInv
  <2> QED BY <1>1, <2>1, <2>2 DEF ReloadInv
<1>2. CASE FetchPart(s)
  <2>1. CASE jar = NoToken
    BY <1>2, <2>1 DEF FetchPart, ReloadInv
  <2>2. CASE jar # NoToken
    BY <1>1, <1>2, <2>2 DEF FetchPart
  <2> QED BY <2>1, <2>2
<1>3. CASE HandlePart(s)
  <2>1. /\ jar' = jar /\ kept' = kept /\ parts[s].at = "get"
        /\ parts' = [parts EXCEPT ![s] = [at |-> "answer", cookie |-> SafeToken(parts[s])]]
    BY <1>3 DEF HandlePart
  <2>2. kept # {} => jar # NoToken /\ SafeToken(parts[s]) = jar
    BY <2>1 DEF ReloadInv, SafeToken
  <2> QED BY <1>1, <2>1, <2>2
<1>4. CASE ArrivePart(s)
  <2>1. /\ parts[s].at = "answer" /\ kept' = kept /\ jar' \in {jar, parts[s].cookie}
        /\ parts' = [parts EXCEPT ![s] = NoPart]
    BY <1>4 DEF ArrivePart
  <2>2. CASE kept = {}
    BY <2>1, <2>2 DEF ReloadInv
  <2>3. CASE kept # {}
    <3>1. jar' = jar
      BY <2>1, <2>3 DEF ReloadInv
    <3> QED BY <1>1, <2>1, <3>1 DEF NoPart
  <2> QED BY <2>2, <2>3
<1> QED BY <1>2, <1>3, <1>4

\* Every step keeps the row.
LEMMA ReloadStep ==
  ASSUME CookieName = Literal, FieldName = Literal, CsrfInv, ReloadInv, [CsrfNext]_csrfVars
  PROVE  ReloadInv'
<1>0. /\ Site \in Client /\ Site \notin Tab /\ Tab \subseteq Client
      /\ Client = Tab \cup {Site}
  BY CsrfAssumption DEF Client
<1>1. ASSUME \A o \in Tab : req'[o] = req[o], jar' = jar, kept' = kept, parts' = parts
      PROVE  ReloadInv'
  BY <1>1 DEF ReloadInv, KeptTab, Sends
<1>2. ASSUME NEW r, Set(Site, r)
      PROVE  \A o \in Tab : req'[o] = req[o]
  BY <1>0, <1>2, SetOne
<1>3. ASSUME NEW c \in Tab,
             \/ \E method \in {"get", "logout"} : Open(c, method)
             \/ Follow(c) \/ Submit(c) \/ Arrive(c) \/ ArriveLogout(c) \/ HandleSafe(c) \/ Render(c)
             \/ ValidatePost(c) \/ Redirect(c)
             \/ \E d \in BOOLEAN : Refuse(c, d)
      PROVE  ReloadInv'
  BY <1>3, ReloadTabStep
<1>4. ASSUME NEW s \in Part, FetchPart(s) \/ HandlePart(s) \/ ArrivePart(s)
      PROVE  ReloadInv'
  BY <1>4, ReloadPartStep
<1>5. CASE ValidatePost(Site)
  BY <1>1, <1>2, <1>5 DEF ValidatePost
<1>6. CASE Redirect(Site)
  BY <1>0, <1>1, <1>2, <1>6 DEF Redirect
<1>7. ASSUME NEW d \in BOOLEAN, Refuse(Site, d)
      PROVE  ReloadInv'
  BY <1>1, <1>2, <1>7 DEF Refuse
<1>8. CASE ForeignPost
  <2>1. kept' = kept /\ jar' = jar /\ parts' = parts /\ \E r : Set(Site, r)
    BY <1>8 DEF ForeignPost, Post
  <2> QED BY <1>1, <1>2, <2>1
<1>9. CASE CookieExpires
  BY <1>9 DEF CookieExpires, ReloadInv
<1>10. CASE StopAudit \/ StartAgain \/ UNCHANGED csrfVars
  <2>1. kept' = kept /\ jar' = jar /\ req' = req /\ parts' = parts
    BY <1>10 DEF StopAudit, StartAgain, csrfVars, webVars
  <2> QED BY <1>1, <2>1
<1>11. CASE Exit
  <2>1. /\ kept' = kept /\ jar' = jar /\ parts' = [s \in Part |-> NoPart]
        /\ \A c \in Client : req'[c] = Blank \/ req'[c] = req[c]
    BY <1>11 DEF Exit, CutRequests
  <2>2. Blank.at = "blank" /\ NoPart.at = "none"
    BY DEF Blank, NoPart
  <2>3. \A o \in Tab : req'[o].at = "blank" \/ req'[o] = req[o]
    BY <1>0, <2>1, <2>2
  <2>4. ASSUME kept # {}
        PROVE  /\ \A o \in Tab : KeptTab(o)' /\ (Sends(o)' => Sends(o))
               /\ \A s \in Part : parts'[s].at = "none"
    BY <2>1, <2>2, <2>3, <2>4 DEF ReloadInv, KeptTab, Sends
  <2> QED BY <2>1, <2>4 DEF ReloadInv
<1> QED BY <1>0, <1>3, <1>4, <1>5, <1>6, <1>7, <1>8, <1>9, <1>10, <1>11 DEF CsrfNext

\* With the names of the cookie and of the field that the templates use, a
\* page that is loaded again at rest can be submitted, and so can the pages
\* that any tab loads after it, for any number of tabs and of parts of pages.
THEOREM ReloadIsNeverRefused ==
  ASSUME CookieName = Literal, FieldName = Literal
  PROVE  CsrfSpec => []ReloadNeverRefused
<1>1. CsrfInit => ReloadInv
  BY DEF CsrfInit, ReloadInv
<1>2. CsrfInv /\ ReloadInv /\ [CsrfNext]_csrfVars => ReloadInv'
  BY ReloadStep
<1>3. CsrfInv /\ ReloadInv => ReloadNeverRefused
  BY DEF CsrfInv, CsrfTypeOK, ReloadInv, KeptTab, ReloadNeverRefused
<1> QED BY <1>1, <1>2, <1>3, CsrfInvariance, PTL DEF CsrfSpec

-----------------------------------------------------------------------------
(***************************************************************************)
(* The log files                                                           *)
(***************************************************************************)

\* The path of a log names no file that was moved away, and all files the
\* histories know of have been there.
PathIsNew(k) ==
  /\ path[k] <= files[k]
  /\ sealed[k] \cup rotated[k].now \cup rotated[k].next \subseteq 1..files[k]
  /\ path[k] # 0 => path[k] \notin sealed[k] \cup rotated[k].now \cup rotated[k].next

\* Of the descriptors of a log the last one is open, the others are closed;
\* main keeps the open one, which is not on a file that may be compressed, and
\* the loggers have descriptors of the process.
LastIsOpen(k) ==
  /\ Len(fds[k]) >= 1 /\ cur[k] = Len(fds[k])
  /\ log[k] \in 1..Len(fds[k]) /\ cfgLog[k] \in 1..Len(fds[k])
  /\ \A i \in 1..Len(fds[k]) : fds[k][i].closed <=> i # Len(fds[k])
  /\ fds[k][Len(fds[k])].file \notin sealed[k]

\* A call in progress has a descriptor of the process; one of a task that no
\* reopening overtook has the open one.
CallHasDescriptor(g) ==
  calls[g] # NoCall =>
    /\ calls[g].fd \in 1..Len(fds[calls[g].kind])
    /\ g = Task /\ calls[g].fresh => main = "loop" /\ calls[g].fd = Len(fds[calls[g].kind])

\* Where main's logger writes to the open descriptors.
MainIsBound ==
  /\ main = "loop" => \A k \in Kinds : log[k] = cur[k]
  /\ main \in Kinds => log["error"] = cur["error"]
  /\ main = "setFiles" => log["access"] = cur["access"]

LogsInv ==
  /\ LogsTypeOK
  /\ \A k \in Kinds : PathIsNew(k) /\ LastIsOpen(k)
  /\ \A g \in Goroutine : CallHasDescriptor(g)
  /\ MainIsBound /\ LinesKept

\* Opening a path gives a file that is in no history, and a file count that
\* has it.
LEMMA OpenedIsNew ==
  ASSUME LogsInv, NEW k \in Kinds
  PROVE  /\ OpenedFile(k) \in Nat \ {0} /\ FilesAfterOpen(k) \in Nat
         /\ files[k] <= FilesAfterOpen(k) /\ OpenedFile(k) <= FilesAfterOpen(k)
         /\ OpenedFile(k) \notin sealed[k] \cup rotated[k].now \cup rotated[k].next
         /\ sealed[k] \cup rotated[k].now \cup rotated[k].next \subseteq 1..FilesAfterOpen(k)
         /\ sealed[k] \subseteq Nat /\ rotated[k].now \subseteq Nat /\ rotated[k].next \subseteq Nat
<1>1. /\ path[k] \in Nat /\ files[k] \in Nat /\ PathIsNew(k)
  BY DEF LogsInv, LogsTypeOK
<1>2. /\ sealed[k] \subseteq Nat /\ rotated[k].now \subseteq Nat /\ rotated[k].next \subseteq Nat
  BY DEF LogsInv, LogsTypeOK
<1>3. CASE path[k] = 0
  <2>1. OpenedFile(k) = files[k] + 1 /\ FilesAfterOpen(k) = files[k] + 1
    BY <1>3 DEF OpenedFile, FilesAfterOpen
  <2> QED BY <1>1, <1>2, <2>1 DEF PathIsNew
<1>4. CASE path[k] # 0
  <2>1. OpenedFile(k) = path[k] /\ FilesAfterOpen(k) = files[k]
    BY <1>4 DEF OpenedFile, FilesAfterOpen
  <2> QED BY <1>1, <1>2, <1>4, <2>1 DEF PathIsNew
<1> QED BY <1>3, <1>4

\* The descriptors of a log after it was reopened.
LEMMA ReopenedDescriptors ==
  ASSUME LogsInv, NEW k \in Kinds, Reopen(k)
  PROVE  /\ fds' \in [Kinds -> Seq(Descriptor)]
         /\ \A j \in Kinds : j # k => fds'[j] = fds[j]
         /\ Len(fds[k]) \in Nat /\ Len(fds'[k]) = Len(fds[k]) + 1
         /\ \A i \in 1..Len(fds'[k]) : fds'[k][i].closed <=> i # Len(fds'[k])
         /\ fds'[k][Len(fds'[k])].file = OpenedFile(k)
<1> DEFINE n == Len(fds[k])
           d == [fds[k][n] EXCEPT !.closed = TRUE]
           e == [file |-> OpenedFile(k), closed |-> FALSE]
           s == [fds[k] EXCEPT ![n] = d]
<1>1. /\ fds \in [Kinds -> Seq(Descriptor)] /\ fds[k] \in Seq(Descriptor)
      /\ n \in Nat /\ n >= 1 /\ cur[k] = n
      /\ \A i \in 1..n : fds[k][i].closed <=> i # n
  BY DEF LogsInv, LogsTypeOK, LastIsOpen
<1>2. fds[k][n] \in Descriptor
  BY <1>1
<1>3. d \in Descriptor /\ d.closed = TRUE
  BY <1>2 DEF Descriptor
<1>4. OpenedFile(k) \in Nat
  BY OpenedIsNew
<1>5. e \in Descriptor /\ e.closed = FALSE /\ e.file = OpenedFile(k)
  BY <1>4 DEF Descriptor
<1>6. fds' = [fds EXCEPT ![k] = Append(s, e)]
  BY <1>1 DEF Reopen, CloseOld
<1> HIDE DEF d, e
<1>7. /\ s \in Seq(Descriptor) /\ Len(s) = n /\ s[n] = d
      /\ \A i \in 1..n : i # n => s[i] = fds[k][i]
  BY <1>1, <1>3
<1> HIDE DEF s
<1>8. /\ Append(s, e) \in Seq(Descriptor) /\ Len(Append(s, e)) = n + 1 /\ Append(s, e)[n + 1] = e
      /\ \A i \in 1..n : Append(s, e)[i] = s[i]
  BY <1>1, <1>5, <1>7
<1>9. /\ fds' \in [Kinds -> Seq(Descriptor)] /\ fds'[k] = Append(s, e)
      /\ \A j \in Kinds : j # k => fds'[j] = fds[j]
  BY <1>1, <1>6, <1>8
<1>10. ASSUME NEW i \in 1..n + 1
       PROVE  Append(s, e)[i].closed <=> i # n + 1
  <2>1. CASE i = n + 1
    BY <1>1, <1>5, <1>8, <2>1
  <2>2. CASE i = n
    BY <1>1, <1>3, <1>7, <1>8, <2>2
  <2>3. CASE i \in 1..n /\ i # n
    BY <1>1, <1>7, <1>8, <2>3
  <2>4. i = n + 1 \/ i = n \/ (i \in 1..n /\ i # n)
    BY <1>1
  <2> QED BY <2>1, <2>2, <2>3, <2>4
<1> QED BY <1>1, <1>5, <1>8, <1>9, <1>10

\* A line is lost only through a descriptor that was replaced.
LEMMA LostIsOld ==
  ASSUME LogsInv, NEW k \in Kinds, NEW i \in 1..Len(fds[k]), fds[k][i].closed
  PROVE  Len(fds[k]) > 1 /\ i # Len(fds[k])
BY DEF LogsInv, LastIsOpen, LogsTypeOK

\* Steps that change no descriptor keep what depends on descriptors only.
LEMMA SameDescriptors ==
  ASSUME LogsInv, fds' = fds, cur' = cur, cfgLog' = cfgLog, sealed' = sealed,
         \A k \in Kinds : log'[k] \in 1..Len(fds[k])
  PROVE  \A k \in Kinds : LastIsOpen(k)'
BY DEF LogsInv, LastIsOpen

\* Calls and writes of the goroutines.
LEMMA LineStep ==
  ASSUME LogsInv, NEW g \in Goroutine,
         \/ g \in Handler /\ (HttpError(g) \/ HttpRequest(g))
         \/ g = Task /\ (Info \/ Error)
         \/ Fprintln(g)
  PROVE  LogsInv'
<1> USE DEF LogsInv
<1>0. /\ "access" \in Kinds /\ "server" \in Kinds /\ "error" \in Kinds
      /\ \A k \in Kinds : fds[k] \in Seq(Descriptor) /\ Len(fds[k]) \in Nat
  <2>1. "access" \in Kinds /\ "server" \in Kinds /\ "error" \in Kinds
    BY DEF Kinds
  <2> QED BY <2>1 DEF LogsTypeOK
<1>1. ASSUME NEW logger, NEW k \in Kinds, Call(g, logger, k), logger[k] \in 1..Len(fds[k]),
             g = Task /\ main = "loop" => logger[k] = Len(fds[k])
      PROVE  LogsInv'
  <2>1. /\ UNCHANGED <<path, files, fds, cur, log, cfgLog, main, lost, rotated, sealed>>
        /\ calls' = [calls EXCEPT ![g] =
                       [kind |-> k, fd |-> logger[k], fresh |-> main = "loop"]]
    BY <1>1 DEF Call
  <2>2. /\ DOMAIN calls' = Goroutine /\ \A h \in Goroutine : h # g => calls'[h] = calls[h]
        /\ calls'[g] = [kind |-> k, fd |-> logger[k], fresh |-> main = "loop"]
    BY <2>1 DEF LogsTypeOK
  <2>3. /\ calls'[g].kind = k /\ calls'[g].fd = logger[k] /\ calls'[g].fresh = (main = "loop")
        /\ DOMAIN calls'[g] = DOMAIN NoCall
    BY <2>2 DEF NoCall
  <2>4. LogsTypeOK'
    <3>1. calls'[g].kind \in Kinds /\ calls'[g].fd \in Nat /\ calls'[g].fresh \in BOOLEAN
      BY <1>0, <1>1, <2>3
    <3>2. \A h \in Goroutine :
            /\ DOMAIN calls'[h] = DOMAIN NoCall
            /\ calls'[h] = NoCall \/ calls'[h].kind \in Kinds
            /\ calls'[h].fd \in Nat /\ calls'[h].fresh \in BOOLEAN
      BY <2>2, <2>3, <3>1 DEF LogsTypeOK
    <3> QED BY <2>1, <2>2, <3>2 DEF LogsTypeOK
  <2>5. \A j \in Kinds : PathIsNew(j)' /\ LastIsOpen(j)'
    BY <2>1 DEF PathIsNew, LastIsOpen
  <2>6. CallHasDescriptor(g)'
    BY <1>1, <2>1, <2>3 DEF CallHasDescriptor
  <2>7. \A h \in Goroutine : CallHasDescriptor(h)'
    BY <2>1, <2>2, <2>6 DEF CallHasDescriptor
  <2> QED BY <2>1, <2>4, <2>5, <2>7 DEF MainIsBound, LinesKept
<1>2. CASE g \in Handler /\ (HttpError(g) \/ HttpRequest(g))
  <2>1. g # Task /\ \A k \in Kinds : cfgLog[k] \in 1..Len(fds[k])
    BY <1>2, LogsAssumption DEF LastIsOpen
  <2> QED BY <1>0, <1>1, <1>2, <2>1 DEF HttpError, HttpRequest
<1>3. CASE g = Task /\ (Info \/ Error)
  <2>1. \A k \in Kinds : /\ log[k] \in 1..Len(fds[k])
                         /\ main = "loop" => log[k] = Len(fds[k])
    BY DEF LastIsOpen, MainIsBound
  <2> QED BY <1>0, <1>1, <1>3, <2>1 DEF Info, Error
<1>4. CASE Fprintln(g)
  <2> DEFINE c == calls[g]
  <2>1. /\ UNCHANGED <<path, files, fds, cur, log, cfgLog, main, rotated, sealed>>
        /\ calls' = [calls EXCEPT ![g] = NoCall] /\ c # NoCall
        /\ lost' = IF fds[c.kind][c.fd].closed
                   THEN [kind |-> c.kind, own |-> g = Task, fresh |-> c.fresh]
                   ELSE lost
    BY <1>4 DEF Fprintln
  <2>2. /\ DOMAIN calls' = Goroutine /\ calls'[g] = NoCall
        /\ \A h \in Goroutine : h # g => calls'[h] = calls[h]
    BY <2>1 DEF LogsTypeOK
  <2>3. c.kind \in Kinds /\ c.fd \in 1..Len(fds[c.kind]) /\ c.fresh \in BOOLEAN
    BY <2>1 DEF LogsTypeOK, CallHasDescriptor
  <2>4. CASE ~fds[c.kind][c.fd].closed
    <3>1. lost' = lost
      BY <2>1, <2>4
    <3>2. LogsTypeOK'
      BY <2>1, <2>2, <3>1 DEF LogsTypeOK, NoCall
    <3>3. \A k \in Kinds : PathIsNew(k)' /\ LastIsOpen(k)'
      BY <2>1 DEF PathIsNew, LastIsOpen
    <3>4. \A h \in Goroutine : CallHasDescriptor(h)'
      BY <2>1, <2>2 DEF CallHasDescriptor
    <3> QED BY <2>1, <3>1, <3>2, <3>3, <3>4 DEF MainIsBound, LinesKept
  <2>5. CASE fds[c.kind][c.fd].closed
    <3>0. Len(fds[c.kind]) > 1 /\ c.fd # Len(fds[c.kind])
      BY <2>3, <2>5, LostIsOld
    <3>1. lost' = [kind |-> c.kind, own |-> g = Task, fresh |-> c.fresh]
      BY <2>1, <2>5
    <3>2. /\ lost'.kind = c.kind /\ lost'.own = (g = Task) /\ lost'.fresh = c.fresh
      BY <3>1
    <3>3. g = Task => ~c.fresh
      BY <2>1, <3>0 DEF CallHasDescriptor
    <3>4. LogsTypeOK'
      BY <2>1, <2>2, <2>3, <3>2 DEF LogsTypeOK, NoCall
    <3>5. \A k \in Kinds : PathIsNew(k)' /\ LastIsOpen(k)'
      BY <2>1 DEF PathIsNew, LastIsOpen
    <3>6. \A h \in Goroutine : CallHasDescriptor(h)'
      BY <2>1, <2>2 DEF CallHasDescriptor
    <3>7. LinesKept'
      BY <2>1, <3>0, <3>2, <3>3 DEF LinesKept
    <3> QED BY <2>1, <3>4, <3>5, <3>6, <3>7 DEF MainIsBound
  <2> QED BY <2>4, <2>5
<1> QED BY <1>2, <1>3, <1>4

\* reopenLogs leaves a goroutine that is in no call as it is.
LEMMA NoCallIsNotFresh ==
  ASSUME NEW c, c = NoCall, NEW d, d = [c EXCEPT !.fresh = FALSE]
  PROVE  d = NoCall
BY DEF NoCall

\* main's steps through reopenLogs.
LEMMA ReopenStep ==
  ASSUME LogsInv,
         \/ \E k \in Kinds : Reopen(k) \/ ReopenFails(k)
         \/ reopenLogs \/ SetAccessLogWriter \/ SetFileWriters
  PROVE  LogsInv'
<1> USE DEF LogsInv
<1>0. /\ "access" \in Kinds /\ "server" \in Kinds /\ "error" \in Kinds
      /\ \A k \in Kinds : k \in {"access", "server", "error"}
  BY DEF Kinds
<1>1. \A k \in Kinds : /\ fds[k] \in Seq(Descriptor) /\ Len(fds[k]) \in Nat
                       /\ cur[k] = Len(fds[k]) /\ cur[k] \in 1..Len(fds[k])
                       /\ log[k] \in 1..Len(fds[k])
  BY DEF LogsTypeOK, LastIsOpen
<1>2. ASSUME NEW k \in Kinds, main = k, main' = StepAfter(k)
      PROVE  /\ main' \in Kinds \cup {"loop", "setAccess", "setFiles"}
             /\ main # "loop" /\ main' # "loop" /\ main' # "setFiles"
             /\ main' \in Kinds => k # "error"
  BY <1>0, <1>2 DEF StepAfter, Kinds
<1>3. ASSUME NEW k \in Kinds, Reopen(k)
      PROVE  LogsInv'
  <2>0. /\ main = k /\ main' = StepAfter(k)
        /\ path' = [path EXCEPT ![k] = OpenedFile(k)]
        /\ files' = [files EXCEPT ![k] = FilesAfterOpen(k)]
        /\ cur' = [cur EXCEPT ![k] = Len(fds[k]) + 1]
        /\ sealed' = [sealed EXCEPT ![k] = sealed[k] \cup rotated[k].now]
        /\ UNCHANGED <<log, cfgLog, calls, lost, rotated>>
    BY <1>3 DEF Reopen
  <2>1. /\ fds' \in [Kinds -> Seq(Descriptor)]
        /\ \A j \in Kinds : j # k => fds'[j] = fds[j]
        /\ Len(fds[k]) \in Nat /\ Len(fds'[k]) = Len(fds[k]) + 1
        /\ \A i \in 1..Len(fds'[k]) : fds'[k][i].closed <=> i # Len(fds'[k])
        /\ fds'[k][Len(fds'[k])].file = OpenedFile(k)
    BY <1>3, ReopenedDescriptors
  <2>2. /\ OpenedFile(k) \in Nat \ {0} /\ FilesAfterOpen(k) \in Nat
        /\ files[k] <= FilesAfterOpen(k) /\ OpenedFile(k) <= FilesAfterOpen(k)
        /\ OpenedFile(k) \notin sealed[k] \cup rotated[k].now \cup rotated[k].next
        /\ sealed[k] \cup rotated[k].now \cup rotated[k].next \subseteq 1..FilesAfterOpen(k)
        /\ sealed[k] \subseteq Nat /\ rotated[k].now \subseteq Nat
    BY OpenedIsNew
  <2>3. /\ path' \in [Kinds -> Nat] /\ files' \in [Kinds -> Nat] /\ cur' \in [Kinds -> Nat]
        /\ sealed' \in [Kinds -> SUBSET Nat]
        /\ path'[k] = OpenedFile(k) /\ files'[k] = FilesAfterOpen(k)
        /\ cur'[k] = Len(fds[k]) + 1 /\ sealed'[k] = sealed[k] \cup rotated[k].now
        /\ \A j \in Kinds : j # k => /\ path'[j] = path[j] /\ files'[j] = files[j]
                                     /\ cur'[j] = cur[j] /\ sealed'[j] = sealed[j]
    <3> DEFINE n == Len(fds[k]) + 1
    <3>0. n \in Nat /\ OpenedFile(k) \in Nat /\ cur' = [cur EXCEPT ![k] = n]
      BY <2>0, <2>1, <2>2
    <3> HIDE DEF n
    <3>1. path' \in [Kinds -> Nat] /\ files' \in [Kinds -> Nat] /\ cur' \in [Kinds -> Nat]
      BY <2>0, <2>2, <3>0 DEF LogsTypeOK
    <3>2. sealed' \in [Kinds -> SUBSET Nat]
      BY <2>0, <2>2 DEF LogsTypeOK
    <3> QED BY <2>0, <3>1, <3>2 DEF LogsTypeOK
  <2>4. LogsTypeOK'
    <3>1. main' \in Kinds \cup {"loop", "setAccess", "setFiles"}
      BY <1>2, <2>0
    <3> QED BY <2>0, <2>1, <2>3, <3>1 DEF LogsTypeOK
  <2>5. ASSUME NEW j \in Kinds
        PROVE  PathIsNew(j)'
    <3>1. CASE j = k
      BY <2>0, <2>2, <2>3, <3>1 DEF PathIsNew
    <3>2. CASE j # k
      BY <2>0, <2>3, <3>2 DEF PathIsNew
    <3> QED BY <3>1, <3>2
  <2>6. ASSUME NEW j \in Kinds
        PROVE  LastIsOpen(j)'
    <3>1. CASE j = k
      <4>1. Len(fds'[k]) >= 1 /\ cur'[k] = Len(fds'[k])
        BY <2>1, <2>3
      <4>2. log'[k] \in 1..Len(fds'[k]) /\ cfgLog'[k] \in 1..Len(fds'[k])
        BY <2>0, <2>1 DEF LastIsOpen
      <4>3. fds'[k][Len(fds'[k])].file \notin sealed'[k]
        BY <2>1, <2>2, <2>3
      <4> QED BY <2>1, <3>1, <4>1, <4>2, <4>3 DEF LastIsOpen
    <3>2. CASE j # k
      <4>1. /\ fds'[j] = fds[j] /\ cur'[j] = cur[j] /\ sealed'[j] = sealed[j]
            /\ log'[j] = log[j] /\ cfgLog'[j] = cfgLog[j] /\ LastIsOpen(j)
        BY <2>0, <2>1, <2>3, <3>2
      <4> QED BY <4>1 DEF LastIsOpen
    <3> QED BY <3>1, <3>2
  <2>7. \A j \in Kinds : Len(fds[j]) \in Nat /\ Len(fds'[j]) \in Nat /\ Len(fds[j]) <= Len(fds'[j])
    BY <1>1, <2>1
  <2>8. ASSUME NEW g \in Goroutine
        PROVE  CallHasDescriptor(g)'
    <3>1. CASE calls[g] = NoCall
      BY <2>0, <3>1 DEF CallHasDescriptor
    <3>2. CASE calls[g] # NoCall
      <4>1. /\ calls[g].kind \in Kinds /\ calls[g].fd \in 1..Len(fds[calls[g].kind])
            /\ ~(g = Task /\ calls[g].fresh)
        BY <1>2, <2>0, <3>2 DEF LogsTypeOK, CallHasDescriptor
      <4> QED BY <2>0, <2>7, <4>1 DEF CallHasDescriptor
    <3> QED BY <3>1, <3>2
  <2>9. MainIsBound'
    <3>1. /\ main' # "loop" /\ main' # "setFiles" /\ main \in Kinds
          /\ main' \in Kinds => k # "error"
      BY <1>2, <2>0
    <3> QED BY <1>0, <2>0, <2>3, <3>1 DEF MainIsBound
  <2>10. LinesKept'
    <3>1. lost' = lost /\ (lost # NoLine => lost.kind \in Kinds)
      BY <2>0 DEF LogsTypeOK
    <3> QED BY <2>7, <3>1 DEF LinesKept
  <2> QED BY <2>4, <2>5, <2>6, <2>8, <2>9, <2>10
<1>4. ASSUME NEW k \in Kinds, ReopenFails(k)
      PROVE  LogsInv'
  <2>1. /\ main = k /\ main' = StepAfter(k) /\ LogFailure
        /\ UNCHANGED <<path, files, fds, cur, log, cfgLog, calls, rotated, sealed>>
    BY <1>4 DEF ReopenFails
  <2>2. ~fds["error"][log["error"]].closed
    <3>1. log["error"] = Len(fds["error"])
      BY <1>0, <1>1, <2>1 DEF MainIsBound
    <3> QED BY <1>0, <1>1, <3>1 DEF LastIsOpen
  <2>3. lost' = lost
    BY <2>1, <2>2 DEF LogFailure
  <2>4. /\ main' \in Kinds \cup {"loop", "setAccess", "setFiles"}
        /\ main # "loop" /\ main' # "loop" /\ main' # "setFiles" /\ main \in Kinds
    BY <1>2, <2>1
  <2>5. LogsTypeOK'
    BY <2>1, <2>3, <2>4 DEF LogsTypeOK
  <2>6. \A j \in Kinds : PathIsNew(j)' /\ LastIsOpen(j)'
    BY <2>1 DEF PathIsNew, LastIsOpen
  <2>7. \A g \in Goroutine : CallHasDescriptor(g)'
    BY <2>1, <2>4 DEF CallHasDescriptor
  <2> QED BY <2>1, <2>3, <2>4, <2>5, <2>6, <2>7 DEF MainIsBound, LinesKept
<1>5. CASE reopenLogs
  <2>1. /\ main = "loop" /\ main' = "access"
        /\ calls' = [g \in Goroutine |-> [calls[g] EXCEPT !.fresh = FALSE]]
        /\ rotated' = [k \in Kinds |-> [now |-> rotated[k].next, next |-> {}]]
        /\ UNCHANGED <<path, files, fds, cur, log, cfgLog, lost, sealed>>
    BY <1>5 DEF reopenLogs
  <2>2. /\ rotated' \in [Kinds -> [now : SUBSET Nat, next : SUBSET Nat]]
        /\ \A k \in Kinds : rotated'[k].now = rotated[k].next /\ rotated'[k].next = {}
    BY <2>1 DEF LogsTypeOK
  <2>3. ASSUME NEW g \in Goroutine
        PROVE  /\ DOMAIN calls'[g] = DOMAIN NoCall /\ calls'[g].fresh = FALSE
               /\ calls'[g].kind = calls[g].kind /\ calls'[g].fd = calls[g].fd
               /\ calls[g] = NoCall => calls'[g] = NoCall
    <3>1. calls'[g] = [calls[g] EXCEPT !.fresh = FALSE]
      BY <2>1
    <3>2. DOMAIN calls[g] = DOMAIN NoCall
      BY DEF LogsTypeOK
    <3>3. ASSUME calls[g] = NoCall
          PROVE  calls'[g] = NoCall
      BY <3>1, <3>3, NoCallIsNotFresh
    <3> QED BY <3>1, <3>2, <3>3 DEF NoCall
  <2>4. LogsTypeOK'
    <3>1. /\ DOMAIN calls' = Goroutine
          /\ \A g \in Goroutine :
               /\ DOMAIN calls'[g] = DOMAIN NoCall
               /\ calls'[g] = NoCall \/ calls'[g].kind \in Kinds
               /\ calls'[g].fd \in Nat /\ calls'[g].fresh \in BOOLEAN
      BY <2>1, <2>3 DEF LogsTypeOK
    <3> QED BY <1>0, <2>1, <2>2, <3>1 DEF LogsTypeOK
  <2>5. \A k \in Kinds : PathIsNew(k)'
    BY <2>1, <2>2 DEF PathIsNew
  <2>6. \A k \in Kinds : LastIsOpen(k)'
    BY <2>1 DEF LastIsOpen
  <2>7. \A g \in Goroutine : CallHasDescriptor(g)'
    BY <2>1, <2>3 DEF CallHasDescriptor
  <2>8. MainIsBound'
    BY <1>0, <2>1 DEF MainIsBound
  <2> QED BY <2>1, <2>4, <2>5, <2>6, <2>7, <2>8 DEF LinesKept
<1>6. ASSUME UNCHANGED <<path, files, fds, cur, cfgLog, calls, lost, rotated, sealed>>,
             main # "loop", main' \in {"setFiles", "loop"},
             log' \in [Kinds -> Nat], \A k \in Kinds : log'[k] \in {log[k], cur[k]},
             MainIsBound'
      PROVE  LogsInv'
  <2>1. LogsTypeOK'
    BY <1>6 DEF LogsTypeOK
  <2>2. \A k \in Kinds : PathIsNew(k)' /\ LastIsOpen(k)'
    <3>1. \A k \in Kinds : log'[k] \in 1..Len(fds[k])
      BY <1>1, <1>6
    <3> QED BY <1>6, <3>1, SameDescriptors DEF PathIsNew
  <2>3. \A g \in Goroutine : CallHasDescriptor(g)'
    BY <1>6 DEF CallHasDescriptor
  <2> QED BY <1>6, <2>1, <2>2, <2>3 DEF LinesKept
<1>7. CASE SetAccessLogWriter
  <2>1. /\ main = "setAccess" /\ main' = "setFiles"
        /\ log' = [log EXCEPT !["access"] = cur["access"]]
        /\ UNCHANGED <<path, files, fds, cur, cfgLog, calls, lost, rotated, sealed>>
    BY <1>7 DEF SetAccessLogWriter
  <2>2. /\ log' \in [Kinds -> Nat] /\ \A k \in Kinds : log'[k] \in {log[k], cur[k]}
        /\ log'["access"] = cur["access"]
    BY <1>0, <2>1 DEF LogsTypeOK
  <2>3. MainIsBound'
    BY <1>0, <2>1, <2>2 DEF MainIsBound, Kinds
  <2> QED BY <1>6, <2>1, <2>2, <2>3
<1>8. CASE SetFileWriters
  <2>1. /\ main = "setFiles" /\ main' = "loop"
        /\ log' = [log EXCEPT !["server"] = cur["server"], !["error"] = cur["error"]]
        /\ UNCHANGED <<path, files, fds, cur, cfgLog, calls, lost, rotated, sealed>>
    BY <1>8 DEF SetFileWriters
  <2>2. log["access"] = cur["access"]
    BY <2>1 DEF MainIsBound
  <2>3. log' \in [Kinds -> Nat] /\ \A k \in Kinds : log'[k] = cur[k]
    BY <1>0, <2>1, <2>2 DEF LogsTypeOK
  <2>4. MainIsBound'
    BY <2>1, <2>3 DEF MainIsBound, Kinds
  <2> QED BY <1>6, <2>1, <2>3, <2>4
<1> QED BY <1>3, <1>4, <1>5, <1>7, <1>8

\* Every step keeps the invariant.
LEMMA LogsStep ==
  ASSUME LogsInv, [LogsNext]_logsVars
  PROVE  LogsInv'
<1>0. /\ "access" \in Kinds /\ "server" \in Kinds /\ "error" \in Kinds /\ Task \in Goroutine
      /\ Handler \subseteq Goroutine
  BY DEF Kinds, Goroutine
<1>1. ASSUME NEW k \in Kinds, Rotate(k)
      PROVE  LogsInv'
  <2> USE DEF LogsInv
  <2>0. /\ path[k] \in Nat /\ files[k] \in Nat /\ path[k] <= files[k]
        /\ rotated \in [Kinds -> [now : SUBSET Nat, next : SUBSET Nat]]
    BY DEF LogsTypeOK, PathIsNew
  <2>1. /\ path[k] # 0 /\ path' = [path EXCEPT ![k] = 0]
        /\ rotated' = [rotated EXCEPT ![k].next = rotated[k].next \cup {path[k]}]
        /\ UNCHANGED <<files, fds, cur, log, cfgLog, calls, main, lost, sealed>>
    BY <1>1 DEF Rotate, procVars
  <2>2. /\ path' \in [Kinds -> Nat] /\ path'[k] = 0
        /\ \A j \in Kinds : j # k => path'[j] = path[j]
    BY <2>1 DEF LogsTypeOK
  <2>3. /\ rotated' \in [Kinds -> [now : SUBSET Nat, next : SUBSET Nat]]
        /\ rotated'[k].now = rotated[k].now /\ rotated'[k].next = rotated[k].next \cup {path[k]}
        /\ \A j \in Kinds : j # k => rotated'[j] = rotated[j]
    BY <2>0, <2>1
  <2>4. LogsTypeOK'
    BY <2>1, <2>2, <2>3 DEF LogsTypeOK
  <2>5. ASSUME NEW j \in Kinds
        PROVE  PathIsNew(j)'
    <3>1. CASE j = k
      BY <2>0, <2>1, <2>2, <2>3, <3>1 DEF PathIsNew
    <3>2. CASE j # k
      BY <2>1, <2>2, <2>3, <3>2 DEF PathIsNew
    <3> QED BY <3>1, <3>2
  <2>6. \A j \in Kinds : LastIsOpen(j)'
    BY <2>1 DEF LastIsOpen
  <2>7. \A g \in Goroutine : CallHasDescriptor(g)'
    BY <2>1 DEF CallHasDescriptor
  <2> QED BY <2>1, <2>4, <2>5, <2>6, <2>7 DEF MainIsBound, LinesKept
<1>2. ASSUME NEW h \in Handler, HttpError(h) \/ HttpRequest(h)
      PROVE  LogsInv'
  BY <1>0, <1>2, LineStep
<1>3. CASE Info \/ Error
  BY <1>0, <1>3, LineStep
<1>4. ASSUME NEW g \in Goroutine, Fprintln(g)
      PROVE  LogsInv'
  BY <1>4, LineStep
<1>5. CASE \/ \E k \in Kinds : Reopen(k) \/ ReopenFails(k)
           \/ reopenLogs \/ SetAccessLogWriter \/ SetFileWriters
  BY <1>5, ReopenStep
<1>6. CASE Restart
  <2>1. /\ path' = [k \in Kinds |-> OpenedFile(k)] /\ files' = [k \in Kinds |-> FilesAfterOpen(k)]
        /\ fds' = [k \in Kinds |-> <<[file |-> OpenedFile(k), closed |-> FALSE]>>]
        /\ cur' = NewFds /\ log' = NewFds /\ cfgLog' = NewFds
        /\ calls' = [g \in Goroutine |-> NoCall] /\ main' = "loop" /\ lost' = NoLine
        /\ sealed' = [k \in Kinds |-> sealed[k] \cup rotated[k].now \cup rotated[k].next]
        /\ rotated' = [k \in Kinds |-> [now |-> {}, next |-> {}]]
    BY <1>6 DEF Restart
  <2>2. ASSUME NEW k \in Kinds
        PROVE  /\ [file |-> OpenedFile(k), closed |-> FALSE] \in Descriptor
               /\ fds'[k] = <<[file |-> OpenedFile(k), closed |-> FALSE]>>
               /\ fds'[k] \in Seq(Descriptor) /\ Len(fds'[k]) = 1
               /\ ~fds'[k][1].closed /\ fds'[k][1].file = OpenedFile(k)
    <3>1. [file |-> OpenedFile(k), closed |-> FALSE] \in Descriptor
      BY OpenedIsNew DEF Descriptor
    <3> DEFINE e == [file |-> OpenedFile(k), closed |-> FALSE]
    <3>2. fds'[k] = <<e>> /\ e.closed = FALSE /\ e.file = OpenedFile(k)
      BY <2>1
    <3> HIDE DEF e
    <3>3. <<e>> \in Seq(Descriptor) /\ Len(<<e>>) = 1 /\ <<e>>[1] = e
      BY <3>1 DEF e
    <3> QED BY <3>1, <3>2, <3>3 DEF e
  <2>3. fds' \in [Kinds -> Seq(Descriptor)]
    BY <2>1, <2>2
  <2>4. /\ path' \in [Kinds -> Nat] /\ files' \in [Kinds -> Nat]
        /\ sealed' \in [Kinds -> SUBSET Nat]
        /\ rotated' \in [Kinds -> [now : SUBSET Nat, next : SUBSET Nat]]
    BY <2>1, OpenedIsNew
  <2>5. /\ NewFds \in [Kinds -> Nat] /\ \A k \in Kinds : NewFds[k] = 1
    BY DEF NewFds
  <2>6. /\ DOMAIN calls' = Goroutine /\ \A g \in Goroutine : calls'[g] = NoCall
    BY <2>1
  <2>7. LogsTypeOK'
    BY <2>1, <2>3, <2>4, <2>5, <2>6 DEF LogsTypeOK, NoCall, NoLine
  <2>8. ASSUME NEW k \in Kinds
        PROVE  PathIsNew(k)' /\ LastIsOpen(k)'
    <3>1. /\ OpenedFile(k) \notin sealed'[k] /\ sealed'[k] \subseteq 1..FilesAfterOpen(k)
          /\ OpenedFile(k) <= FilesAfterOpen(k)
          /\ path'[k] = OpenedFile(k) /\ files'[k] = FilesAfterOpen(k)
          /\ rotated'[k].now = {} /\ rotated'[k].next = {}
      BY <2>1, OpenedIsNew
    <3>2. PathIsNew(k)'
      BY <3>1 DEF PathIsNew
    <3>3. LastIsOpen(k)'
      BY <2>1, <2>2, <2>5, <3>1 DEF LastIsOpen
    <3> QED BY <3>2, <3>3
  <2>9. \A g \in Goroutine : CallHasDescriptor(g)'
    BY <2>6 DEF CallHasDescriptor
  <2> QED BY <2>1, <2>7, <2>8, <2>9 DEF LogsInv, MainIsBound, LinesKept, Kinds
<1>7. CASE UNCHANGED logsVars
  <2>1. /\ UNCHANGED <<path, files, fds, cur, log, cfgLog, calls, main, lost>>
        /\ UNCHANGED <<rotated, sealed>>
    BY <1>7 DEF logsVars, procVars
  <2>2. LogsTypeOK'
    BY <2>1 DEF LogsInv, LogsTypeOK
  <2>3. \A k \in Kinds : PathIsNew(k)' /\ LastIsOpen(k)'
    BY <2>1 DEF LogsInv, PathIsNew, LastIsOpen
  <2>4. \A g \in Goroutine : CallHasDescriptor(g)'
    BY <2>1 DEF LogsInv, CallHasDescriptor
  <2> QED BY <2>1, <2>2, <2>3, <2>4 DEF LogsInv, MainIsBound, LinesKept
<1> QED BY <1>1, <1>2, <1>3, <1>4, <1>5, <1>6, <1>7 DEF LogsNext

\* The inductive invariant of the log files: paths, descriptors, calls in
\* progress and the writers of main's logger.
THEOREM LogsInvariance == LogsSpec => []LogsInv
<1>1. LogsInit => LogsInv
  <2> SUFFICES ASSUME LogsInit
               PROVE  LogsInv
    OBVIOUS
  <2>1. [file |-> 1, closed |-> FALSE] \in Descriptor
    BY DEF Descriptor
  <2>2. ASSUME NEW k \in Kinds
        PROVE  /\ fds[k] = <<[file |-> 1, closed |-> FALSE]>> /\ fds[k] \in Seq(Descriptor)
               /\ Len(fds[k]) = 1 /\ ~fds[k][1].closed /\ fds[k][1].file = 1
    <3> DEFINE e == [file |-> 1, closed |-> FALSE]
    <3>1. fds[k] = <<e>> /\ e.closed = FALSE /\ e.file = 1 /\ e \in Descriptor
      BY <2>1 DEF LogsInit
    <3> HIDE DEF e
    <3>2. <<e>> \in Seq(Descriptor) /\ Len(<<e>>) = 1 /\ <<e>>[1] = e
      BY <3>1
    <3> QED BY <3>1, <3>2 DEF e
  <2>3. fds \in [Kinds -> Seq(Descriptor)]
    BY <2>2 DEF LogsInit
  <2>4. NewFds \in [Kinds -> Nat] /\ \A k \in Kinds : NewFds[k] = 1
    BY DEF NewFds
  <2>5. LogsTypeOK
    <3>1. /\ path \in [Kinds -> Nat] /\ files \in [Kinds -> Nat]
          /\ sealed \in [Kinds -> SUBSET Nat]
          /\ rotated \in [Kinds -> [now : SUBSET Nat, next : SUBSET Nat]]
      BY DEF LogsInit
    <3> QED BY <2>3, <2>4, <3>1 DEF LogsInit, LogsTypeOK, NoCall, NoLine
  <2>6. \A k \in Kinds : PathIsNew(k) /\ LastIsOpen(k)
    BY <2>2, <2>4 DEF LogsInit, PathIsNew, LastIsOpen
  <2> QED BY <2>5, <2>6 DEF LogsInit, LogsInv, CallHasDescriptor, MainIsBound, LinesKept, Kinds
<1> QED BY <1>1, LogsStep, PTL DEF LogsSpec

\* A file that was moved away before a reopening that is complete gets no more
\* lines.
THEOREM RotatedFilesAreFinal == LogsSpec => []RotatedIsFinal
<1>1. LogsInv => RotatedIsFinal
  <2> SUFFICES ASSUME LogsInv, NEW g \in Goroutine, calls[g] # NoCall
               PROVE  LET fd == fds[calls[g].kind][calls[g].fd]
                      IN  fd.closed \/ fd.file \notin sealed[calls[g].kind]
    BY DEF RotatedIsFinal
  <2>1. calls[g].kind \in Kinds /\ calls[g].fd \in 1..Len(fds[calls[g].kind])
    BY DEF LogsInv, LogsTypeOK, CallHasDescriptor
  <2> QED BY <2>1 DEF LogsInv, LastIsOpen
<1> QED BY <1>1, LogsInvariance, PTL

\* Lines of main and of tasks get lost only around a reopening, and a log that
\* was not reopened loses none.
THEOREM LinesAreKept == LogsSpec => []LinesKept
<1>1. LogsInv => LinesKept
  BY DEF LogsInv
<1> QED BY <1>1, LogsInvariance, PTL
=============================================================================
