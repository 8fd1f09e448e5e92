-------------------------- MODULE PasteStore_proofs --------------------------
(***************************************************************************)
(* Proofs about PasteStore, for any number of ids, requests and cleaners,  *)
(* any contents, forms, handlers and faults, with or without a copy.       *)
(***************************************************************************)
EXTENDS PasteStore, TLAPS

\* A request that holds a row read from the primary (or just inserted).
Holding(q) ==
  \/ q.pc \in {"bkInsert", "expire", "claim", "update", "bkUpdate", "deliver"}
  \/ q.pc \in {"delete", "bkDelete"} /\ q.op # "delete"

\* Requests know which paste they are about, creators hold a draft, and the
\* test that led a request to a delete still holds when it gets there.
Wellformed ==
  \A r \in Req :
    /\ req[r].pc \notin {"idle", "insert"} => req[r].id \in Id
    /\ req[r].pc = "insert" => req[r].row \in Row
    /\ req[r].pc = "get" => req[r].op \notin {"create", "delete"}
    /\ req[r].pc = "claim" => OneUse(req[r].row) /\ req[r].op = "confirm"
    /\ req[r].pc = "delete" /\ req[r].op # "delete" =>
         OneUse(req[r].row) /\ req[r].op \in Claiming \cup {"lax"}
    /\ req[r].pc = "expire" => Expired(req[r].row, clock)

\* Whatever row a request carries to a later statement has the policy its
\* paste was created with, however long ago it was read.
SnapshotsAgree ==
  \A r \in Req : Holding(req[r]) =>
    /\ req[r].row \in Row
    /\ Has(issued, req[r].id)
    /\ SamePolicy(req[r].row, issued[req[r].id])

\* What a request is about to write to the copy was committed first.
PendingCommitted ==
  \A r \in Req : req[r].pc \in {"bkInsert", "bkUpdate"} =>
    req[r].row.body \in versions[req[r].id]

\* A one-use paste that was served has left the primary for good.
SpentGone ==
  \A id \in Id : burnServed[id] # 0 =>
    burnServed[id] = 1 /\ ~Has(primary, id) /\ Has(issued, id)

Inv ==
  /\ TypeOK
  /\ Wellformed
  /\ SnapshotsAgree
  /\ PendingCommitted
  /\ SpentGone
  /\ PolicyFrozen
  /\ BackupFaithful
  /\ ClaimExclusive

-----------------------------------------------------------------------------
\* Lemmas on how a step moves the request it belongs to.

\* Request r ends, or goes on to a statement in P with what it holds.
Moves(r, P) ==
  /\ req' \in [Req -> Request]
  /\ \A s \in Req \ {r} : req'[s] = req[s]
  /\ \/ req'[r] = Idle
     \/ /\ req'[r].pc \in P
        /\ req'[r].op = req[r].op
        /\ req'[r].id = req[r].id
        /\ req'[r].row = req[r].row

\* Finishing a request resets it and leaves the others alone.
LEMMA FinishMoves ==
  ASSUME TypeOK, NEW r \in Req, Finish(r)
  PROVE  Moves(r, {}) /\ req'[r] = Idle
  BY DEF TypeOK, Finish, Moves, Idle, Request, PC, Handlers

\* Going to another statement keeps what the request holds.
LEMMA GotoMoves ==
  ASSUME TypeOK, NEW r \in Req, NEW pc \in PC, Goto(r, pc)
  PROVE  Moves(r, {pc}) /\ req'[r].pc = pc
  BY DEF TypeOK, Goto, Moves, Request

\* After a delete that removed a row a plain deleter never serves anything.
LEMMA AfterDeleteMoves ==
  ASSUME TypeOK, NEW r \in Req, AfterDelete(r)
  PROVE  /\ Moves(r, {"bkDelete", "deliver"})
         /\ req'[r].pc = "deliver" => req[r].op # "delete"
<1>1. CASE Goto(r, "bkDelete")
  BY <1>1, GotoMoves DEF Moves, PC
<1>2. CASE Finish(r)
  BY <1>2, FinishMoves DEF Moves, Idle
<1>3. CASE req[r].op # "delete" /\ Goto(r, "deliver")
  BY <1>3, GotoMoves DEF Moves, PC
<1> QED  BY <1>1, <1>2, <1>3, BackupAssumption DEF AfterDelete

\* After a delete that removed nothing only lax handlers go on.
LEMMA AfterFailedDeleteMoves ==
  ASSUME TypeOK, NEW r \in Req, AfterFailedDelete(r)
  PROVE  /\ Moves(r, {"deliver"})
         /\ req'[r].pc = "deliver" => req[r].op = "lax"
<1>1. CASE req[r].op = "lax" /\ Goto(r, "deliver")
  BY <1>1, GotoMoves DEF Moves, PC
<1>2. CASE Finish(r)
  BY <1>2, FinishMoves DEF Moves, Idle
<1> QED  BY <1>1, <1>2 DEF AfterFailedDelete

\* A creator only fills in its own draft.
LEMMA BeginCreateInv ==
  ASSUME Inv, NEW r \in Req, BeginCreate(r)
  PROVE  Inv'
<1>a. PICK d \in Row :
        req' = [req EXCEPT ![r] =
                  [pc |-> "insert", op |-> "create", id |-> NoId, row |-> d]]
  <2>1. PICK f \in Form, b \in Body :
          req' = [req EXCEPT ![r] =
            [pc |-> "insert", op |-> "create", id |-> NoId,
             row |-> [body |-> b,
                      delete_time |-> IF f.life < 0 THEN 0 ELSE clock + f.life,
                      flags |-> f.flags]]]
    BY DEF BeginCreate
  <2> DEFINE d == [body |-> b,
                   delete_time |-> IF f.life < 0 THEN 0 ELSE clock + f.life,
                   flags |-> f.flags]
  <2>2. d \in Row
    BY FormAssumption, TimeAssumption DEF Inv, TypeOK, Row
  <2> QED  BY <2>1, <2>2
<1>b. UNCHANGED <<dbVars, clock, cleaning, histVars>>
  BY DEF BeginCreate
<1>1. TypeOK'
  BY <1>a, <1>b, IdAssumption, RowAssumption
     DEF Inv, TypeOK, Wellformed, dbVars, histVars, Request, PC, Handlers
<1>2. Wellformed'
  BY <1>a, <1>b, IdAssumption, RowAssumption
     DEF Inv, TypeOK, Wellformed, dbVars, histVars, Request, PC, Handlers
<1>3. SnapshotsAgree'
  BY <1>a, <1>b, IdAssumption, RowAssumption
     DEF Inv, TypeOK, Wellformed, SnapshotsAgree, Holding, Has, SamePolicy,
         dbVars, histVars, Request, PC, Handlers
<1>4. PendingCommitted'
  BY <1>a, <1>b, IdAssumption, RowAssumption
     DEF Inv, TypeOK, Wellformed, PendingCommitted, dbVars, histVars, Request,
         PC, Handlers
<1>5. SpentGone'
  BY <1>a, <1>b, IdAssumption, RowAssumption
     DEF Inv, TypeOK, Wellformed, SpentGone, Has, dbVars, histVars, Request, PC,
         Handlers
<1>6. PolicyFrozen'
  BY <1>a, <1>b, IdAssumption, RowAssumption
     DEF Inv, TypeOK, Wellformed, PolicyFrozen, Has, SamePolicy, dbVars,
         histVars, Request, PC, Handlers
<1>7. BackupFaithful'
  BY <1>a, <1>b, IdAssumption, RowAssumption
     DEF Inv, TypeOK, Wellformed, SnapshotsAgree, Holding, PendingCommitted,
         BackupFaithful, Has, SamePolicy, dbVars, histVars, Request, PC,
         Handlers
<1>8. ClaimExclusive'
  BY <1>a, <1>b, IdAssumption, RowAssumption
     DEF Inv, TypeOK, ClaimExclusive, Claimant, Has, dbVars, histVars, Request,
         PC, Handlers
<1> QED  BY <1>1, <1>2, <1>3, <1>4, <1>5, <1>6, <1>7, <1>8 DEF Inv

\* An insert uses an id no request and no reader knows yet.
LEMMA PasteAddInv ==
  ASSUME Inv, NEW r \in Req, PasteAdd(r)
  PROVE  Inv'
<1>a. PICK id \in Id :
        /\ InsertPrimary(r, id)
        /\ \/ req' = [req EXCEPT ![r].pc = "bkInsert", ![r].id = id]
           \/ Finish(r)
  BY BackupAssumption DEF PasteAdd
<1>b. /\ req[r].pc = "insert"
      /\ req[r].row \in Row
      /\ UNCHANGED <<backup, clock, cleaning, burnServed>>
  BY DEF PasteAdd, Inv, Wellformed
<1>c. /\ req' \in [Req -> Request]
      /\ \A s \in Req \ {r} : req'[s] = req[s]
      /\ \/ req'[r] = Idle
         \/ /\ req'[r].pc = "bkInsert"
            /\ req'[r].id = id
            /\ req'[r].row = req[r].row
  <2>1. CASE Finish(r)
    BY <2>1, FinishMoves DEF Inv, Moves
  <2>2. CASE req' = [req EXCEPT ![r].pc = "bkInsert", ![r].id = id]
    BY ZenonT(30), <2>2 DEF Inv, TypeOK, Request, PC
  <2> QED  BY <1>a, <2>1, <2>2
<1>d. /\ primary' = [primary EXCEPT ![id] = req[r].row]
      /\ issued' = [issued EXCEPT ![id] = req[r].row]
      /\ versions' = [versions EXCEPT ![id] = {req[r].row.body}]
      /\ issued[id] = NoRow
  BY <1>a DEF InsertPrimary, Put
<1>1. TypeOK'
  BY <1>b, <1>c, <1>d, IdAssumption, RowAssumption
     DEF Inv, TypeOK, Wellformed, Idle, Row
<1>2. Wellformed'
  BY <1>b, <1>c, <1>d, IdAssumption, RowAssumption
     DEF Inv, TypeOK, Wellformed, Idle, Row
<1>3. SnapshotsAgree'
  BY <1>b, <1>c, <1>d, IdAssumption, RowAssumption
     DEF Inv, TypeOK, Wellformed, SnapshotsAgree, Holding, Has, SamePolicy,
         Idle, Row
<1>4. PendingCommitted'
  BY <1>b, <1>c, <1>d, IdAssumption, RowAssumption
     DEF Inv, TypeOK, Wellformed, PendingCommitted, SnapshotsAgree, Holding,
         Has, Idle, Row
<1>5. SpentGone'
  BY <1>b, <1>c, <1>d, IdAssumption, RowAssumption
     DEF Inv, TypeOK, Wellformed, SpentGone, Has, Idle, Row
<1>6. PolicyFrozen'
  BY <1>b, <1>c, <1>d, IdAssumption, RowAssumption
     DEF Inv, TypeOK, Wellformed, PolicyFrozen, Has, SamePolicy, Idle, Row
<1>7. BackupFaithful'
  BY <1>b, <1>c, <1>d, IdAssumption, RowAssumption
     DEF Inv, TypeOK, Wellformed, SnapshotsAgree, Holding, PendingCommitted,
         BackupFaithful, Has, SamePolicy, Idle, Row
<1>8. ClaimExclusive'
  <2>1. \A s \in Req, i \in Id : Claimant(s, i)' => Claimant(s, i) /\ i # id
    BY <1>b, <1>c, <1>d
       DEF Inv, SnapshotsAgree, Holding, Claimant, Idle, Has, Claiming
  <2> QED  BY <2>1, <1>b, <1>d DEF Inv, TypeOK, ClaimExclusive, Has
<1> QED  BY <1>1, <1>2, <1>3, <1>4, <1>5, <1>6, <1>7, <1>8 DEF Inv

\* What PasteAdd copies was committed to the primary first.
LEMMA BackupInsertInv ==
  ASSUME Inv, NEW r \in Req, BackupInsert(r)
  PROVE  Inv'
<1>a. Moves(r, {}) /\ req'[r] = Idle
  BY FinishMoves DEF Inv, BackupInsert
<1>1. TypeOK'
  BY <1>a, IdAssumption, RowAssumption
     DEF Inv, TypeOK, Wellformed, SnapshotsAgree, Holding, BackupInsert, Put,
         Moves, Idle, histVars
<1>2. Wellformed'
  BY <1>a, IdAssumption, RowAssumption
     DEF Inv, TypeOK, Wellformed, BackupInsert, Put, Moves, Idle, histVars
<1>3. SnapshotsAgree'
  BY <1>a, IdAssumption, RowAssumption
     DEF Inv, TypeOK, Wellformed, SnapshotsAgree, Holding, Has, SamePolicy,
         BackupInsert, Put, Moves, Idle, histVars
<1>4. PendingCommitted'
  BY <1>a, IdAssumption, RowAssumption
     DEF Inv, TypeOK, Wellformed, PendingCommitted, BackupInsert, Put, Moves,
         Idle, histVars
<1>5. SpentGone'
  BY <1>a, IdAssumption, RowAssumption
     DEF Inv, TypeOK, Wellformed, SpentGone, Has, BackupInsert, Put, Moves,
         Idle, histVars
<1>6. PolicyFrozen'
  BY <1>a, IdAssumption, RowAssumption
     DEF Inv, TypeOK, Wellformed, PolicyFrozen, Has, SamePolicy, BackupInsert,
         Put, Moves, Idle, histVars
<1>7. BackupFaithful'
  BY <1>a, IdAssumption, RowAssumption
     DEF Inv, TypeOK, Wellformed, SnapshotsAgree, Holding, PendingCommitted,
         BackupFaithful, Has, SamePolicy, BackupInsert, Put, Moves, Idle,
         histVars
<1>8. ClaimExclusive'
  BY <1>a, IdAssumption, RowAssumption
     DEF Inv, TypeOK, ClaimExclusive, Claimant, Has, BackupInsert, Put, Moves,
         Idle, histVars
<1> QED  BY <1>1, <1>2, <1>3, <1>4, <1>5, <1>6, <1>7, <1>8 DEF Inv

\* A request that starts holds no row yet.
LEMMA BeginInv ==
  ASSUME Inv, NEW r \in Req, NEW op \in Handler, NEW id \in Id, Begin(r, op, id)
  PROVE  Inv'
<1>1. TypeOK'
  BY HandlerAssumption, IdAssumption, RowAssumption
     DEF Inv, TypeOK, Wellformed, Begin, Request, PC, Handlers, dbVars, histVars
<1>2. Wellformed'
  BY HandlerAssumption, IdAssumption, RowAssumption
     DEF Inv, TypeOK, Wellformed, Begin, Request, PC, Handlers, dbVars, histVars
<1>3. SnapshotsAgree'
  BY HandlerAssumption, IdAssumption, RowAssumption
     DEF Inv, TypeOK, Wellformed, SnapshotsAgree, Holding, Has, SamePolicy,
         Begin, Request, PC, Handlers, dbVars, histVars
<1>4. PendingCommitted'
  BY HandlerAssumption, IdAssumption, RowAssumption
     DEF Inv, TypeOK, Wellformed, PendingCommitted, Begin, Request, PC,
         Handlers, dbVars, histVars
<1>5. SpentGone'
  BY HandlerAssumption, IdAssumption, RowAssumption
     DEF Inv, TypeOK, Wellformed, SpentGone, Has, Begin, Request, PC, Handlers,
         dbVars, histVars
<1>6. PolicyFrozen'
  BY HandlerAssumption, IdAssumption, RowAssumption
     DEF Inv, TypeOK, Wellformed, PolicyFrozen, Has, SamePolicy, Begin, Request,
         PC, Handlers, dbVars, histVars
<1>7. BackupFaithful'
  BY HandlerAssumption, IdAssumption, RowAssumption
     DEF Inv, TypeOK, Wellformed, SnapshotsAgree, Holding, PendingCommitted,
         BackupFaithful, Has, SamePolicy, Begin, Request, PC, Handlers, dbVars,
         histVars
<1>8. ClaimExclusive'
  BY HandlerAssumption, IdAssumption, RowAssumption
     DEF Inv, TypeOK, ClaimExclusive, Claimant, Has, Begin, Request, PC,
         Handlers, dbVars, histVars
<1> QED  BY <1>1, <1>2, <1>3, <1>4, <1>5, <1>6, <1>7, <1>8 DEF Inv

\* PasteGet ends the request or hands it the row it read, with the reason for
\* whatever comes next.
LEMMA PasteGetStep ==
  ASSUME Inv, NEW r \in Req, PasteGet(r)
  PROVE  /\ req' \in [Req -> Request]
         /\ \A s \in Req \ {r} : req'[s] = req[s]
         /\ \/ req'[r] = Idle
            \/ /\ Has(primary, req[r].id)
               /\ req'[r].row = primary[req[r].id]
               /\ req'[r].id = req[r].id
               /\ req'[r].op = req[r].op
               /\ req'[r].pc \in {"expire", "update", "deliver", "claim", "delete"}
               /\ req'[r].pc = "claim" => req[r].op = "confirm" /\ OneUse(req'[r].row)
               /\ req'[r].pc = "delete" =>
                 OneUse(req'[r].row) /\ req[r].op \in Claiming \cup {"lax"}
               /\ req'[r].pc = "expire" => Expired(req'[r].row, clock)
               /\ req'[r].pc = "deliver" /\ req[r].op \in Claiming => ~OneUse(req'[r].row)
<1>a. /\ UNCHANGED <<dbVars, clock, cleaning, histVars>>
      /\ req[r].pc = "get" /\ req[r].id \in Id
      /\ req[r].op \in Handlers \ {"create", "delete"}
  BY DEF PasteGet, Inv, TypeOK, Wellformed, Request
<1> DEFINE row  == primary[req[r].id]
           next == IF Expired(row, clock) THEN "expire" ELSE AfterGet(req[r].op, row)
<1>1. CASE row = NoRow \/ (~Expired(row, clock) /\ AfterGet(req[r].op, row) = "idle")
  BY <1>1, FinishMoves DEF Inv, PasteGet, Moves
<1>2. CASE ~(row = NoRow \/ (~Expired(row, clock) /\ AfterGet(req[r].op, row) = "idle"))
  <2>1. req' = [req EXCEPT ![r].row = row, ![r].pc = next]
    BY <1>2 DEF PasteGet
  <2>2. row \in Row
    BY <1>2, <1>a DEF Inv, TypeOK
  <2>3. /\ next \in {"expire", "update", "deliver", "claim", "delete"}
        /\ next = "claim" => req[r].op = "confirm" /\ OneUse(row)
        /\ next = "delete" => OneUse(row) /\ req[r].op \in Claiming \cup {"lax"}
        /\ next = "expire" => Expired(row, clock)
        /\ next = "deliver" /\ req[r].op \in Claiming => ~OneUse(row)
    <3>1. CASE Expired(row, clock)
      BY <3>1
    <3>2. CASE ~Expired(row, clock)
      <4>1. next = AfterGet(req[r].op, row) /\ next # "idle"
        BY <3>2, <1>2
      <4>2. CASE req[r].op \in Editing
        BY <4>1, <4>2 DEF AfterGet, Claiming, Editing
      <4>3. CASE req[r].op \notin Editing
        BY <4>1, <4>3, <1>a DEF AfterGet, Claiming, Editing, Handlers
      <4> QED  BY <4>2, <4>3
    <3> QED  BY <3>1, <3>2
  <2>4. req[r] \in Request
    BY DEF Inv, TypeOK
  <2> HIDE DEF next
  <2>5. /\ req'[r] = [req[r] EXCEPT !.row = row, !.pc = next]
        /\ \A s \in Req \ {r} : req'[s] = req[s]
        /\ req' = [req EXCEPT ![r] = [req[r] EXCEPT !.row = row, !.pc = next]]
    BY <2>1 DEF Inv, TypeOK
  <2>6. [req[r] EXCEPT !.row = row, !.pc = next] \in Request
    BY <2>2, <2>3, <2>4 DEF Request, PC
  <2> QED  BY <1>2, <2>2, <2>3, <2>4, <2>5, <2>6 DEF Inv, TypeOK, Has, Request
<1> QED  BY <1>1, <1>2

\* A reader takes a snapshot whose policy is the issued one.
LEMMA PasteGetInv ==
  ASSUME Inv, NEW r \in Req, PasteGet(r)
  PROVE  Inv'
<1>a. /\ UNCHANGED <<dbVars, clock, cleaning, histVars>>
      /\ req[r].pc = "get" /\ req[r].id \in Id
      /\ req[r].op \in Handlers \ {"create", "delete"}
  BY DEF PasteGet, Inv, TypeOK, Wellformed, Request
<1>b. /\ req' \in [Req -> Request]
      /\ \A s \in Req \ {r} : req'[s] = req[s]
      /\ \/ req'[r] = Idle
         \/ /\ Has(primary, req[r].id)
            /\ req'[r].row = primary[req[r].id]
            /\ req'[r].id = req[r].id
            /\ req'[r].op = req[r].op
            /\ req'[r].pc \in {"expire", "update", "deliver", "claim", "delete"}
            /\ req'[r].pc = "claim" => req[r].op = "confirm" /\ OneUse(req'[r].row)
            /\ req'[r].pc = "delete" =>
                 OneUse(req'[r].row) /\ req[r].op \in Claiming \cup {"lax"}
            /\ req'[r].pc = "expire" => Expired(req'[r].row, clock)
            /\ req'[r].pc = "deliver" /\ req[r].op \in Claiming => ~OneUse(req'[r].row)
  BY PasteGetStep
<1>1. TypeOK'
  BY <1>a, <1>b, IdAssumption, RowAssumption
     DEF Inv, TypeOK, Wellformed, Idle, Row, dbVars, histVars
<1>2. Wellformed'
  BY <1>a, <1>b, IdAssumption, RowAssumption
     DEF Inv, TypeOK, Wellformed, Idle, Row, dbVars, histVars
<1>3. SnapshotsAgree'
  BY <1>a, <1>b, IdAssumption, RowAssumption
     DEF Inv, TypeOK, Wellformed, SnapshotsAgree, Holding, Has, SamePolicy,
         PolicyFrozen, OneUse, Idle, Row, dbVars, histVars
<1>4. PendingCommitted'
  BY <1>a, <1>b, IdAssumption, RowAssumption
     DEF Inv, TypeOK, Wellformed, PendingCommitted, Idle, Row, dbVars, histVars
<1>5. SpentGone'
  BY <1>a, <1>b, IdAssumption, RowAssumption
     DEF Inv, TypeOK, Wellformed, SpentGone, Has, Idle, Row, dbVars, histVars
<1>6. PolicyFrozen'
  BY <1>a, <1>b, IdAssumption, RowAssumption
     DEF Inv, TypeOK, Wellformed, PolicyFrozen, Has, SamePolicy, Idle, Row,
         dbVars, histVars
<1>7. BackupFaithful'
  BY <1>a, <1>b, IdAssumption, RowAssumption
     DEF Inv, TypeOK, Wellformed, SnapshotsAgree, Holding, PendingCommitted,
         BackupFaithful, Has, SamePolicy, Idle, Row, dbVars, histVars
<1>8. ClaimExclusive'
  BY <1>a, <1>b, IdAssumption, RowAssumption
     DEF Inv, TypeOK, ClaimExclusive, Claimant, Has, Idle, Row, dbVars, histVars
<1> QED  BY <1>1, <1>2, <1>3, <1>4, <1>5, <1>6, <1>7, <1>8 DEF Inv

\* The lazy delete of PasteGet removes a row and serves nothing.
LEMMA PasteExpireInv ==
  ASSUME Inv, NEW r \in Req, PasteExpire(r)
  PROVE  Inv'
<1>a. Moves(r, {}) /\ req'[r] = Idle
  BY FinishMoves DEF Inv, PasteExpire
<1>1. TypeOK'
  BY <1>a, IdAssumption, RowAssumption
     DEF Inv, TypeOK, Wellformed, PasteExpire, Deleted, Moves, Idle, histVars
<1>2. Wellformed'
  BY <1>a, IdAssumption, RowAssumption
     DEF Inv, TypeOK, Wellformed, PasteExpire, Deleted, Moves, Idle, histVars
<1>3. SnapshotsAgree'
  BY <1>a, IdAssumption, RowAssumption
     DEF Inv, TypeOK, Wellformed, SnapshotsAgree, Holding, Has, SamePolicy,
         PasteExpire, Deleted, Moves, Idle, histVars
<1>4. PendingCommitted'
  BY <1>a, IdAssumption, RowAssumption
     DEF Inv, TypeOK, Wellformed, PendingCommitted, PasteExpire, Deleted, Moves,
         Idle, histVars
<1>5. SpentGone'
  BY <1>a, IdAssumption, RowAssumption
     DEF Inv, TypeOK, Wellformed, SpentGone, Has, PasteExpire, Deleted, Moves,
         Idle, histVars
<1>6. PolicyFrozen'
  BY <1>a, IdAssumption, RowAssumption
     DEF Inv, TypeOK, Wellformed, PolicyFrozen, Has, SamePolicy, PasteExpire,
         Deleted, Moves, Idle, histVars
<1>7. BackupFaithful'
  BY <1>a, IdAssumption, RowAssumption
     DEF Inv, TypeOK, Wellformed, SnapshotsAgree, Holding, PendingCommitted,
         BackupFaithful, Has, SamePolicy, PasteExpire, Deleted, Moves, Idle,
         histVars
<1>8. ClaimExclusive'
  BY <1>a, IdAssumption, RowAssumption
     DEF Inv, TypeOK, ClaimExclusive, Claimant, Has, PasteExpire, Deleted,
         Moves, Idle, histVars
<1> QED  BY <1>1, <1>2, <1>3, <1>4, <1>5, <1>6, <1>7, <1>8 DEF Inv

\* Only the request whose conditional delete removed the row becomes a claimant.
LEMMA PasteDeleteIfOneUseInv ==
  ASSUME Inv, NEW r \in Req, PasteDeleteIfOneUse(r)
  PROVE  Inv'
<1>a. /\ UNCHANGED <<backup, clock, cleaning, histVars>>
      /\ req[r].pc = "claim" /\ req[r].id \in Id /\ req[r] \in Request
  BY DEF PasteDeleteIfOneUse, Inv, TypeOK, Wellformed
<1>b. \/ /\ primary' = Deleted(primary, req[r].id)
         /\ Has(primary, req[r].id)
         /\ Moves(r, {"bkDelete", "deliver"})
         /\ req'[r].pc = "deliver" => req[r].op # "delete"
      \/ /\ primary' = primary
         /\ Moves(r, {"deliver"})
         /\ req'[r].pc = "deliver" => req[r].op = "lax"
  BY AfterDeleteMoves, AfterFailedDeleteMoves, FinishMoves
     DEF PasteDeleteIfOneUse, Inv, Moves, Idle
<1>1. TypeOK'
  BY <1>a, <1>b, IdAssumption, RowAssumption
     DEF Inv, TypeOK, Wellformed, Deleted, Moves, Idle, Row, histVars
<1>2. Wellformed'
  BY <1>a, <1>b, IdAssumption, RowAssumption
     DEF Inv, TypeOK, Wellformed, Deleted, Moves, Idle, Row, histVars
<1>3. SnapshotsAgree'
  BY <1>a, <1>b, IdAssumption, RowAssumption
     DEF Inv, TypeOK, Wellformed, SnapshotsAgree, Holding, Has, SamePolicy,
         Deleted, Moves, Idle, Row, histVars
<1>4. PendingCommitted'
  BY <1>a, <1>b, IdAssumption, RowAssumption
     DEF Inv, TypeOK, Wellformed, PendingCommitted, Deleted, Moves, Idle, Row,
         histVars
<1>5. SpentGone'
  BY <1>a, <1>b, IdAssumption, RowAssumption
     DEF Inv, TypeOK, Wellformed, SpentGone, Has, Deleted, Moves, Idle, Row,
         histVars
<1>6. PolicyFrozen'
  BY <1>a, <1>b, IdAssumption, RowAssumption
     DEF Inv, TypeOK, Wellformed, PolicyFrozen, Has, SamePolicy, Deleted, Moves,
         Idle, Row, histVars
<1>7. BackupFaithful'
  BY <1>a, <1>b, IdAssumption, RowAssumption
     DEF Inv, TypeOK, Wellformed, SnapshotsAgree, Holding, PendingCommitted,
         BackupFaithful, Has, SamePolicy, Deleted, Moves, Idle, Row, histVars
<1>8. ClaimExclusive'
  <2>1. CASE /\ primary' = primary
             /\ Moves(r, {"deliver"})
             /\ req'[r].pc = "deliver" => req[r].op = "lax"
    <3>1. \A s \in Req, i \in Id : Claimant(s, i)' => Claimant(s, i)
      BY <2>1 DEF Claimant, Claiming, Moves, Idle
    <3> QED  BY <3>1, <2>1, <1>a DEF Inv, ClaimExclusive, Has, histVars
  <2>2. CASE primary' = Deleted(primary, req[r].id) /\ Has(primary, req[r].id)
    <3>1. \A s \in Req, i \in Id :
            Claimant(s, i)' => \/ Claimant(s, i) /\ i # req[r].id
                               \/ s = r /\ i = req[r].id
      BY <2>2, <1>a, <1>b DEF Inv, ClaimExclusive, Claimant, Moves, Idle
    <3>2. burnServed[req[r].id] = 0
      BY <2>2, <1>a DEF Inv, SpentGone
    <3> QED  BY <2>2, <3>1, <3>2, <1>a
             DEF Inv, TypeOK, ClaimExclusive, Deleted, Has, histVars
  <2> QED  BY <1>b, <2>1, <2>2
<1> QED  BY <1>1, <1>2, <1>3, <1>4, <1>5, <1>6, <1>7, <1>8 DEF Inv

\* Only the request whose delete removed the row becomes a claimant.
LEMMA PasteDeleteInv ==
  ASSUME Inv, NEW r \in Req, PasteDelete(r)
  PROVE  Inv'
<1>a. /\ UNCHANGED <<backup, clock, cleaning, histVars>>
      /\ req[r].pc = "delete" /\ req[r].id \in Id /\ req[r] \in Request
  BY DEF PasteDelete, Inv, TypeOK, Wellformed
<1>b. \/ /\ primary' = Deleted(primary, req[r].id)
         /\ Has(primary, req[r].id)
         /\ Moves(r, {"bkDelete", "deliver"})
         /\ req'[r].pc = "deliver" => req[r].op # "delete"
      \/ /\ primary' = primary
         /\ Moves(r, {"deliver"})
         /\ req'[r].pc = "deliver" => req[r].op = "lax"
  BY AfterDeleteMoves, AfterFailedDeleteMoves, FinishMoves
     DEF PasteDelete, Inv, Moves, Idle
<1>1. TypeOK'
  BY <1>a, <1>b, IdAssumption, RowAssumption
     DEF Inv, TypeOK, Wellformed, Deleted, Moves, Idle, Row, histVars
<1>2. Wellformed'
  BY <1>a, <1>b, IdAssumption, RowAssumption
     DEF Inv, TypeOK, Wellformed, Deleted, Moves, Idle, Row, histVars
<1>3. SnapshotsAgree'
  BY <1>a, <1>b, IdAssumption, RowAssumption
     DEF Inv, TypeOK, Wellformed, SnapshotsAgree, Holding, Has, SamePolicy,
         Deleted, Moves, Idle, Row, histVars
<1>4. PendingCommitted'
  BY <1>a, <1>b, IdAssumption, RowAssumption
     DEF Inv, TypeOK, Wellformed, PendingCommitted, Deleted, Moves, Idle, Row,
         histVars
<1>5. SpentGone'
  BY <1>a, <1>b, IdAssumption, RowAssumption
     DEF Inv, TypeOK, Wellformed, SpentGone, Has, Deleted, Moves, Idle, Row,
         histVars
<1>6. PolicyFrozen'
  BY <1>a, <1>b, IdAssumption, RowAssumption
     DEF Inv, TypeOK, Wellformed, PolicyFrozen, Has, SamePolicy, Deleted, Moves,
         Idle, Row, histVars
<1>7. BackupFaithful'
  BY <1>a, <1>b, IdAssumption, RowAssumption
     DEF Inv, TypeOK, Wellformed, SnapshotsAgree, Holding, PendingCommitted,
         BackupFaithful, Has, SamePolicy, Deleted, Moves, Idle, Row, histVars
<1>8. ClaimExclusive'
  <2>1. CASE /\ primary' = primary
             /\ Moves(r, {"deliver"})
             /\ req'[r].pc = "deliver" => req[r].op = "lax"
    <3>1. \A s \in Req, i \in Id : Claimant(s, i)' => Claimant(s, i)
      BY <2>1 DEF Claimant, Claiming, Moves, Idle
    <3> QED  BY <3>1, <2>1, <1>a DEF Inv, ClaimExclusive, Has, histVars
  <2>2. CASE primary' = Deleted(primary, req[r].id) /\ Has(primary, req[r].id)
    <3>1. \A s \in Req, i \in Id :
            Claimant(s, i)' => \/ Claimant(s, i) /\ i # req[r].id
                               \/ s = r /\ i = req[r].id
      BY <2>2, <1>a, <1>b DEF Inv, ClaimExclusive, Claimant, Moves, Idle
    <3>2. burnServed[req[r].id] = 0
      BY <2>2, <1>a DEF Inv, SpentGone
    <3> QED  BY <2>2, <3>1, <3>2, <1>a
             DEF Inv, TypeOK, ClaimExclusive, Deleted, Has, histVars
  <2> QED  BY <1>b, <2>1, <2>2
<1> QED  BY <1>1, <1>2, <1>3, <1>4, <1>5, <1>6, <1>7, <1>8 DEF Inv

\* Deleting from the copy leaves claims as they are.
LEMMA BackupDeleteInv ==
  ASSUME Inv, NEW r \in Req, BackupDelete(r)
  PROVE  Inv'
<1>a. /\ UNCHANGED <<primary, clock, cleaning, histVars>>
      /\ backup' = Deleted(backup, req[r].id)
      /\ req[r].pc = "bkDelete" /\ req[r].id \in Id
  BY DEF BackupDelete, Inv, Wellformed
<1>b. /\ Moves(r, {"deliver"})
      /\ req'[r].pc = "deliver" => req[r].op # "delete"
  BY FinishMoves, GotoMoves DEF BackupDelete, Inv, Moves, Idle, PC
<1>1. TypeOK'
  BY <1>a, <1>b, IdAssumption, RowAssumption
     DEF Inv, TypeOK, Wellformed, Deleted, Moves, Idle, histVars
<1>2. Wellformed'
  BY <1>a, <1>b, IdAssumption, RowAssumption
     DEF Inv, TypeOK, Wellformed, Deleted, Moves, Idle, histVars
<1>3. SnapshotsAgree'
  BY <1>a, <1>b, IdAssumption, RowAssumption
     DEF Inv, TypeOK, Wellformed, SnapshotsAgree, Holding, Has, SamePolicy,
         Deleted, Moves, Idle, histVars
<1>4. PendingCommitted'
  BY <1>a, <1>b, IdAssumption, RowAssumption
     DEF Inv, TypeOK, Wellformed, PendingCommitted, Deleted, Moves, Idle,
         histVars
<1>5. SpentGone'
  BY <1>a, <1>b, IdAssumption, RowAssumption
     DEF Inv, TypeOK, Wellformed, SpentGone, Has, Deleted, Moves, Idle, histVars
<1>6. PolicyFrozen'
  BY <1>a, <1>b, IdAssumption, RowAssumption
     DEF Inv, TypeOK, Wellformed, PolicyFrozen, Has, SamePolicy, Deleted, Moves,
         Idle, histVars
<1>7. BackupFaithful'
  BY <1>a, <1>b, IdAssumption, RowAssumption
     DEF Inv, TypeOK, Wellformed, SnapshotsAgree, Holding, PendingCommitted,
         BackupFaithful, Has, SamePolicy, Deleted, Moves, Idle, histVars
<1>8. ClaimExclusive'
  <2>1. \A s \in Req, i \in Id : Claimant(s, i)' => Claimant(s, i)
    BY <1>a, <1>b DEF Claimant, Moves, Idle
  <2> QED  BY <2>1, <1>a DEF Inv, ClaimExclusive, Has, histVars
<1> QED  BY <1>1, <1>2, <1>3, <1>4, <1>5, <1>6, <1>7, <1>8 DEF Inv

\* An edit writes the policy it read, and only over a row that is there.
LEMMA PasteUpdateInv ==
  ASSUME Inv, NEW r \in Req, PasteUpdate(r)
  PROVE  Inv'
<1> DEFINE id == req[r].id
<1>a. /\ UNCHANGED <<backup, clock, cleaning, issued, burnServed>>
      /\ req[r].pc = "update" /\ id \in Id /\ req[r] \in Request
      /\ req[r].row \in Row /\ Has(issued, id) /\ SamePolicy(req[r].row, issued[id])
  BY DEF PasteUpdate, Inv, TypeOK, Wellformed, SnapshotsAgree, Holding
<1>b. PICK b \in Body :
        LET row == [req[r].row EXCEPT !.body = b]
        IN  /\ primary' = Updated(primary, id, row)
            /\ versions' = IF Has(primary, id)
                           THEN [versions EXCEPT ![id] = @ \cup {b}]
                           ELSE versions
            /\ IF Has(primary, id) /\ HasBackup
               THEN req' = [req EXCEPT ![r].pc = "bkUpdate", ![r].row = row]
               ELSE Finish(r)
  BY DEF PasteUpdate
<1> DEFINE row == [req[r].row EXCEPT !.body = b]
<1>c. row \in Row /\ row.body = b /\ SamePolicy(row, issued[id])
  BY <1>a DEF Row, SamePolicy
<1> HIDE DEF row
<1>d. /\ req' \in [Req -> Request]
      /\ \A s \in Req \ {r} : req'[s] = req[s]
      /\ \/ req'[r] = Idle
         \/ /\ Has(primary, id)
            /\ req'[r].pc = "bkUpdate"
            /\ req'[r].id = id
            /\ req'[r].row = row
  <2>1. CASE Finish(r)
    BY <2>1, FinishMoves DEF Inv, Moves
  <2>2. CASE Has(primary, id) /\ req' = [req EXCEPT ![r].pc = "bkUpdate", ![r].row = row]
    BY <2>2, <1>a, <1>c DEF Inv, TypeOK, Request, PC
  <2> QED  BY <1>b, <2>1, <2>2 DEF row
<1>e. \/ /\ Has(primary, id)
         /\ primary' = [primary EXCEPT ![id] = row]
         /\ versions' = [versions EXCEPT ![id] = @ \cup {b}]
      \/ ~Has(primary, id) /\ UNCHANGED <<primary, versions>>
  BY <1>b DEF Updated, Put, row
<1>1. TypeOK'
  BY <1>a, <1>c, <1>d, <1>e, IdAssumption, RowAssumption
     DEF Inv, TypeOK, Wellformed, Idle
<1>2. Wellformed'
  BY <1>a, <1>c, <1>d, <1>e, IdAssumption, RowAssumption
     DEF Inv, TypeOK, Wellformed, Idle
<1>3. SnapshotsAgree'
  BY <1>a, <1>c, <1>d, <1>e, IdAssumption, RowAssumption
     DEF Inv, TypeOK, Wellformed, SnapshotsAgree, Holding, Has, SamePolicy, Idle
<1>4. PendingCommitted'
  BY <1>a, <1>c, <1>d, <1>e, IdAssumption, RowAssumption
     DEF Inv, TypeOK, Wellformed, PendingCommitted, Idle
<1>5. SpentGone'
  BY <1>a, <1>c, <1>d, <1>e, IdAssumption, RowAssumption
     DEF Inv, TypeOK, Wellformed, SpentGone, Has, Idle
<1>6. PolicyFrozen'
  BY <1>a, <1>c, <1>d, <1>e, IdAssumption, RowAssumption
     DEF Inv, TypeOK, Wellformed, PolicyFrozen, Has, SamePolicy, Idle
<1>7. BackupFaithful'
  BY <1>a, <1>c, <1>d, <1>e, IdAssumption, RowAssumption
     DEF Inv, TypeOK, Wellformed, SnapshotsAgree, Holding, PendingCommitted,
         BackupFaithful, Has, SamePolicy, Idle
<1>8. ClaimExclusive'
  BY <1>a, <1>c, <1>d, <1>e, IdAssumption, RowAssumption
     DEF Inv, TypeOK, ClaimExclusive, Claimant, Has, Idle
<1> QED  BY <1>1, <1>2, <1>3, <1>4, <1>5, <1>6, <1>7, <1>8 DEF Inv

\* What PasteUpdate copies was committed to the primary first.
LEMMA BackupUpdateInv ==
  ASSUME Inv, NEW r \in Req, BackupUpdate(r)
  PROVE  Inv'
<1>a. Moves(r, {}) /\ req'[r] = Idle
  BY FinishMoves DEF Inv, BackupUpdate
<1>1. TypeOK'
  BY <1>a, IdAssumption, RowAssumption
     DEF Inv, TypeOK, Wellformed, SnapshotsAgree, Holding, BackupUpdate,
         Updated, Put, Moves, Idle, histVars
<1>2. Wellformed'
  BY <1>a, IdAssumption, RowAssumption
     DEF Inv, TypeOK, Wellformed, BackupUpdate, Updated, Put, Moves, Idle,
         histVars
<1>3. SnapshotsAgree'
  BY <1>a, IdAssumption, RowAssumption
     DEF Inv, TypeOK, Wellformed, SnapshotsAgree, Holding, Has, SamePolicy,
         BackupUpdate, Updated, Put, Moves, Idle, histVars
<1>4. PendingCommitted'
  BY <1>a, IdAssumption, RowAssumption
     DEF Inv, TypeOK, Wellformed, PendingCommitted, BackupUpdate, Updated, Put,
         Moves, Idle, histVars
<1>5. SpentGone'
  BY <1>a, IdAssumption, RowAssumption
     DEF Inv, TypeOK, Wellformed, SpentGone, Has, BackupUpdate, Updated, Put,
         Moves, Idle, histVars
<1>6. PolicyFrozen'
  BY <1>a, IdAssumption, RowAssumption
     DEF Inv, TypeOK, Wellformed, PolicyFrozen, Has, SamePolicy, BackupUpdate,
         Updated, Put, Moves, Idle, histVars
<1>7. BackupFaithful'
  BY <1>a, IdAssumption, RowAssumption
     DEF Inv, TypeOK, Wellformed, SnapshotsAgree, Holding, PendingCommitted,
         BackupFaithful, Has, SamePolicy, BackupUpdate, Updated, Put, Moves,
         Idle, histVars
<1>8. ClaimExclusive'
  BY <1>a, IdAssumption, RowAssumption
     DEF Inv, TypeOK, ClaimExclusive, Claimant, Has, BackupUpdate, Updated, Put,
         Moves, Idle, histVars
<1> QED  BY <1>1, <1>2, <1>3, <1>4, <1>5, <1>6, <1>7, <1>8 DEF Inv

\* A delivery spends the claim it belongs to.
LEMMA DeliverInv ==
  ASSUME Inv, NEW r \in Req, Deliver(r)
  PROVE  Inv'
<1>a. Moves(r, {}) /\ req'[r] = Idle
  BY FinishMoves DEF Inv, Deliver
<1>1. TypeOK'
  BY <1>a, IdAssumption, RowAssumption
     DEF Inv, TypeOK, Wellformed, Deliver, Bump, ServedCap, Moves, Idle, dbVars
<1>2. Wellformed'
  BY <1>a, IdAssumption, RowAssumption
     DEF Inv, TypeOK, Wellformed, Deliver, Bump, ServedCap, Moves, Idle, dbVars
<1>3. SnapshotsAgree'
  BY <1>a, IdAssumption, RowAssumption
     DEF Inv, TypeOK, Wellformed, SnapshotsAgree, Holding, Has, SamePolicy,
         Deliver, Bump, ServedCap, Moves, Idle, dbVars
<1>4. PendingCommitted'
  BY <1>a, IdAssumption, RowAssumption
     DEF Inv, TypeOK, Wellformed, PendingCommitted, Deliver, Bump, ServedCap,
         Moves, Idle, dbVars
<1>5. SpentGone'
  BY <1>a, IdAssumption, RowAssumption
     DEF Inv, TypeOK, Wellformed, SpentGone, Has, SnapshotsAgree, Holding,
         ClaimExclusive, Claimant, Claiming, OneUse, Deliver, Bump, ServedCap,
         Moves, Idle, dbVars
<1>6. PolicyFrozen'
  BY <1>a, IdAssumption, RowAssumption
     DEF Inv, TypeOK, Wellformed, PolicyFrozen, Has, SamePolicy, Deliver, Bump,
         ServedCap, Moves, Idle, dbVars
<1>7. BackupFaithful'
  BY <1>a, IdAssumption, RowAssumption
     DEF Inv, TypeOK, Wellformed, SnapshotsAgree, Holding, PendingCommitted,
         BackupFaithful, Has, SamePolicy, Deliver, Bump, ServedCap, Moves, Idle,
         dbVars
<1>8. ClaimExclusive'
  BY <1>a, IdAssumption, RowAssumption
     DEF Inv, TypeOK, ClaimExclusive, Claimant, Has, Deliver, Bump, ServedCap,
         Moves, Idle, dbVars
<1> QED  BY <1>1, <1>2, <1>3, <1>4, <1>5, <1>6, <1>7, <1>8 DEF Inv

\* A failed backup statement changes no table.
LEMMA BackupErrorInv ==
  ASSUME Inv, NEW r \in Req, BackupError(r)
  PROVE  Inv'
<1>a. /\ UNCHANGED <<dbVars, clock, cleaning, histVars>>
      /\ req[r].pc \in {"bkInsert", "bkDelete", "bkUpdate"} /\ req[r].id \in Id
  BY DEF BackupError, Inv, Wellformed
<1>b. /\ Moves(r, {"deliver"})
      /\ req'[r].pc = "deliver" => req[r].pc = "bkDelete" /\ req[r].op # "delete"
  BY FinishMoves, GotoMoves DEF BackupError, Inv, Moves, Idle, PC
<1>1. TypeOK'
  BY <1>a, <1>b, IdAssumption, RowAssumption
     DEF Inv, TypeOK, Wellformed, Moves, Idle, dbVars, histVars
<1>2. Wellformed'
  BY <1>a, <1>b, IdAssumption, RowAssumption
     DEF Inv, TypeOK, Wellformed, Moves, Idle, dbVars, histVars
<1>3. SnapshotsAgree'
  BY <1>a, <1>b, IdAssumption, RowAssumption
     DEF Inv, TypeOK, Wellformed, SnapshotsAgree, Holding, Has, SamePolicy,
         Moves, Idle, dbVars, histVars
<1>4. PendingCommitted'
  BY <1>a, <1>b, IdAssumption, RowAssumption
     DEF Inv, TypeOK, Wellformed, PendingCommitted, Moves, Idle, dbVars,
         histVars
<1>5. SpentGone'
  BY <1>a, <1>b, IdAssumption, RowAssumption
     DEF Inv, TypeOK, Wellformed, SpentGone, Has, Moves, Idle, dbVars, histVars
<1>6. PolicyFrozen'
  BY <1>a, <1>b, IdAssumption, RowAssumption
     DEF Inv, TypeOK, Wellformed, PolicyFrozen, Has, SamePolicy, Moves, Idle,
         dbVars, histVars
<1>7. BackupFaithful'
  BY <1>a, <1>b, IdAssumption, RowAssumption
     DEF Inv, TypeOK, Wellformed, SnapshotsAgree, Holding, PendingCommitted,
         BackupFaithful, Has, SamePolicy, Moves, Idle, dbVars, histVars
<1>8. ClaimExclusive'
  BY <1>a, <1>b, IdAssumption, RowAssumption
     DEF Inv, TypeOK, ClaimExclusive, Claimant, Has, Moves, Idle, dbVars,
         histVars
<1> QED  BY <1>1, <1>2, <1>3, <1>4, <1>5, <1>6, <1>7, <1>8 DEF Inv

\* A failed primary statement serves nothing, whether it took effect or not.
LEMMA PrimaryErrorInv ==
  ASSUME Inv, NEW r \in Req, PrimaryError(r)
  PROVE  Inv'
<1>a. /\ UNCHANGED <<backup, clock, cleaning, burnServed>>
      /\ req[r].pc \in {"insert", "get", "expire", "claim", "delete", "update"}
      /\ req[r].pc # "insert" => req[r].id \in Id
  BY DEF PrimaryError, Inv, Wellformed
<1>b. /\ Moves(r, {"deliver"})
      /\ req'[r].pc = "deliver" => req[r].pc = "delete" /\ req[r].op = "lax"
  BY FinishMoves, AfterFailedDeleteMoves DEF PrimaryError, Inv, Moves, Idle
<1>1. CASE UNCHANGED <<primary, issued, versions>>
  <2>1. TypeOK'
    BY <1>1, <1>a, <1>b, IdAssumption, RowAssumption
       DEF Inv, TypeOK, Wellformed, Moves, Idle
  <2>2. Wellformed'
    BY <1>1, <1>a, <1>b, IdAssumption, RowAssumption
       DEF Inv, TypeOK, Wellformed, Moves, Idle
  <2>3. SnapshotsAgree'
    BY <1>1, <1>a, <1>b, IdAssumption, RowAssumption
       DEF Inv, TypeOK, Wellformed, SnapshotsAgree, Holding, Has, SamePolicy,
           Moves, Idle
  <2>4. PendingCommitted'
    BY <1>1, <1>a, <1>b, IdAssumption, RowAssumption
       DEF Inv, TypeOK, Wellformed, PendingCommitted, Moves, Idle
  <2>5. SpentGone'
    BY <1>1, <1>a, <1>b, IdAssumption, RowAssumption
       DEF Inv, TypeOK, Wellformed, SpentGone, Has, Moves, Idle
  <2>6. PolicyFrozen'
    BY <1>1, <1>a, <1>b, IdAssumption, RowAssumption
       DEF Inv, TypeOK, Wellformed, PolicyFrozen, Has, SamePolicy, Moves, Idle
  <2>7. BackupFaithful'
    BY <1>1, <1>a, <1>b, IdAssumption, RowAssumption
       DEF Inv, TypeOK, Wellformed, SnapshotsAgree, Holding, PendingCommitted,
           BackupFaithful, Has, SamePolicy, Moves, Idle
  <2>8. ClaimExclusive'
    <3>1. \A s \in Req, i \in Id : Claimant(s, i)' => Claimant(s, i)
      BY <1>1, <1>a, <1>b DEF Claimant, Claiming, Moves, Idle
    <3> QED  BY <3>1, <1>1, <1>a DEF Inv, ClaimExclusive, Has
  <2> QED  BY <2>1, <2>2, <2>3, <2>4, <2>5, <2>6, <2>7, <2>8 DEF Inv
<1>2. CASE req[r].pc = "insert" /\ \E id \in Id : InsertPrimary(r, id)
  <2>a. PICK id \in Id : InsertPrimary(r, id)
    BY <1>2
  <2>b. /\ primary' = [primary EXCEPT ![id] = req[r].row]
        /\ issued' = [issued EXCEPT ![id] = req[r].row]
        /\ versions' = [versions EXCEPT ![id] = {req[r].row.body}]
        /\ issued[id] = NoRow
        /\ req[r].row \in Row
    BY <1>2, <2>a DEF InsertPrimary, Put, Inv, Wellformed
  <2>1. TypeOK'
    BY <1>2, <1>a, <1>b, <2>b, IdAssumption, RowAssumption
       DEF Inv, TypeOK, Wellformed, Moves, Idle, Row
  <2>2. Wellformed'
    BY <1>2, <1>a, <1>b, <2>b, IdAssumption, RowAssumption
       DEF Inv, TypeOK, Wellformed, Moves, Idle, Row
  <2>3. SnapshotsAgree'
    BY <1>2, <1>a, <1>b, <2>b, IdAssumption, RowAssumption
       DEF Inv, TypeOK, Wellformed, SnapshotsAgree, Holding, Has, SamePolicy,
           Moves, Idle, Row
  <2>4. PendingCommitted'
    BY <1>2, <1>a, <1>b, <2>b, IdAssumption, RowAssumption
       DEF Inv, TypeOK, Wellformed, PendingCommitted, SnapshotsAgree, Holding,
           Has, Moves, Idle, Row
  <2>5. SpentGone'
    BY <1>2, <1>a, <1>b, <2>b, IdAssumption, RowAssumption
       DEF Inv, TypeOK, Wellformed, SpentGone, Has, Moves, Idle, Row
  <2>6. PolicyFrozen'
    BY <1>2, <1>a, <1>b, <2>b, IdAssumption, RowAssumption
       DEF Inv, TypeOK, Wellformed, PolicyFrozen, Has, SamePolicy, Moves, Idle,
           Row
  <2>7. BackupFaithful'
    BY <1>2, <1>a, <1>b, <2>b, IdAssumption, RowAssumption
       DEF Inv, TypeOK, Wellformed, SnapshotsAgree, Holding, PendingCommitted,
           BackupFaithful, Has, SamePolicy, Moves, Idle, Row
  <2>8. ClaimExclusive'
    <3>1. \A s \in Req, i \in Id : Claimant(s, i)' => Claimant(s, i) /\ i # id
      BY <1>2, <1>a, <1>b, <2>b
         DEF Inv, SnapshotsAgree, Holding, Claimant, Moves, Idle, Has, Claiming
    <3> QED  BY <3>1, <1>a, <2>b DEF Inv, TypeOK, ClaimExclusive, Has
  <2> QED  BY <2>1, <2>2, <2>3, <2>4, <2>5, <2>6, <2>7, <2>8 DEF Inv
<1>3. CASE /\ req[r].pc \in {"expire", "delete", "claim"}
           /\ primary' = Deleted(primary, req[r].id)
           /\ UNCHANGED <<issued, versions>>
  <2>1. TypeOK'
    BY <1>3, <1>a, <1>b, IdAssumption, RowAssumption
       DEF Inv, TypeOK, Wellformed, Moves, Idle, Deleted
  <2>2. Wellformed'
    BY <1>3, <1>a, <1>b, IdAssumption, RowAssumption
       DEF Inv, TypeOK, Wellformed, Moves, Idle, Deleted
  <2>3. SnapshotsAgree'
    BY <1>3, <1>a, <1>b, IdAssumption, RowAssumption
       DEF Inv, TypeOK, Wellformed, SnapshotsAgree, Holding, Has, SamePolicy,
           Moves, Idle, Deleted
  <2>4. PendingCommitted'
    BY <1>3, <1>a, <1>b, IdAssumption, RowAssumption
       DEF Inv, TypeOK, Wellformed, PendingCommitted, Moves, Idle, Deleted
  <2>5. SpentGone'
    BY <1>3, <1>a, <1>b, IdAssumption, RowAssumption
       DEF Inv, TypeOK, Wellformed, SpentGone, Has, Moves, Idle, Deleted
  <2>6. PolicyFrozen'
    BY <1>3, <1>a, <1>b, IdAssumption, RowAssumption
       DEF Inv, TypeOK, Wellformed, PolicyFrozen, Has, SamePolicy, Moves, Idle,
           Deleted
  <2>7. BackupFaithful'
    BY <1>3, <1>a, <1>b, IdAssumption, RowAssumption
       DEF Inv, TypeOK, Wellformed, SnapshotsAgree, Holding, PendingCommitted,
           BackupFaithful, Has, SamePolicy, Moves, Idle, Deleted
  <2>8. ClaimExclusive'
    <3>1. \A s \in Req, i \in Id : Claimant(s, i)' => Claimant(s, i)
      BY <1>3, <1>a, <1>b DEF Claimant, Claiming, Moves, Idle
    <3> QED  BY <3>1, <1>3, <1>a DEF Inv, TypeOK, ClaimExclusive, Has, Deleted
  <2> QED  BY <2>1, <2>2, <2>3, <2>4, <2>5, <2>6, <2>7, <2>8 DEF Inv
<1>4. CASE /\ req[r].pc = "update" /\ Has(primary, req[r].id)
           /\ \E b \in Body :
                /\ primary' = Updated(primary, req[r].id, [req[r].row EXCEPT !.body = b])
                /\ versions' = [versions EXCEPT ![req[r].id] = @ \cup {b}]
           /\ UNCHANGED issued
  <2>a. PICK b \in Body :
          /\ primary' = [primary EXCEPT ![req[r].id] = [req[r].row EXCEPT !.body = b]]
          /\ versions' = [versions EXCEPT ![req[r].id] = @ \cup {b}]
    BY <1>4 DEF Updated, Put
  <2> DEFINE row == [req[r].row EXCEPT !.body = b]
  <2>b. /\ req[r].id \in Id /\ Has(issued, req[r].id) /\ UNCHANGED issued
        /\ row \in Row /\ row.body = b /\ SamePolicy(row, issued[req[r].id])
        /\ primary' = [primary EXCEPT ![req[r].id] = row]
        /\ Has(primary, req[r].id) /\ req[r].pc = "update"
    BY <1>4, <1>a, <2>a
       DEF Inv, Wellformed, SnapshotsAgree, Holding, Row, SamePolicy
  <2> HIDE DEF row
  <2>1. TypeOK'
    BY <1>a, <1>b, <2>a, <2>b, IdAssumption, RowAssumption
       DEF Inv, TypeOK, Wellformed, Moves, Idle
  <2>2. Wellformed'
    BY <1>a, <1>b, <2>a, <2>b, IdAssumption, RowAssumption
       DEF Inv, TypeOK, Wellformed, Moves, Idle
  <2>3. SnapshotsAgree'
    BY <1>a, <1>b, <2>a, <2>b, IdAssumption, RowAssumption
       DEF Inv, TypeOK, Wellformed, SnapshotsAgree, Holding, Has, SamePolicy,
           Moves, Idle
  <2>4. PendingCommitted'
    BY <1>a, <1>b, <2>a, <2>b, IdAssumption, RowAssumption
       DEF Inv, TypeOK, Wellformed, PendingCommitted, Moves, Idle
  <2>5. SpentGone'
    BY <1>a, <1>b, <2>a, <2>b, IdAssumption, RowAssumption
       DEF Inv, TypeOK, Wellformed, SpentGone, Has, Moves, Idle
  <2>6. PolicyFrozen'
    BY ZenonT(30), <1>a, <1>b, <2>a, <2>b, IdAssumption, RowAssumption
       DEF Inv, TypeOK, Wellformed, PolicyFrozen, Has, SamePolicy, Moves, Idle
  <2>7. BackupFaithful'
    BY <1>a, <1>b, <2>a, <2>b, IdAssumption, RowAssumption
       DEF Inv, TypeOK, Wellformed, SnapshotsAgree, Holding, PendingCommitted,
           BackupFaithful, Has, SamePolicy, Moves, Idle
  <2>8. ClaimExclusive'
    <3>1. \A s \in Req, i \in Id : Claimant(s, i)' => Claimant(s, i)
      BY <1>a, <1>b, <2>b DEF Claimant, Claiming, Moves, Idle
    <3> QED  BY <3>1, <2>b, <1>a DEF Inv, TypeOK, ClaimExclusive, Has
  <2> QED  BY <2>1, <2>2, <2>3, <2>4, <2>5, <2>6, <2>7, <2>8 DEF Inv
<1> QED  BY <1>1, <1>2, <1>3, <1>4 DEF PrimaryError

\* A restart forgets every request and keeps both tables.
LEMMA CrashInv ==
  ASSUME Inv, Crash
  PROVE  Inv'
<1>1. TypeOK'
  BY IdAssumption, RowAssumption, TimeAssumption
     DEF Inv, TypeOK, Wellformed, Purged, Idle, Request, PC, Handlers, dbVars,
         histVars, Crash
<1>2. Wellformed'
  BY IdAssumption, RowAssumption, TimeAssumption
     DEF Inv, TypeOK, Wellformed, Purged, Idle, Request, PC, Handlers, dbVars,
         histVars, Crash
<1>3. SnapshotsAgree'
  BY IdAssumption, RowAssumption, TimeAssumption
     DEF Inv, TypeOK, Wellformed, SnapshotsAgree, Holding, Has, SamePolicy,
         Purged, Idle, Request, PC, Handlers, dbVars, histVars, Crash
<1>4. PendingCommitted'
  BY IdAssumption, RowAssumption, TimeAssumption
     DEF Inv, TypeOK, Wellformed, PendingCommitted, Purged, Idle, Request, PC,
         Handlers, dbVars, histVars, Crash
<1>5. SpentGone'
  BY IdAssumption, RowAssumption, TimeAssumption
     DEF Inv, TypeOK, Wellformed, SpentGone, Has, Purged, Idle, Request, PC,
         Handlers, dbVars, histVars, Crash
<1>6. PolicyFrozen'
  BY IdAssumption, RowAssumption, TimeAssumption
     DEF Inv, TypeOK, Wellformed, PolicyFrozen, Has, SamePolicy, Purged, Idle,
         Request, PC, Handlers, dbVars, histVars, Crash
<1>7. BackupFaithful'
  BY IdAssumption, RowAssumption, TimeAssumption
     DEF Inv, TypeOK, Wellformed, SnapshotsAgree, Holding, PendingCommitted,
         BackupFaithful, Has, SamePolicy, Purged, Idle, Request, PC, Handlers,
         dbVars, histVars, Crash
<1>8. ClaimExclusive'
  BY IdAssumption, RowAssumption, TimeAssumption
     DEF Inv, TypeOK, ClaimExclusive, Claimant, Has, Purged, Idle, Request, PC,
         Handlers, dbVars, histVars, Crash
<1> QED  BY <1>1, <1>2, <1>3, <1>4, <1>5, <1>6, <1>7, <1>8 DEF Inv

\* A purge only removes rows of the primary.
LEMMA CleanPrimaryInv ==
  ASSUME Inv, NEW c \in Cleaner, CleanPrimary(c)
  PROVE  Inv'
<1>1. TypeOK'
  BY IdAssumption, RowAssumption, TimeAssumption
     DEF Inv, TypeOK, Wellformed, Purged, Idle, Request, PC, Handlers, dbVars,
         histVars, CleanPrimary
<1>2. Wellformed'
  BY IdAssumption, RowAssumption, TimeAssumption
     DEF Inv, TypeOK, Wellformed, Purged, Idle, Request, PC, Handlers, dbVars,
         histVars, CleanPrimary
<1>3. SnapshotsAgree'
  BY IdAssumption, RowAssumption, TimeAssumption
     DEF Inv, TypeOK, Wellformed, SnapshotsAgree, Holding, Has, SamePolicy,
         Purged, Idle, Request, PC, Handlers, dbVars, histVars, CleanPrimary
<1>4. PendingCommitted'
  BY IdAssumption, RowAssumption, TimeAssumption
     DEF Inv, TypeOK, Wellformed, PendingCommitted, Purged, Idle, Request, PC,
         Handlers, dbVars, histVars, CleanPrimary
<1>5. SpentGone'
  BY IdAssumption, RowAssumption, TimeAssumption
     DEF Inv, TypeOK, Wellformed, SpentGone, Has, Purged, Idle, Request, PC,
         Handlers, dbVars, histVars, CleanPrimary
<1>6. PolicyFrozen'
  BY IdAssumption, RowAssumption, TimeAssumption
     DEF Inv, TypeOK, Wellformed, PolicyFrozen, Has, SamePolicy, Purged, Idle,
         Request, PC, Handlers, dbVars, histVars, CleanPrimary
<1>7. BackupFaithful'
  BY IdAssumption, RowAssumption, TimeAssumption
     DEF Inv, TypeOK, Wellformed, SnapshotsAgree, Holding, PendingCommitted,
         BackupFaithful, Has, SamePolicy, Purged, Idle, Request, PC, Handlers,
         dbVars, histVars, CleanPrimary
<1>8. ClaimExclusive'
  BY IdAssumption, RowAssumption, TimeAssumption
     DEF Inv, TypeOK, ClaimExclusive, Claimant, Has, Purged, Idle, Request, PC,
         Handlers, dbVars, histVars, CleanPrimary
<1> QED  BY <1>1, <1>2, <1>3, <1>4, <1>5, <1>6, <1>7, <1>8 DEF Inv

\* A purge that reports an error only removes rows of the primary.
LEMMA CleanPrimaryErrorInv ==
  ASSUME Inv, NEW c \in Cleaner, CleanPrimaryError(c)
  PROVE  Inv'
<1>1. TypeOK'
  BY IdAssumption, RowAssumption, TimeAssumption
     DEF Inv, TypeOK, Wellformed, Purged, Idle, Request, PC, Handlers, dbVars,
         histVars, CleanPrimaryError
<1>2. Wellformed'
  BY IdAssumption, RowAssumption, TimeAssumption
     DEF Inv, TypeOK, Wellformed, Purged, Idle, Request, PC, Handlers, dbVars,
         histVars, CleanPrimaryError
<1>3. SnapshotsAgree'
  BY IdAssumption, RowAssumption, TimeAssumption
     DEF Inv, TypeOK, Wellformed, SnapshotsAgree, Holding, Has, SamePolicy,
         Purged, Idle, Request, PC, Handlers, dbVars, histVars,
         CleanPrimaryError
<1>4. PendingCommitted'
  BY IdAssumption, RowAssumption, TimeAssumption
     DEF Inv, TypeOK, Wellformed, PendingCommitted, Purged, Idle, Request, PC,
         Handlers, dbVars, histVars, CleanPrimaryError
<1>5. SpentGone'
  BY IdAssumption, RowAssumption, TimeAssumption
     DEF Inv, TypeOK, Wellformed, SpentGone, Has, Purged, Idle, Request, PC,
         Handlers, dbVars, histVars, CleanPrimaryError
<1>6. PolicyFrozen'
  BY IdAssumption, RowAssumption, TimeAssumption
     DEF Inv, TypeOK, Wellformed, PolicyFrozen, Has, SamePolicy, Purged, Idle,
         Request, PC, Handlers, dbVars, histVars, CleanPrimaryError
<1>7. BackupFaithful'
  BY IdAssumption, RowAssumption, TimeAssumption
     DEF Inv, TypeOK, Wellformed, SnapshotsAgree, Holding, PendingCommitted,
         BackupFaithful, Has, SamePolicy, Purged, Idle, Request, PC, Handlers,
         dbVars, histVars, CleanPrimaryError
<1>8. ClaimExclusive'
  BY IdAssumption, RowAssumption, TimeAssumption
     DEF Inv, TypeOK, ClaimExclusive, Claimant, Has, Purged, Idle, Request, PC,
         Handlers, dbVars, histVars, CleanPrimaryError
<1> QED  BY <1>1, <1>2, <1>3, <1>4, <1>5, <1>6, <1>7, <1>8 DEF Inv

\* A purge of the copy only removes rows of the copy.
LEMMA CleanBackupInv ==
  ASSUME Inv, NEW c \in Cleaner, CleanBackup(c)
  PROVE  Inv'
<1>1. TypeOK'
  BY IdAssumption, RowAssumption, TimeAssumption
     DEF Inv, TypeOK, Wellformed, Purged, Idle, Request, PC, Handlers, dbVars,
         histVars, CleanBackup
<1>2. Wellformed'
  BY IdAssumption, RowAssumption, TimeAssumption
     DEF Inv, TypeOK, Wellformed, Purged, Idle, Request, PC, Handlers, dbVars,
         histVars, CleanBackup
<1>3. SnapshotsAgree'
  BY IdAssumption, RowAssumption, TimeAssumption
     DEF Inv, TypeOK, Wellformed, SnapshotsAgree, Holding, Has, SamePolicy,
         Purged, Idle, Request, PC, Handlers, dbVars, histVars, CleanBackup
<1>4. PendingCommitted'
  BY IdAssumption, RowAssumption, TimeAssumption
     DEF Inv, TypeOK, Wellformed, PendingCommitted, Purged, Idle, Request, PC,
         Handlers, dbVars, histVars, CleanBackup
<1>5. SpentGone'
  BY IdAssumption, RowAssumption, TimeAssumption
     DEF Inv, TypeOK, Wellformed, SpentGone, Has, Purged, Idle, Request, PC,
         Handlers, dbVars, histVars, CleanBackup
<1>6. PolicyFrozen'
  BY IdAssumption, RowAssumption, TimeAssumption
     DEF Inv, TypeOK, Wellformed, PolicyFrozen, Has, SamePolicy, Purged, Idle,
         Request, PC, Handlers, dbVars, histVars, CleanBackup
<1>7. BackupFaithful'
  BY IdAssumption, RowAssumption, TimeAssumption
     DEF Inv, TypeOK, Wellformed, SnapshotsAgree, Holding, PendingCommitted,
         BackupFaithful, Has, SamePolicy, Purged, Idle, Request, PC, Handlers,
         dbVars, histVars, CleanBackup
<1>8. ClaimExclusive'
  BY IdAssumption, RowAssumption, TimeAssumption
     DEF Inv, TypeOK, ClaimExclusive, Claimant, Has, Purged, Idle, Request, PC,
         Handlers, dbVars, histVars, CleanBackup
<1> QED  BY <1>1, <1>2, <1>3, <1>4, <1>5, <1>6, <1>7, <1>8 DEF Inv

\* A failed purge of the copy changes no table.
LEMMA CleanBackupErrorInv ==
  ASSUME Inv, NEW c \in Cleaner, CleanBackupError(c)
  PROVE  Inv'
<1>1. TypeOK'
  BY IdAssumption, RowAssumption, TimeAssumption
     DEF Inv, TypeOK, Wellformed, Purged, Idle, Request, PC, Handlers, dbVars,
         histVars, CleanBackupError
<1>2. Wellformed'
  BY IdAssumption, RowAssumption, TimeAssumption
     DEF Inv, TypeOK, Wellformed, Purged, Idle, Request, PC, Handlers, dbVars,
         histVars, CleanBackupError
<1>3. SnapshotsAgree'
  BY IdAssumption, RowAssumption, TimeAssumption
     DEF Inv, TypeOK, Wellformed, SnapshotsAgree, Holding, Has, SamePolicy,
         Purged, Idle, Request, PC, Handlers, dbVars, histVars, CleanBackupError
<1>4. PendingCommitted'
  BY IdAssumption, RowAssumption, TimeAssumption
     DEF Inv, TypeOK, Wellformed, PendingCommitted, Purged, Idle, Request, PC,
         Handlers, dbVars, histVars, CleanBackupError
<1>5. SpentGone'
  BY IdAssumption, RowAssumption, TimeAssumption
     DEF Inv, TypeOK, Wellformed, SpentGone, Has, Purged, Idle, Request, PC,
         Handlers, dbVars, histVars, CleanBackupError
<1>6. PolicyFrozen'
  BY IdAssumption, RowAssumption, TimeAssumption
     DEF Inv, TypeOK, Wellformed, PolicyFrozen, Has, SamePolicy, Purged, Idle,
         Request, PC, Handlers, dbVars, histVars, CleanBackupError
<1>7. BackupFaithful'
  BY IdAssumption, RowAssumption, TimeAssumption
     DEF Inv, TypeOK, Wellformed, SnapshotsAgree, Holding, PendingCommitted,
         BackupFaithful, Has, SamePolicy, Purged, Idle, Request, PC, Handlers,
         dbVars, histVars, CleanBackupError
<1>8. ClaimExclusive'
  BY IdAssumption, RowAssumption, TimeAssumption
     DEF Inv, TypeOK, ClaimExclusive, Claimant, Has, Purged, Idle, Request, PC,
         Handlers, dbVars, histVars, CleanBackupError
<1> QED  BY <1>1, <1>2, <1>3, <1>4, <1>5, <1>6, <1>7, <1>8 DEF Inv

\* Time only makes more pastes expire.
LEMMA TickInv ==
  ASSUME Inv, Tick
  PROVE  Inv'
<1>1. TypeOK'
  BY IdAssumption, RowAssumption, TimeAssumption
     DEF Inv, TypeOK, Wellformed, Purged, Idle, Request, PC, Handlers, dbVars,
         histVars, Tick
<1>2. Wellformed'
  <2>1. \A r \in Req : req[r].pc = "expire" => Expired(req[r].row, clock')
    BY DEF Inv, TypeOK, Wellformed, SnapshotsAgree, Holding, Row, Expired, Tick
  <2> QED  BY <2>1 DEF Inv, Wellformed, Tick
<1>3. SnapshotsAgree'
  BY IdAssumption, RowAssumption, TimeAssumption
     DEF Inv, TypeOK, Wellformed, SnapshotsAgree, Holding, Has, SamePolicy,
         Purged, Idle, Request, PC, Handlers, dbVars, histVars, Tick
<1>4. PendingCommitted'
  BY IdAssumption, RowAssumption, TimeAssumption
     DEF Inv, TypeOK, Wellformed, PendingCommitted, Purged, Idle, Request, PC,
         Handlers, dbVars, histVars, Tick
<1>5. SpentGone'
  BY IdAssumption, RowAssumption, TimeAssumption
     DEF Inv, TypeOK, Wellformed, SpentGone, Has, Purged, Idle, Request, PC,
         Handlers, dbVars, histVars, Tick
<1>6. PolicyFrozen'
  BY IdAssumption, RowAssumption, TimeAssumption
     DEF Inv, TypeOK, Wellformed, PolicyFrozen, Has, SamePolicy, Purged, Idle,
         Request, PC, Handlers, dbVars, histVars, Tick
<1>7. BackupFaithful'
  BY IdAssumption, RowAssumption, TimeAssumption
     DEF Inv, TypeOK, Wellformed, SnapshotsAgree, Holding, PendingCommitted,
         BackupFaithful, Has, SamePolicy, Purged, Idle, Request, PC, Handlers,
         dbVars, histVars, Tick
<1>8. ClaimExclusive'
  BY IdAssumption, RowAssumption, TimeAssumption
     DEF Inv, TypeOK, ClaimExclusive, Claimant, Has, Purged, Idle, Request, PC,
         Handlers, dbVars, histVars, Tick
<1> QED  BY <1>1, <1>2, <1>3, <1>4, <1>5, <1>6, <1>7, <1>8 DEF Inv

-----------------------------------------------------------------------------
\* The inductive invariant.

\* The empty tables satisfy the inductive invariant.
LEMMA InitInv ==
  Init => Inv
  BY IdAssumption, RowAssumption, TimeAssumption
     DEF Init, Inv, TypeOK, Wellformed, SnapshotsAgree, Holding, PendingCommitted,
         SpentGone, PolicyFrozen, BackupFaithful, ClaimExclusive, Claimant, Has,
         Idle, Request, PC, Handlers, ServedCap

\* A step that changes no variable changes nothing the invariant speaks of.
LEMMA StutterInv ==
  ASSUME Inv, UNCHANGED vars
  PROVE  Inv'
  BY DEF vars, Inv, TypeOK, Wellformed, SnapshotsAgree, PendingCommitted,
         SpentGone, PolicyFrozen, BackupFaithful, ClaimExclusive, Claimant, Has

\* Every step, or none, keeps the inductive invariant.
LEMMA NextInv ==
  ASSUME Inv, [Next]_vars
  PROVE  Inv'
<1>1. ASSUME NEW r \in Req, Step(r)
      PROVE  Inv'
  BY <1>1, BeginCreateInv, PasteAddInv, BackupInsertInv, BeginInv, PasteGetInv,
     PasteExpireInv, PasteDeleteIfOneUseInv, PasteDeleteInv, BackupDeleteInv,
     PasteUpdateInv, BackupUpdateInv, DeliverInv, PrimaryErrorInv, BackupErrorInv
     DEF Step
<1>2. ASSUME NEW c \in Cleaner, Clean(c)
      PROVE  Inv'
  BY <1>2, CleanPrimaryInv, CleanPrimaryErrorInv, CleanBackupInv,
     CleanBackupErrorInv
     DEF Clean
<1> QED  BY <1>1, <1>2, CrashInv, TickInv, StutterInv DEF Next

\* The inductive invariant holds in every reachable state.
THEOREM Invariance == Spec => []Inv
<1>1. Init => Inv
  BY InitInv
<1>2. Inv /\ [Next]_vars => Inv'
  BY NextInv
<1> QED  BY <1>1, <1>2, PTL DEF Spec

\* Type correctness of the paste table, its copy and the requests.
THEOREM TypeCorrect == Spec => []TypeOK
<1>1. Inv => TypeOK
  BY DEF Inv
<1> QED  BY <1>1, Invariance, PTL

\* A one-use paste is served at most once by the handlers that delete first,
\* for any number of concurrent requests, edits, purges, faults and crashes.
THEOREM ServedAtMostOnce == Spec => []BurnOnce
<1>1. Inv => BurnOnce
  <2> SUFFICES ASSUME Inv, NEW id \in Id PROVE burnServed[id] <= 1
    BY DEF BurnOnce
  <2>1. burnServed[id] = 0 \/ burnServed[id] = 1
    BY DEF Inv, SpentGone
  <2> QED  BY <2>1
<1> QED  BY <1>1, Invariance, PTL

\* Of all readers under way at most one may still serve a one-use paste.
THEOREM ClaimsExclusive == Spec => []ClaimExclusive
<1>1. Inv => ClaimExclusive
  BY DEF Inv
<1> QED  BY <1>1, Invariance, PTL

\* Edits racing with anything keep expiry, one-use, private and editable.
THEOREM PolicyNeverChanges == Spec => []PolicyFrozen
<1>1. Inv => PolicyFrozen
  BY DEF Inv
<1> QED  BY <1>1, Invariance, PTL

\* The copy holds only contents that the primary committed.
THEOREM CopyIsFaithful == Spec => []BackupFaithful
<1>1. Inv => BackupFaithful
  BY DEF Inv
<1> QED  BY <1>1, Invariance, PTL

-----------------------------------------------------------------------------
\* Action properties.

\* The statements that can change which rows the primary has: an insert under
\* a new id, or deletes, each with its reason.
LEMMA PrimarySteps ==
  ASSUME Inv, [Next]_vars, NEW id \in Id
  PROVE  /\ Has(issued, id) /\ ~Has(primary, id) => ~Has(primary', id)
         /\ Has(primary, id) /\ ~Has(primary', id) =>
              \/ Expired(primary[id], clock)
              \/ \E r \in Req :
                   /\ req[r].id = id
                   /\ \/ req[r].op = "delete"
                      \/ OneUse(primary[id]) /\ req[r].op \in Claiming \cup {"lax"}
<1> DEFINE Goal ==
         /\ Has(issued, id) /\ ~Has(primary, id) => ~Has(primary', id)
         /\ Has(primary, id) /\ ~Has(primary', id) =>
              \/ Expired(primary[id], clock)
              \/ \E r \in Req :
                   /\ req[r].id = id
                   /\ \/ req[r].op = "delete"
                      \/ OneUse(primary[id]) /\ req[r].op \in Claiming \cup {"lax"}
<1>1. CASE UNCHANGED primary
  BY <1>1 DEF Has
<1>2. ASSUME NEW r \in Req, NEW new \in Id, InsertPrimary(r, new), req[r].pc = "insert"
      PROVE  Goal
  BY <1>2, RowAssumption DEF Inv, TypeOK, Wellformed, InsertPrimary, Put, Has
<1>3. ASSUME NEW r \in Req, primary' = Deleted(primary, req[r].id),
             req[r].pc \in {"expire", "claim", "delete"}
      PROVE  Goal
  <2>1. Has(primary, id) /\ ~Has(primary', id) => id = req[r].id
    BY <1>3 DEF Inv, TypeOK, Deleted, Has
  <2>2. ~Has(primary, id) => ~Has(primary', id)
    BY <1>3 DEF Inv, TypeOK, Deleted, Has
  <2>3. ASSUME Has(primary, id), id = req[r].id, req[r].op # "delete"
        PROVE  SamePolicy(primary[id], req[r].row)
    BY <1>3, <2>3 DEF Inv, PolicyFrozen, SnapshotsAgree, Holding, SamePolicy
  <2>4. CASE req[r].pc = "expire" /\ req[r].op # "delete"
    BY <2>1, <2>2, <2>3, <2>4 DEF Inv, Wellformed, SamePolicy, Expired
  <2>5. CASE req[r].op = "delete"
    BY <2>1, <2>2, <2>5
  <2>6. CASE req[r].pc \in {"claim", "delete"} /\ req[r].op # "delete"
    BY <2>1, <2>2, <2>3, <2>6 DEF Inv, Wellformed, SamePolicy, OneUse, Claiming
  <2> QED  BY <1>3, <2>4, <2>5, <2>6
<1>4. ASSUME NEW r \in Req, NEW row \in Row, primary' = Updated(primary, req[r].id, row)
      PROVE  Goal
  BY <1>4, RowAssumption DEF Inv, TypeOK, Updated, Put, Has
<1>5. CASE primary' = Purged(primary, clock)
  BY <1>5 DEF Purged, Has
<1>6. ASSUME NEW r \in Req, NEW b \in Body, req[r].pc = "update"
      PROVE  [req[r].row EXCEPT !.body = b] \in Row
  BY <1>6 DEF Inv, SnapshotsAgree, Holding, Row
<1>7. ASSUME NEW r \in Req, Step(r)
      PROVE  Goal
  <2>1. CASE PasteAdd(r)
    BY <1>2, <2>1 DEF PasteAdd
  <2>2. CASE PasteExpire(r) \/ PasteDeleteIfOneUse(r) \/ PasteDelete(r)
    BY <1>1, <1>3, <2>2 DEF PasteExpire, PasteDeleteIfOneUse, PasteDelete
  <2>3. CASE PasteUpdate(r)
    BY <1>4, <1>6, <2>3 DEF PasteUpdate
  <2>4. CASE PrimaryError(r)
    BY <1>1, <1>2, <1>3, <1>4, <1>6, <2>4 DEF PrimaryError
  <2>5. CASE \/ BeginCreate(r) \/ BackupInsert(r) \/ PasteGet(r) \/ BackupDelete(r)
             \/ BackupUpdate(r) \/ Deliver(r) \/ BackupError(r)
             \/ \E op \in Handler, i \in Id : Begin(r, op, i)
    BY <1>1, <2>5 DEF BeginCreate, BackupInsert, PasteGet, BackupDelete,
                      BackupUpdate, Deliver, BackupError, Begin, dbVars
  <2> QED  BY <1>7, <2>1, <2>2, <2>3, <2>4, <2>5 DEF Step
<1>8. ASSUME NEW c \in Cleaner, Clean(c)
      PROVE  Goal
  BY <1>1, <1>5, <1>8 DEF Clean, CleanPrimary, CleanPrimaryError, CleanBackup,
                          CleanBackupError, dbVars
<1>9. CASE Crash \/ Tick \/ UNCHANGED vars
  BY <1>1, <1>9 DEF Crash, Tick, vars, dbVars
<1> QED  BY <1>7, <1>8, <1>9 DEF Next

\* No step brings back a paste that left the primary.
THEOREM NeverResurrected == Spec => NoResurrection
<1>1. Inv /\ [Next]_vars =>
        [\A id \in Id : Has(issued, id) /\ ~Has(primary, id) => ~Has(primary', id)]_vars
  BY PrimarySteps
<1> QED  BY <1>1, Invariance, PTL DEF Spec, NoResurrection

\* No step removes a paste that nobody asked to remove and that is still good.
THEOREM RemovalsJustified == Spec => RemovalJustified
<1>1. Inv /\ [Next]_vars =>
        [\A id \in Id : Has(primary, id) /\ ~Has(primary', id) =>
           \/ Expired(primary[id], clock)
           \/ \E r \in Req :
                /\ req[r].id = id
                /\ \/ req[r].op = "delete"
                   \/ OneUse(primary[id]) /\ req[r].op \in Claiming \cup {"lax"}]_vars
  BY PrimarySteps
<1> QED  BY <1>1, Invariance, PTL DEF Spec, RemovalJustified

-----------------------------------------------------------------------------
\* PasteStore implements PasteLife.

\* A step that changes neither which rows exist nor who was or may be served
\* is no step of the life of a paste.
LEMMA PhaseKept ==
  ASSUME UNCHANGED <<issued, burnServed, claimed>>,
         \A id \in Id : Has(primary', id) <=> Has(primary, id)
  PROVE  UNCHANGED lifePhase
  BY DEF lifePhase, Has

\* Inserting under a new id publishes a paste.
LEMMA InsertPublishes ==
  ASSUME Inv, NEW r \in Req, NEW new \in Id, InsertPrimary(r, new),
         req[r].pc = "insert", UNCHANGED <<burnServed, claimed>>
  PROVE  Life!Publish(new)
<1>1. /\ ~Has(issued, new) /\ ~Has(primary, new)
      /\ Has(issued', new) /\ Has(primary', new)
      /\ \A id \in Id \ {new} :
           /\ Has(issued', id) <=> Has(issued, id)
           /\ Has(primary', id) <=> Has(primary, id)
  BY RowAssumption
     DEF Inv, TypeOK, Wellformed, PolicyFrozen, InsertPrimary, Put, Has
<1>2. lifePhase[new] = "unborn" /\ lifePhase'[new] = "live"
  BY <1>1 DEF lifePhase
<1>3. \A id \in Id \ {new} : lifePhase'[id] = lifePhase[id]
  BY <1>1 DEF lifePhase
<1>4. lifePhase' = [id \in Id |-> IF id \in {new} THEN "live" ELSE lifePhase[id]]
  BY <1>2, <1>3 DEF lifePhase
<1> QED  BY <1>2, <1>4 DEF Life!Publish, Life!Move

\* Removing a row is the claim of the reader that removed it, or withdraws
\* the paste; removing nothing changes nothing.
LEMMA DeleteEnds ==
  ASSUME Inv, NEW i \in Id, primary' = Deleted(primary, i),
         UNCHANGED <<issued, burnServed>>,
         \A id \in Id \ {i} : id \in claimed' <=> id \in claimed,
         ~Has(primary, i) => UNCHANGED claimed
  PROVE  [Life!Next]_lifePhase
<1>1. \A id \in Id : Has(primary', id) <=> Has(primary, id) /\ id # i
  BY DEF Inv, TypeOK, Deleted, Has
<1>2. CASE ~Has(primary, i)
  BY <1>1, <1>2, PhaseKept
<1>3. CASE Has(primary, i)
  <2>1. Has(issued, i) /\ burnServed[i] = 0 /\ i \in Id
    BY <1>3 DEF Inv, PolicyFrozen, SpentGone
  <2>2. CASE i \in claimed'
    <3>1. Life!Claim(i)
      BY <1>1, <1>3, <2>1, <2>2 DEF Life!Claim, Life!Move, lifePhase, Has
    <3> QED  BY <3>1 DEF Life!Next
  <2>3. CASE i \notin claimed'
    <3>1. Life!Move({i}, "live", "gone")
      BY <1>1, <1>3, <2>1, <2>3 DEF Life!Move, lifePhase, Has
    <3> QED  BY <3>1 DEF Life!Next, Life!Withdraw
  <2> QED  BY <2>2, <2>3
<1> QED  BY <1>2, <1>3

\* A purge withdraws the expired pastes.
LEMMA PurgeWithdraws ==
  ASSUME Inv, primary' = Purged(primary, clock), UNCHANGED <<issued, burnServed, req>>
  PROVE  [Life!Next]_lifePhase
<1> DEFINE S == {id \in Id : Has(primary, id) /\ Expired(primary[id], clock)}
<1>1. \A id \in Id :
        /\ Has(primary', id) <=> Has(primary, id) /\ id \notin S
        /\ id \in S => /\ Has(primary, id) /\ Has(issued, id)
                       /\ burnServed[id] = 0 /\ id \notin claimed
  BY DEF Inv, Purged, Has, claimed, Claimant, PolicyFrozen, SpentGone,
         ClaimExclusive
<1>a. UNCHANGED claimed
  BY DEF claimed, Claimant
<1> HIDE DEF S
<1>2. Life!Move(S, "live", "gone")
  <2>1. \A id \in S : id \in Id
    BY DEF S
  <2>2. ASSUME NEW id \in S
        PROVE  lifePhase[id] = "live" /\ lifePhase'[id] = "gone"
    BY <1>1, <1>a, <2>1 DEF lifePhase
  <2>3. ASSUME NEW id \in Id \ S
        PROVE  lifePhase'[id] = lifePhase[id]
    BY <1>1, <1>a DEF lifePhase
  <2>4. lifePhase' = [id \in Id |-> IF id \in S THEN "gone" ELSE lifePhase[id]]
    BY <2>2, <2>3 DEF lifePhase
  <2> QED  BY <2>2, <2>4 DEF Life!Move
<1>3. S \in SUBSET Id
  BY DEF S
<1> QED  BY <1>2, <1>3 DEF Life!Next, Life!Withdraw

\* What a step does to a request that is not a claimant before or after it
\* leaves the set of claimed pastes alone.
LEMMA ClaimsKept ==
  ASSUME NEW r \in Req, \A s \in Req \ {r} : req'[s] = req[s],
         \A id \in Id : Claimant(r, id)' <=> Claimant(r, id)
  PROVE  UNCHANGED claimed
  BY DEF claimed, Claimant

\* Answering opens the claimed paste; other answers are not about claims.
LEMMA DeliverOpens ==
  ASSUME Inv, NEW r \in Req, Deliver(r)
  PROVE  [Life!Next]_lifePhase
<1> DEFINE i == req[r].id
<1>1. /\ Moves(r, {}) /\ req'[r] = Idle
      /\ i \in Id /\ Has(issued, i) /\ req[r].pc = "deliver"
  BY FinishMoves DEF Deliver, Inv, Wellformed, SnapshotsAgree, Holding
<1>2. \A id \in Id : ~Claimant(r, id)'
  BY <1>1 DEF Claimant, Idle
<1>3. CASE Claimant(r, i)
  <2>1. /\ ~Has(primary, i) /\ burnServed[i] = 0
        /\ \A s \in Req : Claimant(s, i) => s = r
    BY <1>1, <1>3 DEF Inv, ClaimExclusive
  <2>2. UNCHANGED <<primary, issued>> /\ burnServed' = [burnServed EXCEPT ![i] = 1]
    BY <1>3, <2>1 DEF Deliver, Claimant, Bump, ServedCap, dbVars, Inv, TypeOK
  <2>3. claimed' = claimed \ {i} /\ i \in claimed
    BY <1>1, <1>2, <1>3, <2>1 DEF claimed, Claimant, Moves
  <2>4. Life!Open(i)
    BY <1>1, <1>3, <2>1, <2>2, <2>3
       DEF Life!Open, Life!Move, lifePhase, Has, Inv, TypeOK
  <2> QED  BY <1>1, <2>4 DEF Life!Next
<1>4. CASE ~Claimant(r, i)
  <2>1. UNCHANGED <<primary, issued, burnServed>>
    BY <1>1, <1>4 DEF Deliver, Claimant, dbVars
  <2>2. UNCHANGED claimed
    BY <1>1, <1>2, <1>4, ClaimsKept DEF Claimant, Moves
  <2> QED  BY <2>1, <2>2, PhaseKept DEF Has
<1> QED  BY <1>3, <1>4

\* A crash loses every claim that was not answered.
LEMMA CrashLoses ==
  ASSUME Inv, Crash
  PROVE  [Life!Next]_lifePhase
<1>1. claimed' = {}
  BY DEF Crash, claimed, Claimant, Idle
<1>2. UNCHANGED <<primary, issued, burnServed>>
  BY DEF Crash, dbVars, histVars
<1>3. \A id \in claimed :
        id \in Id /\ Has(issued, id) /\ ~Has(primary, id) /\ burnServed[id] = 0
  BY DEF Inv, claimed, Claimant, SnapshotsAgree, Holding, ClaimExclusive, Claiming
<1>4. Life!Move(claimed, "claimed", "gone")
  BY <1>1, <1>2, <1>3 DEF Life!Move, lifePhase, Has
<1>5. claimed \in SUBSET Id
  BY DEF claimed
<1> QED  BY <1>4, <1>5 DEF Life!Next, Life!Lose

\* Every step of the paste table is a step of PasteLife or none.
LEMMA LifeStep ==
  ASSUME Inv, Inv', [Next]_vars
  PROVE  [Life!Next]_lifePhase
<1>1. ASSUME NEW r \in Req, Step(r)
      PROVE  [Life!Next]_lifePhase
  <2>1. ASSUME UNCHANGED <<primary, issued, burnServed>>,
               \A s \in Req \ {r} : req'[s] = req[s],
               \A id \in Id : Claimant(r, id)' <=> Claimant(r, id)
        PROVE  [Life!Next]_lifePhase
    BY <2>1, ClaimsKept, PhaseKept DEF Has
  <2>2. CASE BeginCreate(r)
    BY <2>1, <2>2 DEF BeginCreate, Inv, TypeOK, Claimant, dbVars, histVars
  <2>3. CASE \E op \in Handler, id \in Id : Begin(r, op, id)
    BY <2>1, <2>3 DEF Begin, Inv, TypeOK, Claimant, dbVars, histVars
  <2>4. CASE PasteGet(r)
    <3>1. /\ \A s \in Req \ {r} : req'[s] = req[s]
          /\ req[r].pc = "get"
          /\ UNCHANGED <<primary, issued, burnServed>>
      BY <2>4, FinishMoves DEF PasteGet, Inv, TypeOK, Moves, dbVars, histVars
    <3>2. \A id \in Id : ~Claimant(r, id)'
      BY <2>4, <3>1, PasteGetStep DEF Claimant, Idle
    <3> QED  BY <2>1, <3>1, <3>2 DEF Claimant
  <2>5. CASE BackupInsert(r) \/ BackupUpdate(r)
    BY <2>1, <2>5, FinishMoves
       DEF BackupInsert, BackupUpdate, Inv, Moves, Claimant, Idle, histVars
  <2>6. CASE BackupDelete(r) \/ BackupError(r)
    <3>1. /\ Moves(r, {"deliver"})
          /\ \/ req'[r] = Idle /\ (req[r].pc # "bkDelete" \/ req[r].op = "delete")
             \/ req'[r].pc = "deliver" /\ req[r].pc = "bkDelete"
          /\ req[r].pc \in {"bkInsert", "bkDelete", "bkUpdate"}
          /\ UNCHANGED <<primary, issued, burnServed>>
      BY <2>6, FinishMoves, GotoMoves
         DEF BackupDelete, BackupError, Inv, Moves, PC, dbVars, histVars
    <3>2. \A id \in Id : Claimant(r, id)' <=> Claimant(r, id)
      BY <3>1 DEF Moves, Claimant, Claiming, Idle
    <3> QED  BY <2>1, <3>1, <3>2 DEF Moves
  <2>7. CASE PasteUpdate(r)
    <3>1. /\ \A s \in Req \ {r} : req'[s] = req[s]
          /\ req[r].pc = "update" /\ req'[r].pc \in {"idle", "bkUpdate"}
          /\ UNCHANGED <<issued, burnServed>>
      <4>1. PICK row : \/ req' = [req EXCEPT ![r].pc = "bkUpdate", ![r].row = row]
                       \/ Finish(r)
        BY <2>7 DEF PasteUpdate
      <4> QED  BY <2>7, <4>1 DEF PasteUpdate, Finish, Idle, Inv, TypeOK, Request
    <3>a. \A id \in Id : ~Claimant(r, id) /\ ~Claimant(r, id)'
      BY <3>1 DEF Claimant
    <3>2. \A id \in Id : Has(primary', id) <=> Has(primary, id)
      BY <2>7, RowAssumption
         DEF PasteUpdate, Inv, TypeOK, SnapshotsAgree, Holding, Row, Updated, Put, Has
    <3> QED  BY <3>1, <3>a, <3>2, ClaimsKept, PhaseKept
  <2>8. CASE PasteAdd(r)
    <3>1. PICK new \in Id : InsertPrimary(r, new)
      BY <2>8 DEF PasteAdd
    <3>2. /\ \A s \in Req \ {r} : req'[s] = req[s]
          /\ req[r].pc = "insert" /\ req'[r].pc \in {"idle", "bkInsert"}
          /\ UNCHANGED burnServed
      <4>1. PICK id \in Id : \/ req' = [req EXCEPT ![r].pc = "bkInsert", ![r].id = id]
                             \/ Finish(r)
        BY <2>8 DEF PasteAdd
      <4> QED  BY <2>8, <4>1 DEF PasteAdd, Finish, Idle, Inv, TypeOK, Request
    <3>a. \A id \in Id : ~Claimant(r, id) /\ ~Claimant(r, id)'
      BY <3>2 DEF Claimant
    <3>3. Life!Publish(new)
      BY <3>1, <3>2, <3>a, ClaimsKept, InsertPublishes
    <3> QED  BY <3>3 DEF Life!Next
  <2>9. CASE PasteExpire(r)
    <3>1. /\ Moves(r, {}) /\ req'[r] = Idle /\ req[r].id \in Id /\ req[r].pc = "expire"
          /\ primary' = Deleted(primary, req[r].id) /\ UNCHANGED <<issued, burnServed>>
      BY <2>9, FinishMoves DEF PasteExpire, Inv, Wellformed, histVars
    <3>2. UNCHANGED claimed
      BY <3>1, ClaimsKept DEF Moves, Claimant, Idle
    <3> QED  BY <3>1, <3>2, DeleteEnds
  <2>10. CASE PasteDeleteIfOneUse(r) \/ PasteDelete(r)
    <3>1. /\ req[r].pc \in {"claim", "delete"} /\ req[r].id \in Id
          /\ UNCHANGED <<issued, burnServed>>
      BY <2>10 DEF PasteDeleteIfOneUse, PasteDelete, Inv, Wellformed, histVars
    <3>2. CASE /\ Has(primary, req[r].id) /\ primary' = Deleted(primary, req[r].id)
               /\ AfterDelete(r)
      <4>1. \A id \in Id \ {req[r].id} : id \in claimed' <=> id \in claimed
        BY <3>1, <3>2, AfterDeleteMoves DEF Inv, Moves, claimed, Claimant, Idle
      <4> QED  BY <3>1, <3>2, <4>1, DeleteEnds
    <3>3. CASE UNCHANGED primary /\ (Finish(r) \/ AfterFailedDelete(r))
      <4>1. \A id \in Id : Claimant(r, id)' <=> Claimant(r, id)
        BY <3>1, <3>3, FinishMoves, AfterFailedDeleteMoves
           DEF Inv, Moves, Claimant, Claiming, Idle
      <4>2. \A s \in Req \ {r} : req'[s] = req[s]
        BY <3>3, FinishMoves, AfterFailedDeleteMoves DEF Inv, Moves
      <4> QED  BY <2>1, <3>1, <3>3, <4>1, <4>2
    <3> QED  BY <2>10, <3>2, <3>3 DEF PasteDeleteIfOneUse, PasteDelete
  <2>11. CASE Deliver(r)
    BY <2>11, DeliverOpens
  <2>12. CASE PrimaryError(r)
    <3>1. /\ UNCHANGED burnServed
          /\ \A s \in Req \ {r} : req'[s] = req[s]
          /\ \A id \in Id : ~Claimant(r, id) /\ ~Claimant(r, id)'
      BY <2>12, FinishMoves, AfterFailedDeleteMoves
         DEF PrimaryError, Inv, Moves, Claimant, Claiming, Idle
    <3>2. UNCHANGED claimed
      BY <3>1, ClaimsKept
    <3>3. CASE UNCHANGED <<primary, issued, versions>>
      BY <3>1, <3>2, <3>3, PhaseKept DEF Has
    <3>4. CASE req[r].pc = "insert" /\ \E new \in Id : InsertPrimary(r, new)
      <4>1. PICK new \in Id : InsertPrimary(r, new)
        BY <3>4
      <4> QED  BY <3>1, <3>2, <3>4, <4>1, InsertPublishes DEF Life!Next
    <3>5. CASE /\ req[r].pc \in {"expire", "delete", "claim"}
               /\ primary' = Deleted(primary, req[r].id)
               /\ UNCHANGED <<issued, versions>>
      BY <3>1, <3>2, <3>5, DeleteEnds DEF Inv, Wellformed
    <3>6. CASE /\ req[r].pc = "update" /\ Has(primary, req[r].id)
               /\ \E b \in Body :
                    primary' = Updated(primary, req[r].id, [req[r].row EXCEPT !.body = b])
               /\ UNCHANGED issued
      <4>1. PICK b \in Body :
              primary' = Updated(primary, req[r].id, [req[r].row EXCEPT !.body = b])
        BY <3>6
      <4>2. [req[r].row EXCEPT !.body = b] \in Row
        BY <3>6 DEF Inv, SnapshotsAgree, Holding, Row
      <4>3. \A id \in Id : Has(primary', id) <=> Has(primary, id)
        BY <4>1, <4>2, RowAssumption DEF Inv, TypeOK, Updated, Put, Has
      <4> QED  BY <3>1, <3>2, <3>6, <4>3, PhaseKept
    <3> QED  BY <2>12, <3>3, <3>4, <3>5, <3>6 DEF PrimaryError
  <2> QED  BY <1>1, <2>2, <2>3, <2>4, <2>5, <2>6, <2>7, <2>8, <2>9, <2>10, <2>11,
              <2>12 DEF Step
<1>2. CASE \/ Tick \/ UNCHANGED vars
           \/ \E c \in Cleaner : CleanBackup(c) \/ CleanBackupError(c)
  <2>1. UNCHANGED <<primary, issued, burnServed, req>>
    BY <1>2 DEF Tick, CleanBackup, CleanBackupError, vars, dbVars, histVars
  <2> QED  BY <2>1, PhaseKept DEF Has, claimed, Claimant
<1>3. CASE \E c \in Cleaner : CleanPrimary(c) \/ CleanPrimaryError(c)
  <2>1. primary' = Purged(primary, clock) /\ UNCHANGED <<issued, burnServed, req>>
    BY <1>3 DEF CleanPrimary, CleanPrimaryError, histVars
  <2> QED  BY <2>1, PurgeWithdraws
<1> QED  BY <1>1, <1>2, <1>3, CrashLoses DEF Next, Clean

\* The paste table with all its handlers, faults and crashes implements the
\* abstract life of a paste.
THEOREM ImplementsLife == Spec => LifeSpec
<1>1. Init => Life!Init
  BY DEF Init, Life!Init, lifePhase, Has
<1>2. Inv /\ Inv' /\ [Next]_vars => [Life!Next]_lifePhase
  BY LifeStep
<1> QED  BY <1>1, <1>2, Invariance, PTL DEF Spec, LifeSpec, Life!Spec
=============================================================================
