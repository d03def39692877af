--------------------------- MODULE Database_proofs ---------------------------
(***************************************************************************)
(* Proofs about the record store, for any programs, files and records.     *)
(*                                                                         *)
(* The argument: a program between the two statements of write holds a     *)
(* lock on its file (Guarded), so that no other program can write there    *)
(* (OthersCannotWrite); hence what the SELECT found still holds            *)
(* (SelectFresh) when the UPDATE or INSERT puts the row in its place       *)
(* (LastWrite).                                                            *)
(***************************************************************************)
EXTENDS Database, TLAPS

\* Every handle that is used asked for exclusive locking, and one that has
\* read in write has its lock.
Guarded ==
  \A p \in Proc :
    /\ pc[p] # "threw" /\ IsOpened(p) => db[p].excl
    /\ pc[p] \in {"update", "insert"} => db[p].lock # "none"

\* The inductive invariant.
IInv == TypeOK /\ Guarded /\ SelectFresh /\ LastWrite

\* What a program between its two statements keeps all others from.
LEMMA OthersCannotWrite ==
  ASSUME Guarded,
         NEW p \in Proc, NEW q \in Proc, p # q,
         pc[p] \in {"update", "insert"},
         CanWrite(q, db[p].file)
  PROVE  FALSE
BY DEF Guarded, CanWrite, OtherLocks

-----------------------------------------------------------------------------
(* The types.                                                              *)

Handles == [file : File \cup {NoFile}, rw : BOOLEAN, excl : BOOLEAN, lock : Lock]

\* A handle with another lock is a handle.
LEMMA LockType ==
  ASSUME NEW h \in Handles, NEW l \in Lock
  PROVE  /\ [h EXCEPT !.lock = l] \in Handles
         /\ [h EXCEPT !.lock = l].file = h.file
         /\ [h EXCEPT !.lock = l].rw = h.rw
         /\ [h EXCEPT !.lock = l].excl = h.excl
         /\ [h EXCEPT !.lock = l].lock = l
BY DEF Handles, Lock

\* What a statement does to the handles: it keeps all but p's lock, and keeps
\* that, too, unless the handle is exclusive.
LEMMA AfterReadType ==
  ASSUME TypeOK, NEW p \in Proc
  PROVE  /\ AfterRead(p) \in [Proc -> Handles]
         /\ \A q \in Proc : /\ AfterRead(p)[q].file = db[q].file
                            /\ AfterRead(p)[q].excl = db[q].excl
         /\ \A q \in Proc \ {p} : AfterRead(p)[q] = db[q]
         /\ db[p].excl => AfterRead(p)[p].lock # "none"
<1> DEFINE l == IF db[p].excl /\ db[p].lock = "none" THEN "shared" ELSE db[p].lock
<1>1. db \in [Proc -> Handles] /\ db[p] \in Handles /\ l \in Lock
  BY DEF TypeOK, Handles, Lock
<1>2. AfterRead(p) = [db EXCEPT ![p] = [db[p] EXCEPT !.lock = l]]
  BY <1>1 DEF AfterRead
<1>3. db[p].excl => l # "none"
  OBVIOUS
<1> HIDE DEF l
<1>4. QED
  BY <1>1, <1>2, <1>3, LockType

\* A statement that writes changes only the lock of the handle.
LEMMA AfterWriteType ==
  ASSUME TypeOK, NEW p \in Proc
  PROVE  /\ AfterWrite(p) \in [Proc -> Handles]
         /\ \A q \in Proc : /\ AfterWrite(p)[q].file = db[q].file
                            /\ AfterWrite(p)[q].excl = db[q].excl
         /\ \A q \in Proc \ {p} : AfterWrite(p)[q] = db[q]
         /\ db[p].lock # "none" => AfterWrite(p)[p].lock # "none"
<1> DEFINE l == IF db[p].excl THEN "exclusive" ELSE db[p].lock
<1>1. db \in [Proc -> Handles] /\ db[p] \in Handles /\ l \in Lock
  BY DEF TypeOK, Handles, Lock
<1>2. AfterWrite(p) = [db EXCEPT ![p] = [db[p] EXCEPT !.lock = l]]
  BY <1>1 DEF AfterWrite
<1>3. db[p].lock # "none" => l # "none"
  OBVIOUS
<1> HIDE DEF l
<1>4. QED
  BY <1>1, <1>2, <1>3, LockType

\* A handle as the constructor makes it, and as it is if a PRAGMA throws.
LEMMA HandleType ==
  ASSUME NEW f \in File, NEW rw \in BOOLEAN
  PROVE  /\ Handle(f, rw) \in Handles
         /\ Handle(f, rw).excl
         /\ [Handle(f, rw) EXCEPT !.excl = FALSE] \in Handles
BY DEF Handle, Handles, Lock

\* An updated row is a row of the new name.
LEMMA UpdatedType ==
  ASSUME NEW old \in Row, NEW new \in Row
  PROVE  Updated(old, new) \in Row /\ Updated(old, new).name = new.name
<1> DEFINE d == IF new.data = NoData THEN old.data ELSE new.data
<1>1. d \in Data \cup {NoData}
  BY DEF Row
<1>2. Updated(old, new) = [new EXCEPT !.data = d]
  BY DEF Updated
<1> HIDE DEF d
<1>3. QED
  BY <1>1, <1>2 DEF Row

\* What an UPDATE and an INSERT do to the table.
LEMMA RowsAfterUpdate ==
  ASSUME TypeOK, NEW p \in Proc, WriteUpdate(p)
  PROVE  LET f == db[p].file IN
         /\ f \in File /\ rows[f] \in Seq(Row)
         /\ rows' \in [File -> Seq(Row) \cup {NoTable}]
         /\ \A g \in File \ {f} : rows'[g] = rows[g]
         /\ rows'[f] \in Seq(Row)
         /\ \E i \in sel[p] :
              /\ sel' = [sel EXCEPT ![p] = @ \ {i}]
              /\ pc' = [pc EXCEPT ![p] = IF sel[p] = {i} THEN "idle" ELSE "update"]
              /\ DOMAIN rows'[f] = DOMAIN rows[f]
              /\ \A j \in DOMAIN rows[f] :
                   rows'[f][j] = IF j = i THEN Updated(rows[f][j], arg[p]) ELSE rows[f][j]
<1> DEFINE f == db[p].file
<1>1. f \in File /\ arg[p] \in Row /\ rows[f] \in Seq(Row)
  BY DEF TypeOK, WriteUpdate, IsOpened
<1>2. PICK i \in sel[p] :
        /\ rows' = [rows EXCEPT ![f] = [j \in DOMAIN @ |->
                      IF j = i THEN Updated(@[j], arg[p]) ELSE @[j]]]
        /\ sel' = [sel EXCEPT ![p] = @ \ {i}]
        /\ pc' = [pc EXCEPT ![p] = IF sel[p] = {i} THEN "idle" ELSE "update"]
  BY DEF WriteUpdate
<1> DEFINE new == [j \in DOMAIN rows[f] |->
                     IF j = i THEN Updated(rows[f][j], arg[p]) ELSE rows[f][j]]
<1>3. rows' = [rows EXCEPT ![f] = new]
  BY <1>2
<1>4. DOMAIN rows[f] = 1..Len(rows[f]) /\ Len(rows[f]) \in Nat
  BY <1>1
<1>5. \A j \in 1..Len(rows[f]) : new[j] \in Row
  BY <1>1, <1>4, UpdatedType
<1>6. new \in Seq(Row)
  <2>1. new \in [1..Len(rows[f]) -> Row]
    BY <1>4, <1>5
  <2> HIDE DEF new
  <2>2. QED
    BY <1>4, <2>1
<1> HIDE DEF new
<1>7. rows' \in [File -> Seq(Row) \cup {NoTable}]
  BY <1>1, <1>3, <1>6 DEF TypeOK
<1>8. rows'[f] = new /\ \A g \in File \ {f} : rows'[g] = rows[g]
  BY <1>1, <1>3 DEF TypeOK
<1>9. QED
  BY <1>1, <1>2, <1>6, <1>7, <1>8 DEF new

\* An INSERT appends one row, the one write was called with.
LEMMA RowsAfterInsert ==
  ASSUME TypeOK, NEW p \in Proc, WriteInsert(p)
  PROVE  LET f == db[p].file IN
         /\ f \in File /\ rows[f] \in Seq(Row) /\ arg[p] \in Row
         /\ rows' \in [File -> Seq(Row) \cup {NoTable}]
         /\ \A g \in File \ {f} : rows'[g] = rows[g]
         /\ rows'[f] = Append(rows[f], arg[p])
BY DEF TypeOK, WriteInsert, IsOpened

\* What either does to the history.
LEMMA LastAfter ==
  ASSUME TypeOK, NEW p \in Proc, WriteUpdate(p) \/ WriteInsert(p)
  PROVE  LET f == db[p].file
             n == arg[p].name
         IN  /\ f \in File /\ n \in Name
             /\ last' \in [File -> [Name -> Row \cup {NoRow}]]
             /\ \A g \in File \ {f} : last'[g] = last[g]
             /\ \A m \in Name \ {n} : last'[f][m] = last[f][m]
             /\ last'[f][n] = IF last[f][n] = NoRow THEN arg[p]
                              ELSE Updated(last[f][n], arg[p])
<1> DEFINE f == db[p].file
           n == arg[p].name
           new == IF last[f][n] = NoRow THEN arg[p] ELSE Updated(last[f][n], arg[p])
<1>1. f \in File /\ arg[p] \in Row
  BY DEF TypeOK, WriteUpdate, WriteInsert, IsOpened
<1>2. n \in Name
  BY <1>1 DEF Row
<1>3. last \in [File -> [Name -> Row \cup {NoRow}]]
  BY DEF TypeOK
<1>4. new \in Row
  BY <1>1, <1>2, <1>3, UpdatedType
<1>5. last' = [last EXCEPT ![f] = [last[f] EXCEPT ![n] = new]]
  BY <1>1, <1>2, <1>3 DEF WriteUpdate, WriteInsert
<1> HIDE DEF new
<1>6. /\ last' \in [File -> [Name -> Row \cup {NoRow}]]
      /\ \A g \in File \ {f} : last'[g] = last[g]
      /\ \A m \in Name \ {n} : last'[f][m] = last[f][m]
      /\ last'[f][n] = new
  BY <1>1, <1>2, <1>3, <1>4, <1>5
<1>7. QED
  BY <1>1, <1>2, <1>6 DEF new

\* The first state has its types.
LEMMA TypeInit == Init => TypeOK
BY DEF Init, TypeOK, Closed, Lock

\* Every call keeps the types, and runs no statement on a null handle.
LEMMA TypeNext == TypeOK /\ [Next]_vars => TypeOK'
<1> SUFFICES ASSUME TypeOK, [Next]_vars
             PROVE  TypeOK'
  OBVIOUS
<1> USE DEF TypeOK, Lock, IsOpened
<1>1. ASSUME NEW p \in Proc, NEW f \in File, OpenMissing(p, f)
      PROVE  TypeOK'
  BY <1>1 DEF OpenMissing, Closed
<1>2. ASSUME NEW p \in Proc, NEW f \in File, CreateCheck(p, f)
      PROVE  TypeOK'
  BY <1>2 DEF CreateCheck
<1>3. ASSUME NEW p \in Proc, NEW f \in File, NEW rw \in BOOLEAN, Open(p, f, rw)
      PROVE  TypeOK'
  <2>1. \E h \in Handles : db' = [db EXCEPT ![p] = h]
    <3>1. CASE db' = [db EXCEPT ![p] = Handle(f, rw)]
      BY <3>1, HandleType
    <3>2. CASE db' = [db EXCEPT ![p] = Closed]
      BY <3>2 DEF Closed, Handles
    <3>3. CASE db' = [db EXCEPT ![p] = [Handle(f, rw) EXCEPT !.excl = FALSE]]
      BY <3>3, HandleType
    <3>4. QED
      BY <1>3, <3>1, <3>2, <3>3 DEF Open
  <2>2. QED
    BY <1>3, <2>1 DEF Open, Handles, Closed
<1>4. ASSUME NEW p \in Proc, CreateOpen(p)
      PROVE  TypeOK'
  <2>1. target[p] \in File
    BY <1>4 DEF CreateOpen
  <2>2. \E h \in Handles : db' = [db EXCEPT ![p] = h]
    <3>1. CASE db' = [db EXCEPT ![p] = Handle(target[p], TRUE)]
      BY <2>1, <3>1, HandleType
    <3>2. CASE db' = [db EXCEPT ![p] = [Handle(target[p], TRUE) EXCEPT !.excl = FALSE]]
      BY <2>1, <3>2, HandleType
    <3>3. QED
      BY <1>4, <3>1, <3>2 DEF CreateOpen
  <2>3. leaked' \subseteq [proc : Proc, file : File, lock : Lock]
    BY <1>4 DEF CreateOpen
  <2>4. pc'[p] = "table" => db'[p].file \in File
    BY <1>4, <2>1 DEF CreateOpen, Handle
  <2>5. QED
    BY <1>4, <2>1, <2>2, <2>3, <2>4, DistinctAssumption DEF CreateOpen, Handles
<1>5. ASSUME NEW p \in Proc, CreateThrow(p)
      PROVE  TypeOK'
  BY <1>5 DEF CreateThrow
<1>6. ASSUME NEW p \in Proc, CreateTable(p)
      PROVE  TypeOK'
  <2>1. db' \in [Proc -> Handles] /\ \A q \in Proc : db'[q].file = db[q].file
    BY <1>6, AfterWriteType DEF CreateTable, Handles
  <2>2. /\ rows' \in [File -> Seq(Row) \cup {NoTable}]
        /\ last' \in [File -> [Name -> Row \cup {NoRow}]]
    <3>1. CASE UNCHANGED <<rows, last>>
      BY <3>1
    <3>2. CASE /\ \E t \in {<<>>, NoTable} : rows' = [rows EXCEPT ![db[p].file] = t]
               /\ last' = [last EXCEPT ![db[p].file] = [n \in Name |-> NoRow]]
      <4>1. {<<>>, NoTable} \subseteq Seq(Row) \cup {NoTable}
        OBVIOUS
      <4>2. [n \in Name |-> NoRow] \in [Name -> Row \cup {NoRow}]
        OBVIOUS
      <4>3. QED
        BY <3>2, <4>1, <4>2
    <3>3. QED
      BY <1>6, <3>1, <3>2 DEF CreateTable
  <2>3. /\ pc' \in [Proc -> {"idle", "threw", "create", "table", "update", "insert"}]
        /\ \A q \in Proc : pc'[q] = pc[q] \/ pc'[q] \in {"idle", "threw"}
        /\ UNCHANGED <<exists, leaked, target, arg, sel>>
    BY <1>6 DEF CreateTable
  <2>4. QED
    BY <2>1, <2>2, <2>3 DEF Handles
<1>7. ASSUME NEW p \in Proc, Close(p)
      PROVE  TypeOK'
  BY <1>7 DEF Close, Closed
<1>8. ASSUME NEW p \in Proc, Crash(p)
      PROVE  TypeOK'
  BY <1>8 DEF Crash, Closed
<1>9. ASSUME NEW p \in Proc, NEW r \in Row, WriteSelect(p, r)
      PROVE  TypeOK'
  BY <1>9, AfterReadType DEF WriteSelect, Handles, Ids
<1>10. ASSUME NEW p \in Proc, WriteUpdate(p)
       PROVE  TypeOK'
  <2>1. db' \in [Proc -> Handles] /\ \A q \in Proc : db'[q].file = db[q].file
    BY <1>10, AfterWriteType DEF WriteUpdate
  <2>2. rows' \in [File -> Seq(Row) \cup {NoTable}]
    BY <1>10, RowsAfterUpdate
  <2>3. last' \in [File -> [Name -> Row \cup {NoRow}]]
    BY <1>10, LastAfter
  <2>4. PICK i \in sel[p] :
          /\ sel' = [sel EXCEPT ![p] = @ \ {i}]
          /\ pc' = [pc EXCEPT ![p] = IF sel[p] = {i} THEN "idle" ELSE "update"]
          /\ arg' = [arg EXCEPT ![p] = IF sel[p] = {i} THEN NoRow ELSE @]
    BY <1>10 DEF WriteUpdate
  <2>5. UNCHANGED <<exists, leaked, target>>
    BY <1>10 DEF WriteUpdate
  <2>6. pc[p] = "update"
    BY <1>10 DEF WriteUpdate
  <2>7. arg' \in [Proc -> Row \cup {NoRow}] /\ sel' \in [Proc -> SUBSET Nat]
    BY <2>4
  <2>8. QED
    BY <2>1, <2>2, <2>3, <2>4, <2>5, <2>6, <2>7 DEF Handles
<1>11. ASSUME NEW p \in Proc, WriteInsert(p)
       PROVE  TypeOK'
  <2>1. db' \in [Proc -> Handles] /\ \A q \in Proc : db'[q].file = db[q].file
    BY <1>11, AfterWriteType DEF WriteInsert
  <2>2. rows' \in [File -> Seq(Row) \cup {NoTable}]
    BY <1>11, RowsAfterInsert
  <2>3. last' \in [File -> [Name -> Row \cup {NoRow}]]
    BY <1>11, LastAfter
  <2>4. QED
    BY <1>11, <2>1, <2>2, <2>3 DEF WriteInsert, Handles
<1>12. ASSUME NEW p \in Proc, WriteThrow(p)
       PROVE  TypeOK'
  BY <1>12 DEF WriteThrow
<1>13. ASSUME NEW p \in Proc, Read(p)
       PROVE  TypeOK'
  BY <1>13, AfterReadType DEF Read, Handles
<1>14. ASSUME UNCHANGED vars
       PROVE  TypeOK'
  BY <1>14 DEF vars
<1>15. QED
  BY <1>1, <1>2, <1>3, <1>4, <1>5, <1>6, <1>7, <1>8, <1>9, <1>10, <1>11, <1>12,
     <1>13, <1>14 DEF Next
-----------------------------------------------------------------------------
(* The locks.                                                              *)

\* At the start no program is inside write.
LEMMA GuardedInit == Init => Guarded
<1> SUFFICES ASSUME Init, NEW p \in Proc
             PROVE  pc[p] = "idle" /\ db[p].file = NoFile
  BY DEF Guarded, IsOpened
<1> QED
  BY DEF Init, Closed

\* The SELECT of write leaves a lock behind that only the program itself gives up.
LEMMA GuardedNext == TypeOK /\ Guarded /\ [Next]_vars => Guarded'
<1> SUFFICES ASSUME TypeOK, Guarded, [Next]_vars
             PROVE  Guarded'
  OBVIOUS
<1> USE DEF Guarded, IsOpened
<1>0. /\ db \in [Proc -> Handles]
      /\ pc \in [Proc -> {"idle", "threw", "create", "table", "update", "insert"}]
  BY DEF TypeOK, Handles
<1>1. ASSUME NEW p \in Proc, NEW f \in File, OpenMissing(p, f)
      PROVE  Guarded'
  BY <1>0, <1>1 DEF OpenMissing, Closed
<1>2. ASSUME NEW p \in Proc, NEW f \in File, CreateCheck(p, f)
      PROVE  Guarded'
  BY <1>0, <1>2 DEF CreateCheck
<1>3. ASSUME NEW p \in Proc, NEW f \in File, NEW rw \in BOOLEAN, Open(p, f, rw)
      PROVE  Guarded'
  <2>1. CASE db' = [db EXCEPT ![p] = Handle(f, rw)] /\ UNCHANGED pc
    BY <1>0, <1>3, <2>1, HandleType DEF Open
  <2>2. CASE db' = [db EXCEPT ![p] = Closed] /\ UNCHANGED pc
    BY <1>0, <1>3, <2>2 DEF Open, Closed
  <2>3. CASE /\ db' = [db EXCEPT ![p] = [Handle(f, rw) EXCEPT !.excl = FALSE]]
             /\ pc' = [pc EXCEPT ![p] = "threw"]
    BY <1>0, <2>3
  <2>4. QED
    BY <1>3, <2>1, <2>2, <2>3 DEF Open
<1>4. ASSUME NEW p \in Proc, CreateOpen(p)
      PROVE  Guarded'
  <2>1. target[p] \in File
    BY <1>4 DEF TypeOK, CreateOpen
  <2>2. CASE /\ db' = [db EXCEPT ![p] = Handle(target[p], TRUE)]
             /\ pc' = [pc EXCEPT ![p] = "table"]
    BY <1>0, <2>1, <2>2, HandleType
  <2>3. CASE /\ db' = [db EXCEPT ![p] = [Handle(target[p], TRUE) EXCEPT !.excl = FALSE]]
             /\ pc' = [pc EXCEPT ![p] = "threw"]
    BY <1>0, <2>3
  <2>4. QED
    BY <1>4, <2>2, <2>3 DEF CreateOpen
<1>5. ASSUME NEW p \in Proc, CreateThrow(p)
      PROVE  Guarded'
  BY <1>0, <1>5 DEF CreateThrow
<1>6. ASSUME NEW p \in Proc, CreateTable(p)
      PROVE  Guarded'
  BY <1>0, <1>6, AfterWriteType DEF CreateTable
<1>7. ASSUME NEW p \in Proc, Close(p)
      PROVE  Guarded'
  BY <1>0, <1>7 DEF Close, Closed
<1>8. ASSUME NEW p \in Proc, Crash(p)
      PROVE  Guarded'
  BY <1>0, <1>8 DEF Crash, Closed
<1>9. ASSUME NEW p \in Proc, NEW r \in Row, WriteSelect(p, r)
      PROVE  Guarded'
  BY <1>0, <1>9, AfterReadType DEF WriteSelect
<1>10. ASSUME NEW p \in Proc, WriteUpdate(p)
       PROVE  Guarded'
  <2>1. PICK i \in sel[p] : pc' = [pc EXCEPT ![p] = IF sel[p] = {i} THEN "idle" ELSE "update"]
    BY <1>10 DEF WriteUpdate
  <2>2. db' = AfterWrite(p) /\ pc[p] = "update"
    BY <1>10 DEF WriteUpdate
  <2>3. \A q \in Proc : pc'[q] = pc[q] \/ (q = p /\ pc'[q] \in {"idle", "update"})
    BY <1>0, <2>1
  <2>4. \A q \in Proc : pc'[q] # "threw" /\ db'[q].file # NoFile => db'[q].excl
    BY <1>0, <2>2, <2>3, AfterWriteType
  <2>5. \A q \in Proc : pc'[q] \in {"update", "insert"} => db'[q].lock # "none"
    BY <1>0, <2>2, <2>3, AfterWriteType
  <2>6. QED
    BY <2>4, <2>5
<1>11. ASSUME NEW p \in Proc, WriteInsert(p)
       PROVE  Guarded'
  BY <1>0, <1>11, AfterWriteType DEF WriteInsert
<1>12. ASSUME NEW p \in Proc, WriteThrow(p)
       PROVE  Guarded'
  BY <1>0, <1>12 DEF WriteThrow
<1>13. ASSUME NEW p \in Proc, Read(p)
       PROVE  Guarded'
  BY <1>0, <1>13, AfterReadType DEF Read
<1>14. ASSUME UNCHANGED vars
       PROVE  Guarded'
  BY <1>14 DEF vars
<1>15. QED
  BY <1>1, <1>2, <1>3, <1>4, <1>5, <1>6, <1>7, <1>8, <1>9, <1>10, <1>11, <1>12,
     <1>13, <1>14 DEF Next
-----------------------------------------------------------------------------
(* The records.                                                            *)

\* A step of another program that leaves the table of a file and program p
\* alone leaves p's selection fresh.
LEMMA FreshFrame ==
  ASSUME SelectFresh, NEW p \in Proc,
         UNCHANGED <<pc[p], db[p].file, arg[p], sel[p]>>,
         rows'[db[p].file] = rows[db[p].file]
  PROVE  /\ pc'[p] = "insert" => Ids(db[p].file, arg[p].name)' = {}
         /\ pc'[p] = "update" => /\ sel'[p] # {}
                                 /\ sel'[p] \subseteq Ids(db[p].file, arg[p].name)'
BY DEF SelectFresh, Ids

\* No table changes under a program between its two statements.
LEMMA OthersTable ==
  ASSUME TypeOK, Guarded, [Next]_vars, NEW p \in Proc, pc[p] \in {"update", "insert"},
         ~ WriteUpdate(p), ~ WriteInsert(p)
  PROVE  rows'[db[p].file] = rows[db[p].file]
<1>1. db[p].file \in File
  BY DEF TypeOK, IsOpened
<1>2. ASSUME NEW q \in Proc, CreateTable(q)
      PROVE  rows'[db[p].file] = rows[db[p].file]
  <2>1. q # p
    BY <1>2 DEF CreateTable
  <2>2. CASE UNCHANGED rows
    BY <2>2
  <2>3. CASE /\ CanWrite(q, db[q].file)
             /\ \E t \in {<<>>, NoTable} : rows' = [rows EXCEPT ![db[q].file] = t]
    <3>1. db[q].file # db[p].file
      BY <2>1, <2>3, OthersCannotWrite
    <3>2. QED
      BY <1>1, <2>3, <3>1 DEF TypeOK
  <2>4. QED
    BY <1>2, <2>2, <2>3 DEF CreateTable
<1>3. ASSUME NEW q \in Proc, WriteUpdate(q)
      PROVE  rows'[db[p].file] = rows[db[p].file]
  <2>0. q # p
    BY <1>3
  <2>1. CanWrite(q, db[q].file) /\ q # p
    BY <1>3, <2>0, Zenon DEF WriteUpdate
  <2>2. db[q].file # db[p].file
    BY <2>1, OthersCannotWrite
  <2>3. QED
    BY <1>1, <1>3, <2>2, RowsAfterUpdate
<1>4. ASSUME NEW q \in Proc, WriteInsert(q)
      PROVE  rows'[db[p].file] = rows[db[p].file]
  <2>1. CanWrite(q, db[q].file) /\ q # p
    BY <1>4 DEF WriteInsert
  <2>2. db[q].file # db[p].file
    BY <2>1, OthersCannotWrite
  <2>3. QED
    BY <1>1, <1>4, <2>2, RowsAfterInsert
<1>5. ASSUME UNCHANGED rows
      PROVE  rows'[db[p].file] = rows[db[p].file]
  BY <1>5
<1>6. QED
  BY <1>2, <1>3, <1>4, <1>5 DEF Next, vars, OpenMissing, CreateCheck, Open, CreateOpen,
     CreateThrow, Close, Crash, WriteSelect, WriteThrow, Read

\* What a step does to the program that takes it, and what it leaves alone of
\* the others.
LEMMA OthersFrame ==
  ASSUME TypeOK, [Next]_vars, NEW p \in Proc
  PROVE  \/ UNCHANGED <<pc[p], db[p].file, arg[p], sel[p]>>
         \/ pc'[p] \notin {"update", "insert"}
         \/ \E r \in Row : WriteSelect(p, r)
         \/ WriteUpdate(p)
<1>0. /\ db \in [Proc -> Handles]
      /\ pc \in [Proc -> {"idle", "threw", "create", "table", "update", "insert"}]
      /\ arg \in [Proc -> Row \cup {NoRow}] /\ sel \in [Proc -> SUBSET Nat]
  BY DEF TypeOK, Handles
<1> DEFINE Same == UNCHANGED <<pc[p], db[p].file, arg[p], sel[p]>>
<1>1. ASSUME NEW q \in Proc, NEW f \in File, OpenMissing(q, f) \/ CreateCheck(q, f)
      PROVE  Same \/ pc'[p] \notin {"update", "insert"}
  BY <1>0, <1>1 DEF OpenMissing, CreateCheck, Closed
<1>2. ASSUME NEW q \in Proc, NEW f \in File, NEW rw \in BOOLEAN, Open(q, f, rw)
      PROVE  Same \/ pc'[p] \notin {"update", "insert"}
  BY <1>0, <1>2 DEF Open
<1>3. ASSUME NEW q \in Proc, CreateOpen(q) \/ CreateThrow(q)
      PROVE  Same \/ pc'[p] \notin {"update", "insert"}
  BY <1>0, <1>3 DEF CreateOpen, CreateThrow
<1>4. ASSUME NEW q \in Proc, CreateTable(q)
      PROVE  Same \/ pc'[p] \notin {"update", "insert"}
  BY <1>0, <1>4, AfterWriteType DEF CreateTable
<1>5. ASSUME NEW q \in Proc, Close(q) \/ Crash(q)
      PROVE  Same \/ pc'[p] \notin {"update", "insert"}
  BY <1>0, <1>5 DEF Close, Crash
<1>6. ASSUME NEW q \in Proc, NEW r \in Row, WriteSelect(q, r), q # p
      PROVE  Same
  BY <1>0, <1>6, AfterReadType DEF WriteSelect
<1>7. ASSUME NEW q \in Proc, WriteUpdate(q), q # p
      PROVE  Same
  <2>1. PICK i \in sel[q] :
          /\ sel' = [sel EXCEPT ![q] = @ \ {i}]
          /\ pc' = [pc EXCEPT ![q] = IF sel[q] = {i} THEN "idle" ELSE "update"]
          /\ arg' = [arg EXCEPT ![q] = IF sel[q] = {i} THEN NoRow ELSE @]
    BY <1>7 DEF WriteUpdate
  <2>2. db' = AfterWrite(q)
    BY <1>7 DEF WriteUpdate
  <2>3. QED
    BY <1>0, <1>7, <2>1, <2>2, AfterWriteType
<1>8. ASSUME NEW q \in Proc, WriteInsert(q)
      PROVE  Same \/ pc'[p] \notin {"update", "insert"}
  BY <1>0, <1>8, AfterWriteType DEF WriteInsert
<1>9. ASSUME NEW q \in Proc, WriteThrow(q) \/ Read(q)
      PROVE  Same \/ pc'[p] \notin {"update", "insert"}
  BY <1>0, <1>9, AfterReadType DEF WriteThrow, Read
<1>10. ASSUME UNCHANGED vars
       PROVE  Same
  BY <1>10 DEF vars
<1> HIDE DEF Same
<1>11. \/ Same \/ pc'[p] \notin {"update", "insert"}
       \/ \E r \in Row : WriteSelect(p, r)
       \/ WriteUpdate(p)
  BY <1>1, <1>2, <1>3, <1>4, <1>5, <1>6, <1>7, <1>8, <1>9, <1>10 DEF Next
<1>12. QED
  BY <1>11 DEF Same

\* No step of another program changes the rows of a name that write has looked up.
LEMMA FreshNext ==
  ASSUME TypeOK, Guarded, SelectFresh, [Next]_vars
  PROVE  SelectFresh'
<1> SUFFICES ASSUME NEW p \in Proc
             PROVE  /\ pc'[p] = "insert" => Ids(db[p].file, arg[p].name)' = {}
                    /\ pc'[p] = "update" =>
                         /\ sel'[p] # {}
                         /\ sel'[p] \subseteq Ids(db[p].file, arg[p].name)'
  BY DEF SelectFresh
<1>1. CASE pc'[p] \notin {"update", "insert"}
  BY <1>1
<1>2. ASSUME NEW r \in Row, WriteSelect(p, r)
      PROVE  /\ pc'[p] = "insert" => Ids(db[p].file, arg[p].name)' = {}
             /\ pc'[p] = "update" => /\ sel'[p] # {}
                                     /\ sel'[p] \subseteq Ids(db[p].file, arg[p].name)'
  <2>1. /\ UNCHANGED rows
        /\ db'[p].file = db[p].file
        /\ arg'[p] = r
        /\ sel'[p] = Ids(db[p].file, r.name)
        /\ pc'[p] = IF Ids(db[p].file, r.name) = {} THEN "insert" ELSE "update"
    BY <1>2, AfterReadType DEF WriteSelect, TypeOK
  <2>2. Ids(db[p].file, arg[p].name)' = Ids(db[p].file, r.name)
    BY <2>1 DEF Ids
  <2>3. QED
    BY <2>1, <2>2
<1>3. CASE WriteUpdate(p) /\ pc'[p] \in {"update", "insert"}
  <2> DEFINE f == db[p].file
  <2>1. PICK i \in sel[p] :
          /\ sel' = [sel EXCEPT ![p] = @ \ {i}]
          /\ pc' = [pc EXCEPT ![p] = IF sel[p] = {i} THEN "idle" ELSE "update"]
          /\ DOMAIN rows'[f] = DOMAIN rows[f]
          /\ \A j \in DOMAIN rows[f] :
               rows'[f][j] = IF j = i THEN Updated(rows[f][j], arg[p]) ELSE rows[f][j]
    BY <1>3, RowsAfterUpdate
  <2>2. /\ sel[p] # {i} /\ pc'[p] = "update"
        /\ sel'[p] = sel[p] \ {i}
    BY <1>3, <2>1 DEF TypeOK
  <2>3. arg'[p] = arg[p] /\ db'[p].file = f
    BY <1>3, <2>1, <2>2, AfterWriteType DEF WriteUpdate, TypeOK
  <2>4. /\ rows[f] \in Seq(Row) /\ rows'[f] \in Seq(Row)
        /\ f \in File
    BY <1>3, RowsAfterUpdate
  <2>5. rows[f] # NoTable /\ rows'[f] # NoTable
    BY <2>4, NoneAssumption
  <2>6. sel[p] \subseteq Ids(f, arg[p].name)
    BY <1>3 DEF SelectFresh, WriteUpdate
  <2>7. \A j \in sel'[p] : j \in DOMAIN rows'[f] /\ rows'[f][j].name = arg[p].name
    BY <2>1, <2>2, <2>5, <2>6 DEF Ids
  <2>8. sel'[p] \subseteq Ids(db[p].file, arg[p].name)'
    BY <2>3, <2>5, <2>7 DEF Ids
  <2>9. QED
    BY <2>2, <2>8
<1>4. CASE /\ UNCHANGED <<pc[p], db[p].file, arg[p], sel[p]>>
           /\ pc'[p] \in {"update", "insert"}
           /\ ~ WriteUpdate(p)
  <2>1. ~ WriteInsert(p)
    BY <1>4 DEF WriteInsert, TypeOK
  <2>2. rows'[db[p].file] = rows[db[p].file]
    BY <1>4, <2>1, OthersTable
  <2>3. QED
    BY <1>4, <2>2, FreshFrame
<1>5. QED
  BY <1>1, <1>2, <1>3, <1>4, OthersFrame

\* The last write of a name in a file, and the rows it concerns.
LastWriteOf(f, n) ==
  IF last[f][n] = NoRow
    THEN Ids(f, n) = {}
    ELSE \E i \in DOMAIN rows[f] : Ids(f, n) = {i} /\ rows[f][i] = last[f][n]

\* A step that touches neither the rows nor the history keeps LastWrite.
LEMMA LastFrame ==
  ASSUME NEW f \in File, NEW n \in Name, LastWriteOf(f, n),
         rows'[f] = rows[f], last'[f][n] = last[f][n]
  PROVE  LastWriteOf(f, n)'
BY DEF LastWriteOf, Ids

\* An UPDATE changes the one row of the name into what was written.
LEMMA LastUpdate ==
  ASSUME TypeOK, SelectFresh, LastWrite, NEW p \in Proc, WriteUpdate(p)
  PROVE  LastWrite'
<1> SUFFICES ASSUME NEW f \in File, rows'[f] # NoTable, NEW n \in Name
             PROVE  LastWriteOf(f, n)'
  BY DEF LastWrite, LastWriteOf
<1>0. PICK g \in File, m \in Name : g = db[p].file /\ m = arg[p].name
  BY LastAfter
<1>1. /\ g \in File /\ m \in Name
      /\ \A h \in File \ {g} : last'[h] = last[h]
      /\ \A k \in Name \ {m} : last'[g][k] = last[g][k]
      /\ last'[g][m] = IF last[g][m] = NoRow THEN arg[p] ELSE Updated(last[g][m], arg[p])
  BY <1>0, LastAfter
<1>2. /\ rows[g] \in Seq(Row) /\ rows'[g] \in Seq(Row)
      /\ \A h \in File \ {g} : rows'[h] = rows[h]
  BY <1>0, RowsAfterUpdate
<1>3. PICK i \in sel[p] :
        /\ DOMAIN rows'[g] = DOMAIN rows[g]
        /\ \A j \in DOMAIN rows[g] :
             rows'[g][j] = IF j = i THEN Updated(rows[g][j], arg[p]) ELSE rows[g][j]
  BY <1>0, RowsAfterUpdate
<1>4. rows[g] # NoTable /\ rows'[g] # NoTable
  BY <1>2, NoneAssumption
<1>5. i \in DOMAIN rows[g] /\ rows[g][i].name = m
  BY <1>0, <1>4 DEF SelectFresh, WriteUpdate, Ids
<1>6. rows[g][i] \in Row /\ arg[p] \in Row
  BY <1>2, <1>5 DEF TypeOK, WriteUpdate
<1>7. \A j \in DOMAIN rows[g] : rows'[g][j].name = rows[g][j].name
  BY <1>0, <1>3, <1>5, <1>6, UpdatedType
<1>8. \A k \in Name : Ids(g, k)' = Ids(g, k)
  <2>1. \A k \in Name : /\ Ids(g, k) = {j \in DOMAIN rows[g] : rows[g][j].name = k}
                        /\ Ids(g, k)' = {j \in DOMAIN rows'[g] : rows'[g][j].name = k}
    BY <1>4 DEF Ids
  <2>2. DOMAIN rows'[g] = DOMAIN rows[g]
    BY <1>3
  <2>3. ASSUME NEW k \in Name
        PROVE  {j \in DOMAIN rows'[g] : rows'[g][j].name = k}
                 = {j \in DOMAIN rows[g] : rows[g][j].name = k}
    BY <1>7, <2>2
  <2>4. QED
    BY <2>1, <2>3
<1>9. CASE f # g
  BY <1>1, <1>2, <1>9, LastFrame DEF LastWrite, LastWriteOf
<1>10. CASE f = g /\ n # m
  <2>1. LastWriteOf(g, n) /\ last'[g][n] = last[g][n] /\ Ids(g, n)' = Ids(g, n)
    BY <1>1, <1>4, <1>8, <1>10 DEF LastWrite, LastWriteOf
  <2>2. \A j \in Ids(g, n) : j \in DOMAIN rows[g] /\ j # i
    BY <1>4, <1>5, <1>10 DEF Ids
  <2>3. \A j \in Ids(g, n) : j \in DOMAIN rows'[g] /\ rows'[g][j] = rows[g][j]
    BY <1>3, <2>2
  <2>4. CASE last[g][n] = NoRow
    BY <1>10, <2>1, <2>4 DEF LastWriteOf
  <2>5. CASE last[g][n] # NoRow
    <3>1. PICK j \in DOMAIN rows[g] : Ids(g, n) = {j} /\ rows[g][j] = last[g][n]
      BY <2>1, <2>5 DEF LastWriteOf
    <3>2. j \in DOMAIN rows'[g] /\ rows'[g][j] = last'[g][n] /\ Ids(g, n)' = {j}
      BY <2>1, <2>3, <3>1
    <3>3. QED
      BY <1>10, <2>1, <2>5, <3>2 DEF LastWriteOf
  <2>6. QED
    BY <2>4, <2>5
<1>11. CASE f = g /\ n = m
  <2>1. LastWriteOf(g, m) /\ i \in Ids(g, m)
    BY <1>1, <1>4, <1>5 DEF LastWrite, LastWriteOf, Ids
  <2>2. last[g][m] # NoRow /\ Ids(g, m) = {i} /\ rows[g][i] = last[g][m]
    BY <2>1 DEF LastWriteOf
  <2>3. last'[g][m] = rows'[g][i] /\ i \in DOMAIN rows'[g] /\ Ids(g, m)' = {i}
    BY <1>1, <1>3, <1>5, <1>8, <2>2
  <2>4. last'[g][m] # NoRow
    BY <1>3, <1>5, <1>6, <2>3, UpdatedType, NoneAssumption
  <2>5. QED
    BY <1>11, <2>3, <2>4 DEF LastWriteOf
<1>12. QED
  BY <1>9, <1>10, <1>11

\* An INSERT makes the first and only row of a name that had none.
LEMMA LastInsert ==
  ASSUME TypeOK, SelectFresh, LastWrite, NEW p \in Proc, WriteInsert(p)
  PROVE  LastWrite'
<1> SUFFICES ASSUME NEW f \in File, rows'[f] # NoTable, NEW n \in Name
             PROVE  LastWriteOf(f, n)'
  BY DEF LastWrite, LastWriteOf
<1>0. PICK g \in File, m \in Name : g = db[p].file /\ m = arg[p].name
  BY LastAfter
<1>a. PICK N \in Nat : N = Len(rows[g])
  BY <1>0, RowsAfterInsert
<1>1. /\ g \in File /\ m \in Name
      /\ \A h \in File \ {g} : last'[h] = last[h]
      /\ \A k \in Name \ {m} : last'[g][k] = last[g][k]
      /\ last'[g][m] = IF last[g][m] = NoRow THEN arg[p] ELSE Updated(last[g][m], arg[p])
  BY <1>0, LastAfter
<1>2. /\ rows[g] \in Seq(Row) /\ arg[p] \in Row
      /\ \A h \in File \ {g} : rows'[h] = rows[h]
      /\ rows'[g] = Append(rows[g], arg[p])
  BY <1>0, RowsAfterInsert
<1>3. /\ rows'[g] \in Seq(Row) /\ N \in Nat
      /\ DOMAIN rows[g] = 1..N /\ DOMAIN rows'[g] = 1..(N + 1)
      /\ rows'[g][N + 1] = arg[p]
      /\ \A j \in 1..N : rows'[g][j] = rows[g][j]
  BY <1>a, <1>2
<1>4. rows[g] # NoTable /\ rows'[g] # NoTable
  BY <1>2, <1>3, NoneAssumption
<1>5. \A k \in Name : /\ Ids(g, k) = {j \in 1..N : rows[g][j].name = k}
                      /\ Ids(g, k)' = {j \in 1..(N + 1) : rows'[g][j].name = k}
  BY <1>3, <1>4 DEF Ids
<1>6. CASE f # g
  BY <1>1, <1>2, <1>6, LastFrame DEF LastWrite, LastWriteOf
<1>7. CASE f = g /\ n # m
  <2>1. LastWriteOf(g, n) /\ last'[g][n] = last[g][n]
    BY <1>1, <1>4, <1>7 DEF LastWrite, LastWriteOf
  <2>2. Ids(g, n)' = Ids(g, n)
    <3>1. \A j \in 1..(N + 1) : rows'[g][j].name = n <=> j \in 1..N /\ rows[g][j].name = n
      BY <1>0, <1>3, <1>7
    <3>2. 1..N \subseteq 1..(N + 1)
      OBVIOUS
    <3>3. {j \in 1..(N + 1) : rows'[g][j].name = n} = {j \in 1..N : rows[g][j].name = n}
      BY <3>1, <3>2
    <3>4. QED
      BY <1>5, <3>3
  <2>3. \A j \in 1..N : j \in DOMAIN rows'[g] /\ rows'[g][j] = rows[g][j]
    BY <1>3
  <2>4. CASE last[g][n] = NoRow
    BY <1>7, <2>1, <2>2, <2>4 DEF LastWriteOf
  <2>5. CASE last[g][n] # NoRow
    <3>1. PICK j \in 1..N : Ids(g, n) = {j} /\ rows[g][j] = last[g][n]
      BY <1>3, <2>1, <2>5 DEF LastWriteOf
    <3>2. j \in DOMAIN rows'[g] /\ rows'[g][j] = last'[g][n] /\ Ids(g, n)' = {j}
      BY <2>1, <2>2, <2>3, <3>1
    <3>3. QED
      BY <1>7, <2>1, <2>5, <3>2 DEF LastWriteOf
  <2>6. QED
    BY <2>4, <2>5
<1>8. CASE f = g /\ n = m
  <2>1. Ids(g, m) = {}
    BY <1>0 DEF SelectFresh, WriteInsert
  <2>2. last[g][m] = NoRow
    BY <1>1, <1>4, <2>1 DEF LastWrite
  <2>3. last'[g][m] = arg[p] /\ last'[g][m] # NoRow
    BY <1>1, <1>2, <2>2, NoneAssumption
  <2>4. Ids(g, m)' = {N + 1}
    <3>1. \A j \in 1..(N + 1) : rows'[g][j].name = m <=> j = N + 1
      BY <1>0, <1>3, <1>5, <2>1
    <3>2. QED
      BY <1>3, <1>5, <3>1
  <2>5. QED
    BY <1>3, <1>8, <2>3, <2>4 DEF LastWriteOf
<1>9. QED
  BY <1>6, <1>7, <1>8

\* DROP TABLE and CREATE TABLE forget all names.
LEMMA LastTable ==
  ASSUME TypeOK, LastWrite, NEW p \in Proc, CreateTable(p)
  PROVE  LastWrite'
<1> SUFFICES ASSUME NEW f \in File, rows'[f] # NoTable, NEW n \in Name
             PROVE  LastWriteOf(f, n)'
  BY DEF LastWrite, LastWriteOf
<1> DEFINE g == db[p].file
<1>1. CASE UNCHANGED <<rows, last>>
  BY <1>1, LastFrame DEF LastWrite, LastWriteOf
<1>2. CASE /\ \E t \in {<<>>, NoTable} : rows' = [rows EXCEPT ![g] = t]
           /\ last' = [last EXCEPT ![g] = [k \in Name |-> NoRow]]
  <2>1. CASE f # g
    <3>1. rows'[f] = rows[f] /\ last'[f] = last[f]
      BY <1>2, <2>1 DEF TypeOK
    <3>2. QED
      BY <3>1, LastFrame DEF LastWrite, LastWriteOf
  <2>2. CASE f = g
    <3>1. rows'[f] = <<>> /\ last'[f][n] = NoRow
      BY <1>2, <2>2 DEF TypeOK
    <3>2. Ids(f, n)' = {}
      BY <3>1 DEF Ids
    <3>3. QED
      BY <3>1, <3>2 DEF LastWriteOf
  <2>3. QED
    BY <2>1, <2>2
<1>3. QED
  BY <1>1, <1>2 DEF CreateTable

\* Every step keeps LastWrite: only these three change a table.
LEMMA LastNext ==
  ASSUME TypeOK, SelectFresh, LastWrite, [Next]_vars
  PROVE  LastWrite'
<1>1. CASE UNCHANGED <<rows, last>>
  BY <1>1 DEF LastWrite, Ids
<1>2. QED
  BY <1>1, LastTable, LastUpdate, LastInsert DEF Next, vars, OpenMissing, CreateCheck,
     Open, CreateOpen, CreateThrow, Close, Crash, WriteSelect, WriteThrow, Read

-----------------------------------------------------------------------------
(* The theorems.                                                           *)

\* The inductive invariant holds: the locks, the selection and the last write
\* hold each other up.
THEOREM Invariance == Spec => []IInv
<1>1. Init => IInv
  <2>1. ASSUME Init
        PROVE  SelectFresh /\ LastWrite
    BY <2>1 DEF Init, SelectFresh, LastWrite
  <2>2. QED
    BY <2>1, TypeInit, GuardedInit DEF IInv
<1>2. IInv /\ [Next]_vars => IInv'
  BY TypeNext, GuardedNext, FreshNext, LastNext DEF IInv
<1>3. QED
  BY <1>1, <1>2, PTL DEF Spec

\* DBCommon's state has its type, and no statement is run on a null handle.
THEOREM TypeCorrect == Spec => []TypeOK
<1>1. IInv => TypeOK
  BY DEF IInv
<1>2. QED
  BY <1>1, Invariance, PTL

\* What write's SELECT found still holds when its UPDATE or INSERT runs.
THEOREM Freshness == Spec => []SelectFresh
<1>1. IInv => SelectFresh
  BY DEF IInv
<1>2. QED
  BY <1>1, Invariance, PTL

\* A name has one row, that of the last write, however many programs write.
THEOREM LastWriteWins == Spec => []LastWrite
<1>1. IInv => LastWrite
  BY DEF IInv
<1>2. QED
  BY <1>1, Invariance, PTL
=============================================================================
