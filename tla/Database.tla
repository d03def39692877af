------------------------------ MODULE Database ------------------------------
(***************************************************************************)
(* The record store (Data/DBCommon.cpp): one DBCommon object per program,  *)
(* several programs on the same database files.                            *)
(*                                                                         *)
(* write looks up the rows of a name with one SQL statement and updates or *)
(* inserts with another, without a transaction.  What keeps two programs   *)
(* apart is only the "locking_mode = EXCLUSIVE" every opening asks for:    *)
(* the locks of a statement are then kept until the handle is closed.      *)
(*                                                                         *)
(* Of SQLite the model has the atomicity of a statement and its locks; any *)
(* statement may throw, and must when the lock of another handle is in the *)
(* way.  Of an application it has that it closes a database whose opening  *)
(* threw before it goes on.  Rows are never deleted one by one, so the id  *)
(* of a row is its position.                                               *)
(***************************************************************************)
EXTENDS Naturals, Sequences

CONSTANTS
  Proc,    \* programs, each with the object GetInst() returns
  File,    \* paths
  Name, User, Text, Data,
  NoData,  \* the data of a write of text only, and NULL
  NoFile,  \* of an object that has no database open
  NoTable, \* what a file holds before createTable
  NoRow    \* of a name that was never written

ASSUME DistinctAssumption ==
  /\ NoData \notin Data
  /\ NoFile \notin File

Row == [user : User, name : Name, txt : Text, data : Data \cup {NoData}]

ASSUME NoneAssumption == NoTable \notin Seq(Row) /\ NoRow \notin Row

VARIABLES
  exists,  \* per file
  rows,    \* per file, the table common_tbl
  db,      \* per program, the handle _impl->db
  leaked,  \* handles that no pointer leads to any more
  pc,      \* per program, where it is in a call
  target,  \* per program, the path createNew was called with
  arg,     \* per program, the row that write was called with
  sel,     \* per program, the ids queryS still has to give
  last     \* history: per file and name, the row as the last write left it

vars == <<exists, rows, db, leaked, pc, target, arg, sel, last>>

Closed == [file |-> NoFile, rw |-> FALSE, excl |-> FALSE, lock |-> "none"]

Init ==
  /\ exists = [f \in File |-> FALSE]
  /\ rows = [f \in File |-> NoTable]
  /\ db = [p \in Proc |-> Closed]
  /\ leaked = {}
  /\ pc = [p \in Proc |-> "idle"]
  /\ target = [p \in Proc |-> NoFile]
  /\ arg = [p \in Proc |-> NoRow]
  /\ sel = [p \in Proc |-> {}]
  /\ last = [f \in File |-> [n \in Name |-> NoRow]]

-----------------------------------------------------------------------------
(* Locks.                                                                  *)

IsOpened(p) == db[p].file # NoFile

\* The locks on file f of all handles but the one program p uses.
OtherLocks(p, f) ==
  {db[q].lock : q \in {r \in Proc \ {p} : db[r].file = f}}
    \cup {h.lock : h \in {l \in leaked : l.file = f}}

CanRead(p, f)  == "exclusive" \notin OtherLocks(p, f)
CanWrite(p, f) == OtherLocks(p, f) \subseteq {"none"}

\* The handle of p after a statement that reads or writes.
AfterRead(p) ==
  [db EXCEPT ![p].lock = IF db[p].excl /\ @ = "none" THEN "shared" ELSE @]
AfterWrite(p) ==
  [db EXCEPT ![p].lock = IF db[p].excl THEN "exclusive" ELSE @]

-----------------------------------------------------------------------------
(* Opening and closing.                                                    *)

\* Mutant: the handle does not ask for exclusive locking.
MutHandle(f, rw) == [file |-> f, rw |-> rw, excl |-> FALSE, lock |-> "none"]

Handle(f, rw) == [file |-> f, rw |-> rw, excl |-> TRUE, lock |-> "none"]

\* open and openRW of a file that exists, which close an open database first.
\* The constructor may throw, and so may key and the first PRAGMA, which reads
\* the schema; then the handle stays and has not asked for exclusive locking.
Open(p, f, rw) ==
  /\ pc[p] = "idle"
  /\ exists[f]
  /\ \/ /\ CanRead(p, f)
        /\ db' = [db EXCEPT ![p] = Handle(f, rw)]
        /\ UNCHANGED pc
     \/ /\ db' = [db EXCEPT ![p] = Closed]
        /\ UNCHANGED pc
     \/ /\ db' = [db EXCEPT ![p] = [Handle(f, rw) EXCEPT !.excl = FALSE]]
        /\ pc' = [pc EXCEPT ![p] = "threw"]
  /\ UNCHANGED <<exists, rows, leaked, target, arg, sel, last>>

\* open and openRW of a file that does not exist.
OpenMissing(p, f) ==
  /\ pc[p] = "idle"
  /\ ~ exists[f]
  /\ IsOpened(p)
  /\ db' = [db EXCEPT ![p] = Closed]
  /\ UNCHANGED <<exists, rows, leaked, pc, target, arg, sel, last>>

\* createNew finds no file, or openRWOrCreate, which otherwise is Open.
CreateCheck(p, f) ==
  /\ pc[p] = "idle"
  /\ ~ exists[f]
  /\ pc' = [pc EXCEPT ![p] = "create"]
  /\ target' = [target EXCEPT ![p] = f]
  /\ UNCHANGED <<exists, rows, db, leaked, arg, sel, last>>

\* The new handle takes the place of one that may be open and is not closed.
CreateOpen(p) ==
  LET f == target[p] IN
  /\ pc[p] = "create"
  /\ exists' = [exists EXCEPT ![f] = TRUE]
  /\ leaked' = IF ~ IsOpened(p) THEN leaked
               ELSE leaked \cup {[proc |-> p, file |-> db[p].file, lock |-> db[p].lock]}
  /\ target' = [target EXCEPT ![p] = NoFile]
  /\ \/ /\ CanRead(p, f)
        /\ db' = [db EXCEPT ![p] = Handle(f, TRUE)]
        /\ pc' = [pc EXCEPT ![p] = "table"]
     \/ /\ db' = [db EXCEPT ![p] = [Handle(f, TRUE) EXCEPT !.excl = FALSE]]
        /\ pc' = [pc EXCEPT ![p] = "threw"]
  /\ UNCHANGED <<rows, arg, sel, last>>

\* Mutant: the exception is swallowed.
MutCreateThrow(p) ==
  /\ pc[p] = "create"
  /\ pc' = [pc EXCEPT ![p] = "table"]
  /\ target' = [target EXCEPT ![p] = NoFile]
  /\ UNCHANGED <<exists, rows, db, leaked, arg, sel, last>>

\* The constructor throws, or createNew finds the file after all: it looks
\* twice if openRWOrCreate called it.
CreateThrow(p) ==
  /\ pc[p] = "create"
  /\ pc' = [pc EXCEPT ![p] = "idle"]
  /\ target' = [target EXCEPT ![p] = NoFile]
  /\ UNCHANGED <<exists, rows, db, leaked, arg, sel, last>>

\* createTable, which drops the table that may be there; either statement, DROP
\* or CREATE, may throw.
CreateTable(p) ==
  LET f == db[p].file IN
  /\ \/ pc[p] = "table"
     \/ pc[p] = "idle" /\ IsOpened(p)
  /\ \/ /\ CanWrite(p, f)
        /\ db[p].rw
        /\ rows' = [rows EXCEPT ![f] = <<>>]
        /\ last' = [last EXCEPT ![f] = [n \in Name |-> NoRow]]
        /\ db' = AfterWrite(p)
        /\ pc' = [pc EXCEPT ![p] = "idle"]
     \/ /\ CanWrite(p, f)
        /\ db[p].rw
        /\ rows' = [rows EXCEPT ![f] = NoTable]
        /\ last' = [last EXCEPT ![f] = [n \in Name |-> NoRow]]
        /\ db' = AfterWrite(p)
        /\ pc' = [pc EXCEPT ![p] = "threw"]
     \/ /\ pc' = [pc EXCEPT ![p] = "threw"]
        /\ UNCHANGED <<rows, last, db>>
  /\ UNCHANGED <<exists, leaked, target, arg, sel>>

Close(p) ==
  /\ pc[p] \in {"idle", "threw"}
  /\ IsOpened(p)
  /\ db' = [db EXCEPT ![p] = Closed]
  /\ pc' = [pc EXCEPT ![p] = "idle"]
  /\ UNCHANGED <<exists, rows, leaked, target, arg, sel, last>>

\* The program ends, in whatever call, and starts again.
Crash(p) ==
  /\ db' = [db EXCEPT ![p] = Closed]
  /\ leaked' = {h \in leaked : h.proc # p}
  /\ pc' = [pc EXCEPT ![p] = "idle"]
  /\ target' = [target EXCEPT ![p] = NoFile]
  /\ arg' = [arg EXCEPT ![p] = NoRow]
  /\ sel' = [sel EXCEPT ![p] = {}]
  /\ UNCHANGED <<exists, rows, last>>

-----------------------------------------------------------------------------
(* Records.                                                                *)

\* The ids of the rows with a name.
Ids(f, n) ==
  IF rows[f] = NoTable THEN {} ELSE {i \in DOMAIN rows[f] : rows[f][i].name = n}

\* write selects by the name alone, whoever's row it is.
WriteSelect(p, r) ==
  LET f == db[p].file IN
  /\ pc[p] = "idle"
  /\ IsOpened(p) /\ rows[f] # NoTable
  /\ CanRead(p, f)
  /\ db' = AfterRead(p)
  /\ sel' = [sel EXCEPT ![p] = Ids(f, r.name)]
  /\ arg' = [arg EXCEPT ![p] = r]
  /\ pc' = [pc EXCEPT ![p] = IF Ids(f, r.name) = {} THEN "insert" ELSE "update"]
  /\ UNCHANGED <<exists, rows, leaked, target, last>>

\* A row as an update leaves it: a write of text only keeps the data.
Updated(row, new) == [new EXCEPT !.data = IF @ = NoData THEN row.data ELSE @]

WriteUpdate(p) ==
  LET f == db[p].file IN
  /\ pc[p] = "update"
  /\ CanWrite(p, f) /\ db[p].rw /\ rows[f] # NoTable
  /\ \E i \in sel[p] :
       /\ rows' = [rows EXCEPT ![f] = [j \in DOMAIN @ |->
                     IF j = i THEN Updated(@[j], arg[p]) ELSE @[j]]]
       /\ sel' = [sel EXCEPT ![p] = @ \ {i}]
       /\ pc' = [pc EXCEPT ![p] = IF sel[p] = {i} THEN "idle" ELSE "update"]
       /\ arg' = [arg EXCEPT ![p] = IF sel[p] = {i} THEN NoRow ELSE @]
  /\ last' = [last EXCEPT ![f][arg[p].name] =
                IF @ = NoRow THEN arg[p] ELSE Updated(@, arg[p])]
  /\ db' = AfterWrite(p)
  /\ UNCHANGED <<exists, leaked, target>>

WriteInsert(p) ==
  LET f == db[p].file IN
  /\ pc[p] = "insert"
  /\ CanWrite(p, f) /\ db[p].rw /\ rows[f] # NoTable
  /\ rows' = [rows EXCEPT ![f] = Append(@, arg[p])]
  /\ last' = [last EXCEPT ![f][arg[p].name] =
                IF @ = NoRow THEN arg[p] ELSE Updated(@, arg[p])]
  /\ db' = AfterWrite(p)
  /\ pc' = [pc EXCEPT ![p] = "idle"]
  /\ arg' = [arg EXCEPT ![p] = NoRow]
  /\ UNCHANGED <<exists, leaked, target, sel>>

\* The update or insert throws, be it that another handle's lock is in the way
\* or that the database was opened to be read only.
WriteThrow(p) ==
  /\ pc[p] \in {"update", "insert"}
  /\ pc' = [pc EXCEPT ![p] = "idle"]
  /\ sel' = [sel EXCEPT ![p] = {}]
  /\ arg' = [arg EXCEPT ![p] = NoRow]
  /\ UNCHANGED <<exists, rows, db, leaked, target, last>>

\* readOne, readOneText and itemCount: of the state they change only the lock.
Read(p) ==
  LET f == db[p].file IN
  /\ pc[p] = "idle"
  /\ IsOpened(p) /\ rows[f] # NoTable
  /\ CanRead(p, f)
  /\ db' = AfterRead(p)
  /\ UNCHANGED <<exists, rows, leaked, pc, target, arg, sel, last>>

Next ==
  \E p \in Proc :
    \/ \E f \in File : OpenMissing(p, f) \/ CreateCheck(p, f)
    \/ \E f \in File, rw \in BOOLEAN : Open(p, f, rw)
    \/ CreateOpen(p) \/ CreateThrow(p) \/ CreateTable(p)
    \/ Close(p) \/ Crash(p)
    \/ \E r \in Row : WriteSelect(p, r)
    \/ WriteUpdate(p) \/ WriteInsert(p) \/ WriteThrow(p)
    \/ Read(p)

Spec == Init /\ [][Next]_vars

-----------------------------------------------------------------------------
(* Properties.                                                             *)

Lock == {"none", "shared", "exclusive"}

\* Type invariant: no statement is run on a null handle either.
TypeOK ==
  /\ exists \in [File -> BOOLEAN]
  /\ rows \in [File -> Seq(Row) \cup {NoTable}]
  /\ db \in [Proc -> [file : File \cup {NoFile}, rw : BOOLEAN, excl : BOOLEAN, lock : Lock]]
  /\ leaked \subseteq [proc : Proc, file : File, lock : Lock]
  /\ pc \in [Proc -> {"idle", "threw", "create", "table", "update", "insert"}]
  /\ target \in [Proc -> File \cup {NoFile}]
  /\ arg \in [Proc -> Row \cup {NoRow}]
  /\ sel \in [Proc -> SUBSET Nat]
  /\ \A p \in Proc :
       /\ pc[p] = "create" => target[p] \in File
       /\ pc[p] \in {"table", "update", "insert"} => IsOpened(p)
       /\ pc[p] \in {"update", "insert"} => arg[p] \in Row
  /\ last \in [File -> [Name -> Row \cup {NoRow}]]

\* Between the SELECT of write and its UPDATE or INSERT no other program
\* changes which rows have the name, although the two statements are not in a
\* transaction.
SelectFresh ==
  \A p \in Proc :
    /\ pc[p] = "insert" => Ids(db[p].file, arg[p].name) = {}
    /\ pc[p] = "update" => sel[p] # {} /\ sel[p] \subseteq Ids(db[p].file, arg[p].name)

\* Whatever programs write to a file, a name has at most one row, and that is
\* what the last write that returned left: its user and text, and its data or,
\* of a write of text only, the data from before.  DBCommon.h asks that the
\* name "should preferably not repeat"; nothing in the table enforces it.
LastWrite ==
  \A f \in File : rows[f] # NoTable =>
    \A n \in Name :
      IF last[f][n] = NoRow
        THEN Ids(f, n) = {}
        ELSE \E i \in DOMAIN rows[f] : Ids(f, n) = {i} /\ rows[f][i] = last[f][n]
=============================================================================
