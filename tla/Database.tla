------------------------------ MODULE Database ------------------------------
(***************************************************************************)
(* Opening, creating and closing a GDB file (db.c, db_header.c), the trees *)
(* named in its main tree (gdbAddTree) and the wrapper the mail client     *)
(* uses (gbtree.cpp).                                                      *)
(*                                                                         *)
(* A file is absent, an empty or cut off one (a creation that died), a     *)
(* file of something else, or a database of a type; then its main tree is  *)
(* there or not.  The main tree is a map from names to blocks (module      *)
(* BTree); which keys fall on a full leaf is up to its shape.              *)
(***************************************************************************)
EXTENDS Integers, FiniteSets, Functions

CONSTANTS
    Name,           \* keys of the main tree
    MaxTree         \* bound: tree header blocks ever made

ASSUME DatabaseAssumption == MaxTree \in Nat

VARIABLES
    dbFile,         \* the file: kind, whether it has a main tree, its names
    db,             \* <<>> or the open database: its mode, type, main tree
    lbTree,         \* LBTree's bt is set
    named,          \* what gdbAddTree last returned: a status and a block
    made            \* blocks made so far

dbvars == <<dbFile, db, lbTree, named, made>>

TypesOfFile == {"index", "data"}
ModesOfFile == {"rw", "ro", "test"}

Empty(kind, main) ==
    [kind |-> kind, main |-> main, names |-> [n \in Name |-> 0]]

(* Mutant: the type is not compared.                                       *)
AcceptableAnyType(f, type) == f.kind # "cut"

(* gdbReadHeader and the type check.                                       *)
Acceptable(f, type) == f.kind = type

(* gdbCreate: "wb+" empties the file; then the header, room for the free   *)
(* list, the main tree.  db is not given a mode: 0 is PM_MODE_READ_WRITE.  *)
(* The process may die after each.                                         *)
gdbCreate(type) ==
    /\ db = <<>>
    /\ \E reached \in {"emptied", "header", "tree"} :
          /\ dbFile' = CASE reached = "emptied" -> Empty("cut", FALSE)
                         [] reached = "header"  -> Empty(type, FALSE)
                         [] OTHER -> Empty(type, TRUE)
          /\ db' = IF reached = "tree"
                   THEN <<[mode |-> "rw", type |-> type, main |-> TRUE]>> ELSE <<>>

(* Only a file that is not there is created.                               *)
gdbOpen(type, mode) ==
    /\ db = <<>>
    /\ IF dbFile.kind = "absent"
       THEN IF mode = "rw" THEN gdbCreate(type) ELSE UNCHANGED <<dbFile, db>>
       ELSE /\ db' = IF Acceptable(dbFile, type)
                     THEN <<[mode |-> mode, type |-> type, main |-> dbFile.main]>>
                     ELSE <<>>
            /\ UNCHANGED dbFile

Open(type, mode) ==
    /\ gdbOpen(type, mode)
    /\ UNCHANGED <<lbTree, named, made>>

Create(type) ==
    /\ dbFile.kind \in TypesOfFile \cup {"absent", "cut"}
    /\ gdbCreate(type)
    /\ UNCHANGED <<lbTree, named, made>>

(* LBTree::Open: Close first; false, with the database left open, when the *)
(* main tree is not there.                                                 *)
LBTreeOpen ==
    /\ gdbOpen("data", "rw")
    /\ lbTree' = (db' # <<>> /\ db'[1].main)
    /\ UNCHANGED <<named, made>>

(* LBTree::Close and gdbClose: one close for lbTree, one for mainTree, the *)
(* same object of the cache; the objects go with the process.              *)
Close ==
    /\ db # <<>>
    /\ db' = <<>> /\ lbTree' = FALSE
    /\ UNCHANGED <<dbFile, named, made>>

(* gdbAddTree: the new tree is made first; btreeInsert refuses a name that *)
(* is there only if its leaf is full and gives it the new tree otherwise;  *)
(* the tree it named is then neither named nor free.                       *)
AddTreeTo(f, name, new, full) ==
    IF f.names[name] # 0 /\ full THEN f ELSE [f EXCEPT !.names[name] = new]

gdbAddTree(name) ==
    /\ db # <<>> /\ db[1].main
    /\ made < MaxTree
    /\ made' = made + 1
    /\ CASE db[1].mode = "rw" ->
              \E full \in BOOLEAN :
                 /\ dbFile' = AddTreeTo(dbFile, name, made + 1, full)
                 /\ named' = <<"success", dbFile'.names[name]>>
         [] db[1].mode = "ro" -> named' = <<"error", 0>> /\ UNCHANGED dbFile
         [] OTHER ->
              /\ named' = IF dbFile.names[name] # 0
                          THEN <<"success", dbFile.names[name]>>
                          ELSE <<"success", made + 1>>
              /\ UNCHANGED dbFile
    /\ UNCHANGED <<db, lbTree>>

(* btreeDelete of a name: its tree is left, without a name.                *)
DropName(name) ==
    /\ db # <<>> /\ db[1].main /\ db[1].mode = "rw"
    /\ dbFile' = [dbFile EXCEPT !.names[name] = 0]
    /\ UNCHANGED <<db, lbTree, named, made>>

DatabaseInit ==
    /\ dbFile \in {Empty("absent", FALSE), Empty("foreign", FALSE)}
    /\ db = <<>> /\ lbTree = FALSE
    /\ named = <<"none", 0>> /\ made = 0

DatabaseNext ==
    \/ \E type \in TypesOfFile : Create(type) \/ \E mode \in ModesOfFile : Open(type, mode)
    \/ LBTreeOpen \/ Close
    \/ \E name \in Name : gdbAddTree(name) \/ DropName(name)

-----------------------------------------------------------------------------

(* What the mail client takes for its open tree (LBTree::Open) is a whole  *)
(* data file, and only a whole file holds names: not one of another type,  *)
(* not one whose creation died before its main tree was there, however     *)
(* often such a file is opened, closed and created anew.                   *)
UsedFileIsWhole ==
    /\ lbTree => db # <<>> /\ dbFile.kind = "data" /\ dbFile.main
    /\ \A n \in Name :
          dbFile.names[n] # 0 => dbFile.kind \in TypesOfFile /\ dbFile.main
=============================================================================
