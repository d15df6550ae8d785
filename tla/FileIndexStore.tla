--------------------------- MODULE FileIndexStore ---------------------------
(***************************************************************************)
(* The per-file write methods of Database (src/crates/bombe-core/src/store/*)
(* database.rs) at the granularity SQLite executes them.  Every method    *)
(* opens a fresh connection in autocommit mode and runs a fixed sequence   *)
(* of statements; nothing wraps them in a transaction or savepoint, so     *)
(* each statement commits on its own and a reader on another connection    *)
(* (WAL mode) sees every intermediate state.                               *)
(*                                                                         *)
(* The writer is the indexer of the repository, one call at a time (the   *)
(* GIL).  A call is modelled by the SELECT that starts it, which fixes the *)
(* statements it will run (prog), and one action per kind of statement.   *)
(* A statement may fail (disk, busy, I/O: at most MaxFaults times):        *)
(*  - the FTS DELETE loops `break`,                                        *)
(*  - the FTS INSERT result is ignored (`let _ =`),                        *)
(*  - every other failure returns the error at its `?`, ending the call.   *)
(* Foreign keys are on (connect), so an INSERT into symbols or             *)
(* external_deps without a files row, a DELETE of a symbol some parameter  *)
(* still references and a DELETE of a files row some symbol or dependency *)
(* still references fail the same way.                                     *)
(*                                                                         *)
(* Every symbol has one parameter row in this model, and FTS rows carry    *)
(* the symbol id and qualified name they were written for.                 *)
(***************************************************************************)
EXTENDS Naturals, Sequences, FiniteSets

CONSTANTS
    Files,      \* file paths
    Names,      \* qualified names
    Keys,       \* edge uniqueness keys (source, target, types, relationship)
    Mods,       \* external module names
    Hashes,     \* content hashes of a files row
    NoRow,      \* no files row / no argument
    MaxOps,     \* bound on the number of calls
    MaxFaults,  \* bound on failed statements
    FaultyStmts \* the kinds of statement that may fail

VARIABLES
    files,      \* [Files -> Hashes \cup {NoRow}]
    symbols,    \* set of [id, f, q]
    params,     \* set of symbol ids with a parameters row
    fts,        \* set of [id, q]: symbol_fts rows
    edges,      \* set of [k, f]
    deps,       \* set of [f, m]
    seq,        \* sqlite_sequence of symbols: the last id handed out
    lastId,     \* conn.last_insert_rowid() of the writer
    prog,       \* statements the current call has still to run
    call,       \* the call in progress, or NoCall
    lastCall,   \* history: the last call that returned
    err,        \* history: the call in progress, or the last, returned an error
    snap,       \* history: the database as the call in progress found it
    reads,      \* history: names readers resolved during the call, and where
    ops,        \* number of calls made
    faults      \* number of statements that failed

dbVars == <<files, symbols, params, fts, edges, deps, seq, lastId>>

storeVars == <<files, symbols, params, fts, edges, deps, seq, lastId, prog,
               call, lastCall, err, snap, reads, ops, faults>>

NoCall == [op |-> "none", f |-> NoRow, g |-> NoRow, arg |-> {}]

Stmt(s, f, a) == [s |-> s, f |-> f, a |-> a]

IdsOf(f) == {r.id : r \in {x \in symbols : x.f = f}}

NamesOf(f) == {r.q : r \in {x \in symbols : x.f = f}}

\* What the abstract FileStore sees of the database.
View == [files |-> files,
         syms |-> [f \in Files |-> NamesOf(f)],
         edges |-> edges,
         deps |-> deps]

\* The files whose symbols include the name q in the view syms.
FilesHaving(syms, q) == {f \in Files : q \in syms[f]}

\* SeqOf turns a finite set into the statements for its elements.
RECURSIVE SeqOf(_, _, _)
SeqOf(s, f, S) ==
    IF S = {} THEN <<>>
    ELSE LET x == CHOOSE y \in S : TRUE
         IN <<Stmt(s, f, x)>> \o SeqOf(s, f, S \ {x})

\* One upsert per <<path, hash>> record of a batch.
RECURSIVE UpsertStmts(_)
UpsertStmts(B) ==
    IF B = {} THEN <<>>
    ELSE LET b == CHOOSE y \in B : TRUE
         IN <<Stmt("upsert_file", b[1], b[2])>> \o UpsertStmts(B \ {b})

\* The statements that insert one symbol: the symbol, its parameters and
\* its FTS row, for every distinct qualified name.
RECURSIVE InsertSymbols(_, _)
InsertSymbols(f, S) ==
    IF S = {} THEN <<>>
    ELSE LET q == CHOOSE y \in S : TRUE
         IN <<Stmt("ins_symbol", f, q), Stmt("ins_param", f, q),
              Stmt("ins_fts", f, q)>> \o InsertSymbols(f, S \ {q})

StoreInit ==
    /\ files = [f \in Files |-> NoRow]
    /\ symbols = {}
    /\ params = {}
    /\ fts = {}
    /\ edges = {}
    /\ deps = {}
    /\ seq = 0
    /\ lastId = 0
    /\ prog = <<>>
    /\ call = NoCall
    /\ lastCall = NoCall
    /\ err = FALSE
    /\ snap = View
    /\ reads = {}
    /\ ops = 0
    /\ faults = 0

(* A call starts: its SELECT has run and p is what is left.  A call with   *)
(* nothing left to run returns at once.                                   *)
Begin(c, p) ==
    /\ call = NoCall
    /\ ops < MaxOps
    /\ ops' = ops + 1
    /\ snap' = View
    /\ reads' = {}
    /\ err' = FALSE
    /\ prog' = p
    /\ IF p = <<>>
         THEN call' = NoCall /\ lastCall' = c
         ELSE call' = c /\ UNCHANGED lastCall
    /\ UNCHANGED <<dbVars, faults>>

(* The head statement has run and p is what is left; the call returns     *)
(* when nothing is, with an error when e.                                  *)
Proceed(p, e) ==
    /\ prog' = p
    /\ IF p = <<>>
         THEN call' = NoCall /\ lastCall' = call
         ELSE UNCHANGED <<call, lastCall>>
    /\ err' = e
    /\ UNCHANGED <<ops, snap, reads>>

Continue(p) == Proceed(p, err)

\* `?`: the error is returned and the rest of the method does not run.
Abort == Proceed(<<>>, TRUE)

\* `break` out of the FTS DELETE loop.
RECURSIVE AfterFtsLoop(_)
AfterFtsLoop(p) ==
    IF p # <<>> /\ Head(p).s = "del_fts" THEN AfterFtsLoop(Tail(p)) ELSE p

Running(s) == prog # <<>> /\ Head(prog).s = s

cur == Head(prog)

-----------------------------------------------------------------------------
(* The calls.                                                              *)

(* upsert_files: nothing for an empty batch, else one upsert per record.   *)
UpsertFiles(batch) ==
    Begin([op |-> "upsert_files", f |-> NoRow, g |-> NoRow, arg |-> batch],
          UpsertStmts(batch))

(* replace_file_symbols without the FTS cleanup of the old ids.           *)
ReplaceFileSymbolsKeepFts(f, S) ==
    Begin([op |-> "replace_file_symbols", f |-> f, g |-> NoRow, arg |-> S],
          <<Stmt("del_params", f, NoRow), Stmt("del_symbols", f, NoRow)>>
            \o InsertSymbols(f, S))

(* replace_file_symbols: SELECT the old ids, DELETE their FTS rows one by  *)
(* one, DELETE parameters, DELETE symbols, then per distinct name INSERT   *)
(* the symbol, its parameters and its FTS row.                             *)
ReplaceFileSymbols(f, S) ==
    Begin([op |-> "replace_file_symbols", f |-> f, g |-> NoRow, arg |-> S],
          SeqOf("del_fts", f, IdsOf(f))
            \o <<Stmt("del_params", f, NoRow), Stmt("del_symbols", f, NoRow)>>
            \o InsertSymbols(f, S))

(* replace_file_edges: DELETE the file's edges, INSERT OR IGNORE each.     *)
ReplaceFileEdges(f, K) ==
    Begin([op |-> "replace_file_edges", f |-> f, g |-> NoRow, arg |-> K],
          <<Stmt("del_edges", f, NoRow)>> \o SeqOf("ins_edge", f, K))

(* replace_external_deps: DELETE the file's deps, INSERT each.             *)
ReplaceExternalDeps(f, M) ==
    Begin([op |-> "replace_external_deps", f |-> f, g |-> NoRow, arg |-> M],
          <<Stmt("del_deps", f, NoRow)>> \o SeqOf("ins_dep", f, M))

(* delete_file_graph deleting symbols before their parameters.           *)
DeleteFileGraphParamsLast(f) ==
    Begin([op |-> "delete_file_graph", f |-> f, g |-> NoRow, arg |-> {}],
          SeqOf("del_fts", f, IdsOf(f))
            \o <<Stmt("del_edges", f, NoRow), Stmt("del_deps", f, NoRow),
                 Stmt("del_symbols", f, NoRow), Stmt("del_params", f, NoRow),
                 Stmt("del_file", f, NoRow)>>)

(* delete_file_graph: SELECT ids, DELETE their FTS rows, then edges,       *)
(* external_deps, parameters, symbols and the files row.                   *)
DeleteFileGraph(f) ==
    Begin([op |-> "delete_file_graph", f |-> f, g |-> NoRow, arg |-> {}],
          SeqOf("del_fts", f, IdsOf(f))
            \o <<Stmt("del_edges", f, NoRow), Stmt("del_deps", f, NoRow),
                 Stmt("del_params", f, NoRow), Stmt("del_symbols", f, NoRow),
                 Stmt("del_file", f, NoRow)>>)

(* rename_file: SELECT the old row (none: return Ok), upsert the new row   *)
(* with its values, UPDATE symbols, edges, external_deps, DELETE old row. *)
RenameFile(o, n) ==
    Begin([op |-> "rename_file", f |-> o, g |-> n, arg |-> {}],
          IF files[o] = NoRow THEN <<>>
          ELSE <<Stmt("upsert_file", n, files[o]), Stmt("move_symbols", o, n),
                 Stmt("move_edges", o, n), Stmt("move_deps", o, n),
                 Stmt("del_file", o, NoRow)>>)

-----------------------------------------------------------------------------
(* The statements.  Each one commits on its own.                           *)

UpsertFileStmt ==
    /\ Running("upsert_file")
    /\ files' = [files EXCEPT ![cur.f] = cur.a]
    /\ Continue(Tail(prog))
    /\ UNCHANGED <<symbols, params, fts, edges, deps, seq, lastId, faults>>

DeleteFtsStmt ==
    /\ Running("del_fts")
    /\ fts' = {r \in fts : r.id # cur.a}
    /\ Continue(Tail(prog))
    /\ UNCHANGED <<files, symbols, params, edges, deps, seq, lastId, faults>>

DeleteParamsStmt ==
    /\ Running("del_params")
    /\ params' = params \ IdsOf(cur.f)
    /\ Continue(Tail(prog))
    /\ UNCHANGED <<files, symbols, fts, edges, deps, seq, lastId, faults>>

(* A parameter row still referencing one of the symbols fails the DELETE. *)
DeleteSymbolsStmt ==
    /\ Running("del_symbols")
    /\ IF IdsOf(cur.f) \cap params # {}
         THEN Abort /\ UNCHANGED symbols
         ELSE /\ symbols' = {r \in symbols : r.f # cur.f}
              /\ Continue(Tail(prog))
    /\ UNCHANGED <<files, params, fts, edges, deps, seq, lastId, faults>>

(* An INTEGER PRIMARY KEY without AUTOINCREMENT: the new rowid is one     *)
(* more than the largest id in the table, so a deleted id can come back.  *)
InsertSymbolStmtReuseRowid ==
    LET ids == {r.id : r \in symbols}
        next == IF ids = {} THEN 1 ELSE (CHOOSE i \in ids : \A j \in ids : j <= i) + 1
    IN
    /\ Running("ins_symbol")
    /\ IF files[cur.f] = NoRow \/ cur.a \in NamesOf(cur.f)
         THEN Abort /\ UNCHANGED <<symbols, seq, lastId>>
         ELSE /\ symbols' = symbols \cup {[id |-> next, f |-> cur.f, q |-> cur.a]}
              /\ seq' = seq
              /\ lastId' = next
              /\ Continue(Tail(prog))
    /\ UNCHANGED <<files, params, fts, edges, deps, faults>>

(* AUTOINCREMENT hands out seq + 1; no files row or a present             *)
(* (qualified_name, file_path) fails the INSERT.                          *)
InsertSymbolStmt ==
    /\ Running("ins_symbol")
    /\ IF files[cur.f] = NoRow \/ cur.a \in NamesOf(cur.f)
         THEN Abort /\ UNCHANGED <<symbols, seq, lastId>>
         ELSE /\ symbols' = symbols \cup {[id |-> seq + 1, f |-> cur.f, q |-> cur.a]}
              /\ seq' = seq + 1
              /\ lastId' = seq + 1
              /\ Continue(Tail(prog))
    /\ UNCHANGED <<files, params, fts, edges, deps, faults>>

InsertParamStmt ==
    /\ Running("ins_param")
    /\ params' = params \cup {lastId}
    /\ Continue(Tail(prog))
    /\ UNCHANGED <<files, symbols, fts, edges, deps, seq, lastId, faults>>

InsertFtsStmt ==
    /\ Running("ins_fts")
    /\ fts' = fts \cup {[id |-> lastId, q |-> cur.a]}
    /\ Continue(Tail(prog))
    /\ UNCHANGED <<files, symbols, params, edges, deps, seq, lastId, faults>>

DeleteEdgesStmt ==
    /\ Running("del_edges")
    /\ edges' = {e \in edges : e.f # cur.f}
    /\ Continue(Tail(prog))
    /\ UNCHANGED <<files, symbols, params, fts, deps, seq, lastId, faults>>

(* INSERT OR IGNORE: a key present (for any file) is left as it is.        *)
InsertEdgeStmt ==
    /\ Running("ins_edge")
    /\ edges' = IF \E e \in edges : e.k = cur.a THEN edges
                ELSE edges \cup {[k |-> cur.a, f |-> cur.f]}
    /\ Continue(Tail(prog))
    /\ UNCHANGED <<files, symbols, params, fts, deps, seq, lastId, faults>>

DeleteDepsStmt ==
    /\ Running("del_deps")
    /\ deps' = {d \in deps : d.f # cur.f}
    /\ Continue(Tail(prog))
    /\ UNCHANGED <<files, symbols, params, fts, edges, seq, lastId, faults>>

(* No files row for the path fails the INSERT (foreign key).               *)
InsertDepStmt ==
    /\ Running("ins_dep")
    /\ IF files[cur.f] = NoRow
         THEN Abort /\ UNCHANGED deps
         ELSE /\ deps' = deps \cup {[f |-> cur.f, m |-> cur.a]}
              /\ Continue(Tail(prog))
    /\ UNCHANGED <<files, symbols, params, fts, edges, seq, lastId, faults>>

(* A symbol or dependency still on the path fails the DELETE.              *)
DeleteFileStmt ==
    /\ Running("del_file")
    /\ IF NamesOf(cur.f) # {} \/ \E d \in deps : d.f = cur.f
         THEN Abort /\ UNCHANGED files
         ELSE /\ files' = [files EXCEPT ![cur.f] = NoRow]
              /\ Continue(Tail(prog))
    /\ UNCHANGED <<symbols, params, fts, edges, deps, seq, lastId, faults>>

(* UPDATE symbols SET file_path = new: a name both paths have fails it     *)
(* (UNIQUE), and so does a new path without a files row.                   *)
MoveSymbolsStmt ==
    /\ Running("move_symbols")
    /\ IF NamesOf(cur.f) # {}
            /\ (files[cur.a] = NoRow \/ NamesOf(cur.f) \cap NamesOf(cur.a) # {})
         THEN Abort /\ UNCHANGED symbols
         ELSE /\ symbols' = {IF r.f = cur.f THEN [r EXCEPT !.f = cur.a] ELSE r
                               : r \in symbols}
              /\ Continue(Tail(prog))
    /\ UNCHANGED <<files, params, fts, edges, deps, seq, lastId, faults>>

MoveEdgesStmt ==
    /\ Running("move_edges")
    /\ edges' = {IF e.f = cur.f THEN [e EXCEPT !.f = cur.a] ELSE e : e \in edges}
    /\ Continue(Tail(prog))
    /\ UNCHANGED <<files, symbols, params, fts, deps, seq, lastId, faults>>

MoveDepsStmt ==
    /\ Running("move_deps")
    /\ IF (\E d \in deps : d.f = cur.f) /\ files[cur.a] = NoRow
         THEN Abort /\ UNCHANGED deps
         ELSE /\ deps' = {IF d.f = cur.f THEN [d EXCEPT !.f = cur.a] ELSE d
                            : d \in deps}
              /\ Continue(Tail(prog))
    /\ UNCHANGED <<files, symbols, params, fts, edges, seq, lastId, faults>>

(* A failing FTS DELETE ends the loop (`Err(_) => break`), and the method *)
(* goes on with the next statement.                                        *)
DeleteFtsFails ==
    /\ Running("del_fts")
    /\ "del_fts" \in FaultyStmts
    /\ faults < MaxFaults
    /\ faults' = faults + 1
    /\ Continue(AfterFtsLoop(prog))
    /\ UNCHANGED <<files, symbols, params, fts, edges, deps, seq, lastId>>

(* A failing FTS INSERT is ignored (`let _ =`).                            *)
InsertFtsFails ==
    /\ Running("ins_fts")
    /\ "ins_fts" \in FaultyStmts
    /\ faults < MaxFaults
    /\ faults' = faults + 1
    /\ Continue(Tail(prog))
    /\ UNCHANGED <<files, symbols, params, fts, edges, deps, seq, lastId>>

(* Any other failing statement returns its error at the `?`.               *)
StmtFails ==
    /\ prog # <<>>
    /\ cur.s \in FaultyStmts \ {"del_fts", "ins_fts"}
    /\ faults < MaxFaults
    /\ faults' = faults + 1
    /\ Abort
    /\ UNCHANGED <<files, symbols, params, fts, edges, deps, seq, lastId>>

(* Another process resolves a qualified name (resolve_symbol of the       *)
(* query engines: SELECT ... FROM symbols WHERE qualified_name = ?1): the  *)
(* files that have a symbol of that name.                                 *)
ResolveSymbol(q) ==
    /\ call # NoCall
    /\ reads' = reads \cup {[q |-> q, in |-> FilesHaving(View.syms, q)]}
    /\ UNCHANGED <<dbVars, prog, call, lastCall, err, snap, ops, faults>>

\* A batch of upsert_files has at most one record per path.
Batches == {B \in SUBSET (Files \X Hashes) :
              \A b, c \in B : b[1] = c[1] => b = c}

StoreNext ==
    \/ \E B \in Batches : UpsertFiles(B)
    \/ \E q \in Names : ResolveSymbol(q)
    \/ \E f \in Files :
          \/ \E S \in SUBSET Names : ReplaceFileSymbols(f, S)
          \/ \E K \in SUBSET Keys : ReplaceFileEdges(f, K)
          \/ \E M \in SUBSET Mods : ReplaceExternalDeps(f, M)
          \/ DeleteFileGraph(f)
          \/ \E n \in Files \ {f} : RenameFile(f, n)
    \/ UpsertFileStmt \/ DeleteFtsStmt \/ DeleteParamsStmt \/ DeleteSymbolsStmt
    \/ InsertSymbolStmt \/ InsertParamStmt \/ InsertFtsStmt
    \/ DeleteEdgesStmt \/ InsertEdgeStmt \/ DeleteDepsStmt \/ InsertDepStmt
    \/ DeleteFileStmt \/ MoveSymbolsStmt \/ MoveEdgesStmt \/ MoveDepsStmt
    \/ DeleteFtsFails \/ InsertFtsFails \/ StmtFails

StoreSpec == StoreInit /\ [][StoreNext]_storeVars

-----------------------------------------------------------------------------
(* The abstract view: while a call runs, the database as it found it; in  *)
(* the step that ends the call, the primed view is the database it left.  *)
Abs == INSTANCE FileStore WITH
    aFiles <- IF call = NoCall THEN files ELSE snap.files,
    aSyms <- IF call = NoCall THEN View.syms ELSE snap.syms,
    aEdges <- IF call = NoCall THEN edges ELSE snap.edges,
    aDeps <- IF call = NoCall THEN deps ELSE snap.deps,
    aCall <- lastCall

(* What spec.md's per-file contract still gives, statement by statement:   *)
(* a call that returns Ok has had exactly the contract's effect on the     *)
(* tables it started from (FTS breaks and ignored FTS inserts included),   *)
(* and a call that returns an error without any statement being made to    *)
(* fail is one the contract refuses (a foreign key or the UNIQUE name of a *)
(* rename).  About the order of the DELETEs against the foreign keys, the  *)
(* FTS loop's break, the rename's upsert before its UPDATEs and INSERT OR  *)
(* IGNORE.  What an error leaves behind is not judged: nothing rolls back. *)
OkCallsTakeEffect ==
    [][call # NoCall /\ call' = NoCall =>
         IF err' THEN faults' = faults => ~Abs!Allowed(call)
         ELSE Abs!Effect(call)]_storeVars

(* At rest and with no failed statement, every symbol has exactly its     *)
(* parameter row and its FTS row under its own id and name, and no        *)
(* parameter or FTS row is left over from a deleted, replaced or renamed  *)
(* symbol.                                                                 *)
DerivedRowsMirrorSymbols ==
    call = NoCall /\ faults = 0 =>
        /\ params = {r.id : r \in symbols}
        /\ fts = {[id |-> r.id, q |-> r.q] : r \in symbols}

(* An FTS row whose symbol id is in use names that symbol: a search that   *)
(* joins symbol_fts with symbols on the id never returns a symbol for      *)
(* another symbol's text, even after FTS deletes broke off early.          *)
FtsNeverMisattributed ==
    \A r \in fts, s \in symbols : r.id = s.id => r.q = s.q

(* A query engine resolving a name while a write call runs finds it in   *)
(* the files that had it before the call or in those that have it after   *)
(* the call returned, never in a mix: a name a replace keeps is not       *)
(* reported missing, and a renamed symbol is not in both files or none.   *)
ReadersSeeBeforeOrAfter ==
    [][call # NoCall /\ call' = NoCall =>
         \A r \in reads :
            r.in \in {FilesHaving(snap.syms, r.q), FilesHaving(View'.syms, r.q)}]_storeVars
=============================================================================
