----------------------------- MODULE FileStore ------------------------------
(***************************************************************************)
(* What the per-file write methods of a shard database promise (spec.md,   *)
(* "Per-file replacement contract (atomicity required)" and postcondition *)
(* 5): each call of replace_file_symbols, replace_file_edges,            *)
(* replace_external_deps, delete_file_graph or rename_file takes effect as *)
(* one step, or fails and leaves the database as it was (its savepoint is  *)
(* rolled back).  Symbols are seen as the set of qualified names per file; *)
(* ids, parameters and FTS rows are the detailed module's business.        *)
(*                                                                         *)
(* aCall records the call each step answers, so that a step is checked     *)
(* against the operation that was actually invoked with its arguments.     *)
(***************************************************************************)
CONSTANTS Files, Names, Keys, Mods, Hashes, NoRow

VARIABLES
    aFiles,   \* [Files -> Hashes \cup {NoRow}]: the files table
    aSyms,    \* [Files -> SUBSET Names]: qualified names per file_path
    aEdges,   \* set of [k, f]: edge uniqueness key and owning file_path
    aDeps,    \* set of [f, m]: external_deps rows
    aCall     \* the last call that returned

aVars == <<aFiles, aSyms, aEdges, aDeps, aCall>>

OwnedBy(rows, f) == {e \in rows : e.f = f}

KeysTaken(es) == {e.k : e \in es}

AbsInit ==
    /\ aFiles = [f \in Files |-> NoRow]
    /\ aSyms = [f \in Files |-> {}]
    /\ aEdges = {}
    /\ aDeps = {}
    /\ aCall = [op |-> "none", f |-> NoRow, g |-> NoRow, arg |-> {}]

(* A call returns: its effect happens at once, or it fails with no effect. *)
Answer(c, effect) ==
    /\ aCall' = c
    /\ \/ effect
       \/ UNCHANGED <<aFiles, aSyms, aEdges, aDeps>>

(* upsert_files is not under the per-file contract: each record is upserted *)
(* on its own, so a failure may leave any part of the batch applied.       *)
UpsertFiles(batch) ==
    /\ aCall' = [op |-> "upsert_files", f |-> NoRow, g |-> NoRow, arg |-> batch]
    /\ \E done \in SUBSET batch :
          aFiles' = [f \in Files |->
                       IF \E b \in done : b[1] = f
                         THEN (CHOOSE b \in done : b[1] = f)[2]
                         ELSE aFiles[f]]
    /\ UNCHANGED <<aSyms, aEdges, aDeps>>

(* When the contract lets call c take effect: a symbol or a dependency     *)
(* needs its files row (foreign key), and a rename may not give the new    *)
(* path a name it already has (UNIQUE (qualified_name, file_path)).        *)
Allowed(c) ==
    CASE c.op \in {"replace_file_symbols", "replace_external_deps"} ->
             aFiles[c.f] # NoRow \/ c.arg = {}
      [] c.op = "rename_file" ->
             aFiles[c.f] = NoRow \/ aSyms[c.g] \cap aSyms[c.f] = {}
      [] OTHER -> TRUE

Moved(rows, o, n) ==
    (rows \ OwnedBy(rows, o)) \cup {[e EXCEPT !.f = n] : e \in OwnedBy(rows, o)}

(* The effect of call c when it takes effect.  Postcondition 5 for the     *)
(* symbols; INSERT-OR-IGNORE for edges, so a key another file holds is    *)
(* not inserted; a rename of a path with no row does nothing.              *)
Effect(c) ==
    LET f == c.f IN
    CASE c.op = "upsert_files" ->
           /\ aFiles' = [p \in Files |-> IF \E b \in c.arg : b[1] = p
                                           THEN (CHOOSE b \in c.arg : b[1] = p)[2]
                                           ELSE aFiles[p]]
           /\ UNCHANGED <<aSyms, aEdges, aDeps>>
      [] c.op = "replace_file_symbols" ->
           /\ aSyms' = [aSyms EXCEPT ![f] = c.arg]
           /\ UNCHANGED <<aFiles, aEdges, aDeps>>
      [] c.op = "replace_file_edges" ->
           LET kept == aEdges \ OwnedBy(aEdges, f) IN
           /\ aEdges' = kept \cup {[k |-> k, f |-> f] : k \in c.arg \ KeysTaken(kept)}
           /\ UNCHANGED <<aFiles, aSyms, aDeps>>
      [] c.op = "replace_external_deps" ->
           /\ aDeps' = (aDeps \ OwnedBy(aDeps, f)) \cup {[f |-> f, m |-> m] : m \in c.arg}
           /\ UNCHANGED <<aFiles, aSyms, aEdges>>
      [] c.op = "delete_file_graph" ->
           /\ aFiles' = [aFiles EXCEPT ![f] = NoRow]
           /\ aSyms' = [aSyms EXCEPT ![f] = {}]
           /\ aEdges' = aEdges \ OwnedBy(aEdges, f)
           /\ aDeps' = aDeps \ OwnedBy(aDeps, f)
      [] c.op = "rename_file" ->
           IF aFiles[f] = NoRow
             THEN UNCHANGED <<aFiles, aSyms, aEdges, aDeps>>
             ELSE /\ aFiles' = [aFiles EXCEPT ![c.g] = aFiles[f], ![f] = NoRow]
                  /\ aSyms' = [aSyms EXCEPT ![c.g] = @ \cup aSyms[f], ![f] = {}]
                  /\ aEdges' = Moved(aEdges, f, c.g)
                  /\ aDeps' = Moved(aDeps, f, c.g)

(* A per-file call returns: it takes effect at once if the contract lets   *)
(* it, or fails with no effect.                                            *)
PerFileCall(op, f, g, arg) ==
    LET c == [op |-> op, f |-> f, g |-> g, arg |-> arg]
    IN Answer(c, Allowed(c) /\ Effect(c))

AbsNext ==
    \/ \E batch \in SUBSET (Files \X Hashes) : UpsertFiles(batch)
    \/ \E f \in Files :
          \/ \E S \in SUBSET Names : PerFileCall("replace_file_symbols", f, NoRow, S)
          \/ \E K \in SUBSET Keys : PerFileCall("replace_file_edges", f, NoRow, K)
          \/ \E M \in SUBSET Mods : PerFileCall("replace_external_deps", f, NoRow, M)
          \/ PerFileCall("delete_file_graph", f, NoRow, {})
          \/ \E n \in Files \ {f} : PerFileCall("rename_file", f, n, {})

AbsSpec == AbsInit /\ [][AbsNext]_aVars
=============================================================================
