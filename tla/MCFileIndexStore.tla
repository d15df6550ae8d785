-------------------------- MODULE MCFileIndexStore --------------------------
(* Model-checking instance of FileIndexStore: paths, names, keys, modules *)
(* and hashes are model values given in the cfg files.                     *)
EXTENDS FileIndexStore
=============================================================================
