------------------------------ MODULE Manifest ------------------------------
(* The manifest beside a directory of produced tables                       *)
(* (experiment/provenance.py).  A sha256 is the content it is taken of: two  *)
(* files have equal hashes exactly when they have equal contents.            *)

CONSTANTS
  Absent,    \* there is no such file
  Torn       \* a file whose writer was killed before the last byte

(* provenance.build: the listed files (the configuration and the inputs that *)
(* the script names) and the tables are hashed as they are on disk when the  *)
(* manifest is made, which is after the last table.  What else the tables    *)
(* depend on is in no list: the code is, at most, a note.                    *)
ManifestOf(listed, tables) == [inputs |-> listed, outputs |-> tables]

(* Every listed file is there.                                               *)
Present(listed) == \A f \in DOMAIN listed : listed[f] # Absent

(* A listed file that was missing, or is, is not compared.                   *)
Agree(recorded, listed) ==
  \A f \in DOMAIN listed :
    Absent \in {recorded[f], listed[f]} \/ recorded[f] = listed[f]

(* provenance.verify returns no complaint.  A manifest that is not there or  *)
(* does not parse verifies nothing.                                          *)
Verified(manifest, listed, tables) ==
  /\ manifest \notin {Absent, Torn}
  /\ manifest.outputs = tables
  /\ Agree(manifest.inputs, listed)
=============================================================================
