------------------------------ MODULE Pgf2Yaml ------------------------------
(***************************************************************************)
(* utils/pgf2yaml.c: a grammar is read from a file and dumped as YAML.     *)
(* The file is one that stands for a grammar, or such a file of which the  *)
(* end is missing or one byte is wrong.                                    *)
(***************************************************************************)
EXTENDS Dump

CONSTANTS
  Grammars,    \* the grammars there are files of
  FileOf,      \* [Grammars -> Seq(0..255)]
  WrongBytes   \* what a damaged byte can be

ASSUME FilesAssumption ==
  /\ WrongBytes \subseteq 0..255
  /\ FileOf \in [Grammars -> Seq(0..255)]

VARIABLES
  grammar,  \* what the file stands for
  damage,   \* "none", "truncated" or "corrupt"
  file,     \* the bytes of stdin
  rdr,      \* the reader after pgf_read_pgf
  dump,     \* the GuDump
  pc        \* "open", "dump", "done", "failed" or "stopped"

vars == <<grammar, damage, file, rdr, dump, pc>>

Init ==
  /\ grammar \in Grammars
  /\ damage = "none"
  /\ file = FileOf[grammar]
  /\ rdr = NULL /\ dump = NULL
  /\ pc = "open"

Truncate(n) ==
  /\ pc = "open" /\ damage = "none"
  /\ file' = SubSeq(file, 1, n)
  /\ damage' = "truncated"
  /\ UNCHANGED <<grammar, rdr, dump, pc>>

Corrupt(i, b) ==
  /\ pc = "open" /\ damage = "none"
  /\ file[i] # b
  /\ file' = [file EXCEPT ![i] = b]
  /\ damage' = "corrupt"
  /\ UNCHANGED <<grammar, rdr, dump, pc>>

ReadPgf ==
  /\ pc = "open"
  /\ rdr' = pgf_read_pgf(file)
  /\ pc' = CASE rdr'.fatal # NULL -> "stopped"
             [] ~Ok(rdr') -> "failed"
             [] OTHER -> "dump"
  /\ UNCHANGED <<grammar, damage, file, dump>>

DumpPgf ==
  /\ pc = "dump"
  /\ dump' = gu_dump("PgfPGF", <<rdr.got>>, gu_new_dump(rdr.heap))
  /\ pc' = IF dump'.fatal # NULL THEN "stopped" ELSE "done"
  /\ UNCHANGED <<grammar, damage, file, rdr>>

Next ==
  \/ \E n \in 0..Len(file) - 1 : Truncate(n)
  \/ \E i \in DOMAIN file, b \in WrongBytes : Corrupt(i, b)
  \/ ReadPgf
  \/ DumpPgf

Spec == Init /\ [][Next]_vars

=============================================================================
