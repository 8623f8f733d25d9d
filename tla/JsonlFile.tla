------------------------------ MODULE JsonlFile ------------------------------
(***************************************************************************)
(* The append-only JSONL file of state/_jsonl.py.                          *)
(*                                                                         *)
(* A file is a sequence of lines and a flag that says whether the last     *)
(* write stopped before its newline.  append_record holds LOCK_EX and      *)
(* read_records holds LOCK_SH, so a whole read and a whole write are each  *)
(* one step; what the callers do between a read and a write is not.        *)
(***************************************************************************)
EXTENDS Sequences, Integers

CONSTANT Corrupt      \* a line that json.loads rejects

EmptyFile == [lines |-> <<>>, torn |-> FALSE]

\* Mutant: a reader that skips the lines it cannot parse.
ReadableTail(file) == ~file.torn

\* read_records raises on a missing final newline and on any bad line.
Readable(file) == ~file.torn /\ \A i \in DOMAIN file.lines : file.lines[i] # Corrupt

\* The write opens in append mode and never looks at the tail: after a torn
\* write its record continues the fragment, and the joined line is no JSON.
AppendRecord(file, record) ==
    [lines |-> Append(file.lines, IF file.torn THEN Corrupt ELSE record), torn |-> FALSE]

\* The process is killed, or the disk fills up, part of the way through.
AppendTorn(file) == [file EXCEPT !.torn = TRUE]

\* The positions of the lines that still parse.
Intact(file) == {i \in DOMAIN file.lines : file.lines[i] # Corrupt}

Records(file) == {file.lines[i] : i \in Intact(file)}

=============================================================================
