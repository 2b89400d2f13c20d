------------------------------ MODULE ReportChain ------------------------------
(***************************************************************************)
(* The sanitisation report of a workspace (governance/reporting.py): a     *)
(* file of lines, each row holding the hash of the row before it.  A row   *)
(* is identified by its number; that of another row stands for its hash.   *)
(***************************************************************************)
EXTENDS Integers, Sequences

\* A line is a row, or junk that is no JSON: the remains of an append that was
\* cut off, with whatever the next append added to the same line.
Junk == [row |-> 0, prev |-> 0]
IsRow(line) == line # Junk

\* Defective: the last line is hashed as it stands, junk too.
LastLine(lines) == Len(lines)

\* _last_report_chain_state: the hash the next row will refer to, none (0) at
\* the start of the file and after junk.
LastRow(lines) == IF lines = <<>> THEN 0 ELSE lines[Len(lines)].row

\* read_sanitization_reports: what a row must refer to is what the line before
\* it was, and a row is verified when it and all rows since the last junk are.
Linked(lines, k) == lines[k].prev = (IF k = 1 THEN 0 ELSE lines[k - 1].row)
Verified(lines, k) ==
  /\ IsRow(lines[k])
  /\ \A j \in 1..k : (\A i \in j..k : IsRow(lines[i])) => Linked(lines, j)
=============================================================================
