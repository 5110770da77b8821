---------------------------- MODULE FileSummary ----------------------------
(***************************************************************************)
(* What one file contributes to the summary (parseLine and getSummary in   *)
(* sum_program/summariser.cpp), and the totals that the README promises.   *)
(*                                                                         *)
(* A line is a record of what the conversions find in it:                  *)
(*   comma     whether it has a comma                                      *)
(*   tag       the integer at its start, or NotANumber                     *)
(*   tagEnds   whether that integer ends at the first comma                *)
(*   value     the number after the comma, or NotANumber                   *)
(*   valueEnds whether that number ends with the line                      *)
(* Values are integers here: what the rounding of double sums depends on   *)
(* is not modelled.                                                        *)
(***************************************************************************)
EXTENDS Args, Sequences, FiniteSets, FiniteSetsExt

CONSTANTS
    INT_MAX,  \* the largest value of an int
    Lines     \* Lines[i]: the lines of the file with index i that can be read
              \* (an error of getline ends the loop as the end of the file does)

\* A summary maps some of the tags to a count and a sum.
NoSummary == [t \in {} |-> [count |-> 0, sum |-> 0]]

\* summary[tag] = entry
Put(summary, tag, entry) ==
    [t \in DOMAIN summary \cup {tag} |->
        IF t = tag THEN entry ELSE summary[t]]

AddEntry(a, b) == [count |-> a.count + b.count, sum |-> a.sum + b.sum]

\* std::stoi throws out_of_range for a number that is no int.
parseLine(line) ==
    IF /\ line.comma
       /\ line.tag # NotANumber
       /\ line.tag \in -INT_MAX - 1 .. INT_MAX
       /\ line.tagEnds
       /\ line.value # NotANumber
       /\ line.valueEnds
    THEN [tag |-> line.tag, value |-> line.value]
    ELSE [tag |-> -1, value |-> 0]

\* The body of getSummary's loop.
AddLine(summary, line) ==
    LET entry == parseLine(line)
        one == [count |-> 1, sum |-> entry.value]
    IN  IF entry.tag < 0 THEN summary
        ELSE Put(summary, entry.tag,
                 IF entry.tag \in DOMAIN summary
                 THEN AddEntry(summary[entry.tag], one)
                 ELSE one)

getSummary(lines) ==
    LET upTo[n \in 0 .. Len(lines)] ==
            IF n = 0 THEN NoSummary ELSE AddLine(upTo[n - 1], lines[n])
    IN  upTo[Len(lines)]

-----------------------------------------------------------------------------
(* The reference: every line counted where it stands, in no order. *)

\* README.md:5-9: a line is an unsigned integer, a comma and a number.
UINT_MAX == 2 * INT_MAX + 1

WellFormed(line) ==
    /\ line.comma
    /\ line.tag # NotANumber /\ line.tagEnds
    /\ line.tag >= 0 /\ line.tag <= UINT_MAX
    /\ line.value # NotANumber /\ line.valueEnds

\* The well-formed lines whose tag is an int, the type that parseLine gives it.
Accepted(line) == WellFormed(line) /\ line.tag <= INT_MAX

\* The totals of the lines of the given files that Counts accepts.
Totals(files, Counts(_)) ==
    LET places == UNION {{f} \X {n \in DOMAIN Lines[f] : Counts(Lines[f][n])} :
                         f \in files}
        line(p) == Lines[p[1]][p[2]]
        with(tag) == {p \in places : line(p).tag = tag}
    IN  [tag \in {line(p).tag : p \in places} |->
            [count |-> Cardinality(with(tag)),
             sum |-> MapThenSumSet(LAMBDA p : line(p).value, with(tag))]]
=============================================================================
