--------------------------- MODULE SourceCoverage ---------------------------
(***************************************************************************)
(* From the coverage of blocks to the coverage of source lines: which      *)
(* files are allowed (coverage/src/allowlist.rs and load_target_allowlist  *)
(* of the coverage task), how the count of a block becomes the count of    *)
(* its lines (coverage/src/source.rs), and the Cobertura report made of    *)
(* them (coverage/src/cobertura.rs).                                       *)
(*                                                                         *)
(* A rule is the set of files that its pattern matches; an instruction is  *)
(* the set of source lines that it and the functions inlined there belong  *)
(* to.                                                                     *)
(***************************************************************************)
EXTENDS Naturals, Sequences, FiniteSets, FiniteSetsExt

CONSTANTS
    Files,        \* source files
    Dir,          \* the directory of each
    Interceptors, \* the files that the base denylist of Windows names
    Texts,        \* the possible allowlist files: sequences of lines
    Blocks,       \* the blocks, by offset: sequences of instructions
    Lines,        \* of each instruction: a set of <<file, line>>
    Counts,       \* the possible counts of a block
    None

SourceCoverageAssumption ==
    /\ Interceptors \subseteq Files /\ None \notin Texts
    /\ \A t \in Texts : \A k \in DOMAIN t : t[k].matches \subseteq Files
    /\ Counts \subseteq Nat
    /\ DOMAIN Blocks \subseteq Nat
    /\ \A b \in DOMAIN Blocks : Blocks[b] \in Seq(DOMAIN Lines) \ {<<>>}
    /\ \A i \in DOMAIN Lines : IsFiniteSet(Lines[i])

Offsets == DOMAIN Blocks
AllLines == UNION {Lines[i] : i \in DOMAIN Lines}

VARIABLES
    text,       \* the file with the user's source allowlist, or None
    allowlist,  \* of source files
    binary,     \* the counts that were recorded, of two inputs
    todo,       \* the offsets still to be converted
    source,     \* SourceCoverage: the count of each line that has one
    pc

vars == <<text, allowlist, binary, todo, source, pc>>

----------------------------------------------------------------------------
(* Allowlists.                                                             *)

\* Blank lines, comments and lines that do not parse say nothing.
Rules(lines, kind) == {lines[k].matches : k \in {j \in DOMAIN lines : lines[j].kind = kind}}

AllowListOf(lines) == [allow |-> Rules(lines, "Allow"), deny |-> Rules(lines, "Deny")]

Default == [allow |-> {Files}, deny |-> {}]

is_allowed(al, f) == (\E r \in al.allow : f \in r) /\ ~(\E r \in al.deny : f \in r)

extend(al, other) == [allow |-> al.allow \cup other.allow, deny |-> al.deny \cup other.deny]

BaseDenylist == [allow |-> {}, deny |-> {Interceptors}]

\* load_target_allowlist on Windows.  Without a file everything is allowed, and with an
\* empty one nothing; extend returns a new list, which is dropped.
LoadAllowlist ==
    /\ pc = "Load"
    /\ LET user == IF text = None THEN Default ELSE AllowListOf(text)
           extended == extend(user, BaseDenylist)
       IN allowlist' = user
    /\ pc' = "Convert"
    /\ UNCHANGED <<text, binary, todo, source>>

----------------------------------------------------------------------------
(* binary_to_source_coverage.                                              *)

\* Coverage of several inputs is merged: the larger count is kept.
Merged == [b \in Offsets |-> Max({binary[k][b] : k \in 1..2})]

Init ==
    /\ text \in Texts \cup {None}
    /\ allowlist = Default
    /\ binary \in [1..2 -> [Offsets -> Counts]]
    /\ todo = Offsets
    /\ source = <<>>
    /\ pc = "Load"

\* instruction_offsets: the offset that is added lags behind the decoder by one
\* instruction, so the last one of several is not among them.
instruction_offsets(block) ==
    {block[1]} \cup {block[j] : j \in 1..(Len(block) - 1)}

\* The lines of a block that count.
BlockLines(al, b) ==
    {l \in UNION {Lines[i] : i \in instruction_offsets(Blocks[b])} :
        l[2] # 0 /\ is_allowed(al, l[1])}

AddCount_Last(src, lines, n) ==
    [l \in DOMAIN src \cup lines |-> IF l \notin lines THEN src[l] ELSE n]

\* A line that has a count keeps the larger one.
AddCount(src, lines, n) ==
    [l \in DOMAIN src \cup lines |->
        IF l \notin lines THEN src[l]
        ELSE IF l \in DOMAIN src THEN Max({src[l], n}) ELSE n]

\* The offsets of a module are converted in order.
Convert ==
    /\ pc = "Convert" /\ todo # {}
    /\ LET b == Min(todo) IN
       /\ todo' = todo \ {b}
       /\ source' = AddCount(source, BlockLines(allowlist, b), Merged[b])
    /\ UNCHANGED <<text, allowlist, binary, pc>>

----------------------------------------------------------------------------
(* The Cobertura report.                                                   *)

SourceFiles == {l[1] : l \in DOMAIN source}

HitCount(S) == [hit_lines |-> Cardinality({l \in S : source[l] > 0}),
                total_lines |-> Cardinality(S)]

file_to_class(f) ==
    LET own == {l \in DOMAIN source : l[1] = f} IN
    [filename |-> f, lines |-> {<<l[2], source[l]>> : l \in own}, count |-> HitCount(own)]

\* The sum of the counts of a set of classes or packages.
SumOf(S) ==
    [hit_lines |-> FoldSet(LAMBDA x, n : x.count.hit_lines + n, 0, S),
     total_lines |-> FoldSet(LAMBDA x, n : x.count.total_lines + n, 0, S)]

directory_to_package(d) ==
    LET classes == {file_to_class(f) : f \in {g \in SourceFiles : Dir[g] = d}}
    IN [name |-> d, classes |-> classes, count |-> SumOf(classes)]

Report ==
    LET packages == {directory_to_package(d) : d \in {Dir[f] : f \in SourceFiles}}
    IN [sources |-> SourceFiles, packages |-> packages, count |-> SumOf(packages)]

Finish ==
    /\ pc = "Convert" /\ todo = {}
    /\ pc' = "Done"
    /\ UNCHANGED <<text, allowlist, binary, todo, source>>

Next == LoadAllowlist \/ Convert \/ Finish

Spec == Init /\ [][Next]_vars

----------------------------------------------------------------------------
(* Properties.                                                             *)

\* The type invariant.
TypeOK ==
    /\ text \in Texts \cup {None}
    /\ allowlist.allow \subseteq SUBSET Files /\ allowlist.deny \subseteq SUBSET Files
    /\ todo \subseteq Offsets
    /\ DOMAIN source \subseteq AllLines
    /\ \A l \in DOMAIN source : source[l] \in Counts
    /\ pc \in {"Load", "Convert", "Done"}

\* The source coverage that one input's block counts alone give.
SourceOf(counts) ==
    LET kept == {k \in Offsets \X AllLines : k[2] \in BlockLines(allowlist, k[1])}
    IN [l \in {k[2] : k \in kept} |-> Max({counts[k[1]] : k \in {j \in kept : j[2] = l}})]

\* Converting the merged coverage of two inputs gives what merging their source
\* coverages would: the order of blocks, and which input reached which block, do not
\* matter (BinaryCoverage::merge, binary_to_source_coverage).  A line of several blocks has
\* the count of the one that ran most, which is what the code does and not what its comment
\* says: see PartMissed.
MergeCommutes ==
    pc = "Done" =>
        source = [l \in DOMAIN SourceOf(binary[1]) |->
                    Max({SourceOf(binary[1])[l], SourceOf(binary[2])[l]})]

\* "If we miss any part of a line, count it as missed" (source.rs:123): a line of which a
\* block was never executed has the count 0 in the source coverage.
PartMissed ==
    pc = "Done" =>
        \A l \in DOMAIN source :
            (\E b \in Offsets : l \in BlockLines(allowlist, b) /\ Merged[b] = 0) => source[l] = 0

\* A file that the user's allowlist denies, or does not allow, has no line in the
\* report, whatever the order of the rules and wherever it is inlined
\* (AllowList::is_allowed).
DeniedHasNoLine ==
    \A f \in SourceFiles : text # None =>
        /\ \E k \in DOMAIN text : text[k].kind = "Allow" /\ f \in text[k].matches
        /\ \A k \in DOMAIN text : text[k].kind = "Deny" => f \notin text[k].matches

\* Every file is one class of one package, every line is in it once, and the totals
\* of the report are those of all lines (CoberturaCoverage::from).
ReportComplete ==
    pc = "Done" =>
        /\ \A f \in SourceFiles :
             Cardinality({k \in Report.packages \X UNION {p.classes : p \in Report.packages} :
                            k[2] \in k[1].classes /\ k[2].filename = f}) = 1
        /\ Report.count.total_lines = Cardinality(DOMAIN source)
        /\ Report.count.hit_lines = Cardinality({l \in DOMAIN source : source[l] > 0})
=============================================================================
