------------------------------- MODULE Sweep -------------------------------
(***************************************************************************)
(* The recovery of the basic blocks of a function from its code            *)
(* (debuggable-module/src/block.rs): a work list finds the entry points,   *)
(* then each block is cut from its entry point to the first instruction    *)
(* that ends it.  Coverage is recorded at the start of each block, so what *)
(* a block covers must be what runs once its start runs.                   *)
(*                                                                         *)
(* Code is the instruction that decodes at each byte, so that jumps into   *)
(* the middle of another instruction are possible.                         *)
(***************************************************************************)
EXTENDS Naturals, Sequences, FiniteSets, SequencesExt

CONSTANTS
    Base, Size,      \* the function's region
    Outside,         \* an offset outside it
    Instructions,    \* what may decode: [kind, len, target]
    NoReturn,        \* the offsets in functions that do not return
    LabelSets        \* the possible sets of jump labels

Region == Base..(Base + Size - 1)
End == Base + Size

SweepAssumption ==
    /\ Base \in Nat /\ Size \in Nat \ {0}
    /\ Outside \in Nat \ Region
    /\ \A i \in Instructions : i.len \in Nat \ {0} /\ i.target \in Nat
    /\ \A labels \in LabelSets : labels \subseteq Nat

VARIABLES
    code,      \* the instruction at each offset
    labels,    \* DebugInfo::labels
    pending, visited, blocks, pc

vars == <<code, labels, pending, visited, blocks, pc>>

Bad == [kind |-> "Exception", len |-> 1, target |-> Outside]

\* An instruction that runs past the data is invalid.
Decode(a) == IF a + code[a].len > End THEN Bad ELSE code[a]

NextIp(a) == a + Decode(a).len

\* The instructions after which the next one runs.  A call to a function that does
\* not return ends the block; an indirect call is taken to return.
FallsThrough(a) ==
    LET i == Decode(a) IN
    \/ i.kind = "Next"
    \/ i.kind = "Call" /\ i.target \notin NoReturn

----------------------------------------------------------------------------
(* sweep_region.                                                           *)

\* The entry point and the labels inside the region are scheduled; the last one
\* pushed is taken first.
Init ==
    /\ code \in [Region -> Instructions]
    /\ labels \in LabelSets
    /\ \E s \in SetToSeqs({l \in labels \cap Region : l # Base}) :
         /\ \A i, j \in DOMAIN s : i < j => s[i] < s[j]
         /\ pending = <<Base>> \o s
    /\ visited = {} /\ blocks = {} /\ pc = "Visit"

\* The first instruction from a that does not fall through, or the end of the data.
Terminator[a \in Region \cup {End}] ==
    IF a = End THEN End
    ELSE IF FallsThrough(a) THEN Terminator[NextIp(a)] ELSE a

\* What the end of a run of instructions schedules.
Targets(t) ==
    IF t = End THEN <<>>
    ELSE CASE Decode(t).kind = "UnconditionalBranch" -> <<Decode(t).target>>
           [] Decode(t).kind = "ConditionalBranch" -> <<Decode(t).target, NextIp(t)>>
           [] OTHER -> <<>>

Visit ==
    /\ pc = "Visit" /\ pending # <<>>
    /\ LET entry == Last(pending) IN
       IF entry \notin Region \/ entry \in visited
       THEN pending' = Front(pending) /\ UNCHANGED visited
       ELSE /\ visited' = visited \cup {entry}
            /\ pending' = Front(pending) \o Targets(Terminator[entry])
    /\ UNCHANGED <<code, labels, blocks, pc>>

BlockEnd_PastEntries(a) ==
    LET From[b \in Region \cup {End}] ==
            IF b = End THEN End
            ELSE IF Decode(b).kind = "Exception" THEN b
            ELSE IF ~FallsThrough(b) THEN NextIp(b)
            ELSE From[NextIp(b)]
    IN From[a]

\* Where the block that starts at a ends: before an invalid instruction, after one
\* that does not fall through, or at the next entry point.
BlockEnd(a) ==
    LET From[b \in Region \cup {End}] ==
            IF b = End THEN End
            ELSE IF Decode(b).kind = "Exception" THEN b
            ELSE IF ~FallsThrough(b) \/ NextIp(b) \in visited THEN NextIp(b)
            ELSE From[NextIp(b)]
    IN From[a]

Block(a, end) == [offset |-> a, size |-> end - a]

\* Empty blocks are dropped.
Cut ==
    /\ pc = "Visit" /\ pending = <<>>
    /\ blocks' = {Block(a, BlockEnd(a)) : a \in {v \in visited : BlockEnd(v) > v}}
    /\ pc' = "Done"
    /\ UNCHANGED <<code, labels, pending, visited>>

Next == Visit \/ Cut

Spec == Init /\ [][Next]_vars /\ WF_vars(Next)

----------------------------------------------------------------------------
(* Properties.                                                             *)

\* The type invariant.
TypeOK ==
    /\ pending \in Seq(Nat)
    /\ visited \subseteq Region
    /\ blocks \subseteq [offset : Region, size : 1..Size]
    /\ pc \in {"Visit", "Done"}

\* The instructions that may run after the one at a.
Succ(a) ==
    CASE FallsThrough(a) -> {NextIp(a)} \cap Region
      [] ~FallsThrough(a) /\ Decode(a).kind = "UnconditionalBranch" ->
           {Decode(a).target} \cap Region
      [] ~FallsThrough(a) /\ Decode(a).kind = "ConditionalBranch" ->
           {Decode(a).target, NextIp(a)} \cap Region
      [] OTHER -> {}

Entries == {Base} \cup (labels \cap Region)

\* The instructions that can run at all: the smallest set that holds the entries and
\* whatever follows its members.
Executed ==
    LET Closed(S) == Entries \subseteq S /\ \A a \in S : Succ(a) \subseteq S
        Sets == {S \in SUBSET Region : Closed(S)}
    IN {a \in Region : \A S \in Sets : a \in S}

\* Where control can arrive other than from the instruction before.
Leaders == Entries \cup UNION {Succ(a) : a \in {b \in Executed : ~FallsThrough(b)}}

\* The work list finds exactly the places where control can arrive: none is missed
\* because it was scheduled twice, outside, or behind a label (sweep_region).
EntriesExact == pc = "Done" => visited = Leaders

\* The instructions of a block, one after the other.
Stream(b) ==
    LET From[a \in Region \cup {End}] ==
            IF a >= b.offset + b.size THEN {}
            ELSE {a} \cup (IF FallsThrough(a) THEN From[NextIp(a)] ELSE {})
    IN From[b.offset]

\* Every block is basic: it is entered at its start only, so that one breakpoint
\* there tells whether it ran.
EnteredAtStart ==
    pc = "Done" => \A b \in blocks : \A l \in Leaders \ {b.offset} : l \notin Stream(b)

\* No two instructions that run overlap: code without jumps into the middle of an
\* instruction.
Aligned == \A a, b \in Executed : a < b => NextIp(a) <= b

\* In aligned code every valid instruction that can run is in exactly one block, and
\* no block holds anything else: nothing is counted twice and nothing is forgotten
\* (sweep_region, Blocks::find).
BlocksPartition ==
    pc = "Done" /\ Aligned =>
        \A o \in Region :
            Cardinality({b \in blocks : b.offset <= o /\ o < b.offset + b.size}) =
            IF \E a \in Executed : /\ a <= o /\ o < NextIp(a)
                                   /\ Decode(a).kind # "Exception"
            THEN 1 ELSE 0
=============================================================================
