------------------------------- MODULE Expand -------------------------------
(***************************************************************************)
(* The replacement of placeholders in command lines (onefuzz, expand.rs)   *)
(* and the command lines of a libFuzzer target built with it               *)
(* (libfuzzer.rs).                                                         *)
(*                                                                         *)
(* A text is a sequence of tokens: a placeholder or a piece of other text. *)
(* An argument is a text, a command line a sequence of arguments.  The     *)
(* placeholder {input} is written "<input>".                               *)
(***************************************************************************)
EXTENDS Naturals, Sequences, SequencesExt, FiniteSets

CONSTANTS Paths,        \* placeholders whose setters take a path
          Scalars,      \* placeholders whose setters take a scalar
          Lists,        \* placeholders whose setters take a list
          Words,        \* pieces of other text
          Texts,        \* texts the configuration of a task may contain
          Ids,          \* texts of scalars
          Missing,      \* pieces of text that name no file
          Nameless,     \* pieces that leave a path without a file name: "x/.."
          MaxList       \* bound: the length of a list

Input == "<input>"
(* The values of these are computed from the value of {input}.             *)
Mappings == {"<input_file_name>", "<input_file_name_no_ext>", "<input_file_sha256>"}
(* PlaceHolder: what is known, whether or not it has a value.              *)
Known == Paths \union Scalars \union Lists \union Mappings \union {Input}
(* What VAR_RE matches; "<typo>" stands for the names nobody knows.        *)
IsPlaceholder(token) == token \in Known \union {"<typo>"}
Tokens == Known \union {"<typo>"} \union Words

\* A placeholder has one setter.
ExpandAssumption ==
    /\ IsFiniteSet(Paths) /\ IsFiniteSet(Scalars) /\ IsFiniteSet(Lists)
    /\ Paths \cap Scalars = {} /\ Paths \cap Lists = {} /\ Scalars \cap Lists = {}
    /\ (Paths \union Scalars \union Lists) \cap (Mappings \union {Input}) = {}
    /\ Texts \subseteq Seq(Tokens) /\ Ids \subseteq Seq(Tokens) /\ MaxList \in Nat

VARIABLES values,     \* Expand::values
          options,    \* the target options
          result      \* of the last evaluation

vars == <<values, options, result>>

Error == [ok |-> FALSE, text |-> <<>>]
Value(t) == [ok |-> TRUE, text |-> t]

-----------------------------------------------------------------------------
(* The file name in a path as it was set, placeholders and all.            *)
FileName(path) == IF path = <<>> \/ Last(path) \in Nameless THEN Error ELSE Value(<<Last(path)>>)
Stem(r) == IF r.ok THEN Value(Append(r.text, "stem")) ELSE Error
Derived(m, path) ==
    CASE m = "<input_file_name>" -> FileName(path)
      [] m = "<input_file_name_no_ext>" -> Stem(FileName(path))
      [] OTHER -> IF \E i \in 1..Len(path) : IsPlaceholder(path[i]) \/ path[i] \in Missing
                  THEN Error ELSE Value(<<"digest">>)

(* extract_file_name, extract_file_name_no_ext, input_file_sha256.         *)
MappingFn(vs, m) ==
    IF Input \notin DOMAIN vs \/ vs[Input].kind # "path" THEN Error
    ELSE Derived(m, vs[Input].text)

(* The file system: a path whose parts exist has one canonical form.       *)
Canonicalize(r) ==
    IF ~r.ok \/ \E i \in 1..Len(r.text) : r.text[i] \in Missing THEN Error
    ELSE Value(IF r.text # <<>> /\ Head(r.text) = "/" THEN r.text ELSE <<"/">> \o r.text)

Concat(rs) ==
    IF \A i \in 1..Len(rs) : rs[i].ok THEN Value(FlattenSeq([i \in 1..Len(rs) |-> rs[i].text]))
    ELSE Error

(* replaced.join(" ")                                                      *)
Space == " "
Join(rs) == Concat([i \in 1..Len(rs) |-> IF i = 1 \/ ~rs[i].ok THEN rs[i]
                                         ELSE Value(<<Space>> \o rs[i].text)])

(* get_value; eval evaluates a text with a stack.                          *)
GetValue(vs, name, stack, eval) ==
    LET ev == vs[name] IN
    CASE ev.kind = "path" -> Canonicalize(eval[<<ev.text, stack>>])
      [] ev.kind = "scalar" -> Value(ev.text)
      [] ev.kind = "list" -> Join([i \in 1..Len(ev.list) |-> eval[<<ev.list[i], stack>>]])
      [] ev.kind = "mapping" -> MappingFn(vs, name)

(* One placeholder, in the closure of evaluate_value_checked.              *)
Replace(vs, token, stack, eval) ==
    IF ~IsPlaceholder(token) THEN Value(<<token>>)
    ELSE IF token \notin DOMAIN vs THEN Error
    ELSE IF Contains(stack, token) THEN Error
    ELSE GetValue(vs, token, Append(stack, token), eval)

(* evaluate_value_checked: all placeholders are tried; any error fails.    *)
EvaluateValueChecked(vs) ==
    LET eval[q \in Seq(Tokens) \X Seq(Tokens)] ==
            Concat([i \in 1..Len(q[1]) |-> Replace(vs, q[1][i], q[2], eval)])
    IN  eval

EvaluateValue(vs, t) == EvaluateValueChecked(vs)[<<t, <<>>>>]

(* evaluate: a sequence of arguments, or Error.                            *)
Evaluate(vs, args) ==
    LET rs == [i \in 1..Len(args) |-> EvaluateValue(vs, args[i])] IN
    IF \A i \in 1..Len(rs) : rs[i].ok
    THEN [ok |-> TRUE, args |-> [i \in 1..Len(rs) |-> rs[i].text]]
    ELSE [ok |-> FALSE, args |-> <<>>]

-----------------------------------------------------------------------------
(* Command lines.                                                          *)

Modes == {"fuzz", "check_input", "check_help", "merge", "repro"}

(* The flag or file without which a mode makes no sense.                   *)
Required == [fuzz |-> "-artifact_prefix", check_input |-> "/input", check_help |-> "-help=1",
             merge |-> "-merge=1", repro |-> "/input"]

(* The closure check_input filters the custom options with.                *)
KeepOption(mode, text) == mode = "check_input" => (text = <<>> \/ Head(text) # "-runs")

Kept(mode, args) ==
    LET kept[i \in 0..Len(args)] ==
          IF i = 0 THEN <<>>
          ELSE IF KeepOption(mode, args[i]) THEN Append(kept[i - 1], args[i]) ELSE kept[i - 1]
    IN  kept[Len(args)]

BuildStdCommand_CustomFirst(vs, mode, opts) ==
    LET custom == Evaluate(vs, opts) IN
    [ok |-> custom.ok,
     args |-> <<<<"-workers=1">>>>
        \o Kept(mode, custom.args)
        \o <<<<Required[mode]>>>>
        \o IF \E i \in 1..Len(opts) : opts[i] # <<>> /\ Head(opts[i]) = "-max_total_time"
           THEN <<>> ELSE <<<<"-max_total_time", "default">>>>]

(* build_std_command: the flags of the mode come before the custom         *)
(* options.  The environment is evaluated alike, and left out.             *)
BuildStdCommand(vs, mode, opts) ==
    LET custom == Evaluate(vs, opts) IN
    [ok |-> custom.ok,
     args |-> <<<<"-workers=1">>>> \o <<<<Required[mode]>>>>
        \o (IF \E i \in 1..Len(opts) : opts[i] # <<>> /\ Head(opts[i]) = "-max_total_time"
            THEN <<>> ELSE <<<<"-max_total_time", "default">>>>)
        \o Kept(mode, custom.args)]

(* repro: the tester appends the input to the custom options.              *)
Repro(vs, opts) ==
    LET custom == Evaluate(vs, opts) IN
    [ok |-> custom.ok, args |-> Append(custom.args, <<"/input">>)]

Command(vs, mode, opts) ==
    IF mode = "repro" THEN Repro(vs, opts) ELSE BuildStdCommand(vs, mode, opts)

(* libFuzzer's parser stops after this flag.                               *)
Parsed(args) ==
    LET stop == {i \in 1..Len(args) : args[i] = <<"-ignore_remaining_args=1">>} IN
    {args[i] : i \in {j \in 1..Len(args) : \A k \in stop : j <= k}}

-----------------------------------------------------------------------------
NewValues == [m \in Mappings |-> [kind |-> "mapping", text |-> <<>>, list |-> <<>>]]

Idle == [of |-> <<>>, mode |-> "none", args |-> <<>>, ok |-> FALSE, text |-> <<>>]

Init == /\ values = NewValues
        /\ options = <<>>
        /\ result = Idle

(* set_value: the last value set for a placeholder counts.                 *)
SetValue(name, ev) ==
    /\ result = Idle
    /\ values' = [n \in DOMAIN values \union {name} |-> IF n = name THEN ev ELSE values[n]]
    /\ UNCHANGED <<options, result>>

SetPath(name, t) == SetValue(name, [kind |-> "path", text |-> t, list |-> <<>>])

(* Identifiers, keys, account and container names; input_marker.           *)
SetScalar(name, t) == SetValue(name, [kind |-> "scalar", text |-> t, list |-> <<>>])

(* The options of the target, which are the list of the command, too.      *)
SetList(name, l) ==
    /\ result = Idle
    /\ values' = [n \in DOMAIN values \union {name} |->
                    IF n = name THEN [kind |-> "list", text |-> <<>>, list |-> l] ELSE values[n]]
    /\ options' = l
    /\ UNCHANGED result

EvaluateText(t) ==
    /\ result = Idle
    /\ LET r == EvaluateValue(values, t) IN
          result' = [Idle EXCEPT !.of = t, !.ok = r.ok, !.text = r.text]
    /\ UNCHANGED <<values, options>>

BuildCommand(mode) ==
    /\ result = Idle
    /\ LET c == Command(values, mode, options) IN
          result' = [Idle EXCEPT !.mode = mode, !.ok = c.ok, !.args = c.args]
    /\ UNCHANGED <<values, options>>

Next ==
    \/ \E t \in Texts :
          \/ EvaluateText(t)
          \/ \E n \in Paths \union {Input} : SetPath(n, t)
    \/ \E n \in Scalars \union {Input}, t \in Ids : SetScalar(n, t)
    \/ \E n \in Lists, l \in UNION {[1..k -> Texts] : k \in 0..MaxList} : SetList(n, l)
    \/ \E mode \in Modes : BuildCommand(mode)

Spec == Init /\ [][Next]_vars

-----------------------------------------------------------------------------
TypeOK ==
    /\ Mappings \subseteq DOMAIN values /\ DOMAIN values \subseteq Known
    /\ \A n \in DOMAIN values : values[n].kind =
          (CASE n \in Mappings -> "mapping" [] n \in Paths -> "path" [] n \in Lists -> "list"
             [] n \in Scalars -> "scalar" [] n = Input -> IF values[n].kind = "path" THEN "path" ELSE "scalar")
    /\ result.ok \in BOOLEAN

(* The reference: placeholders get their values bottom up, those first     *)
(* whose values mention none, and the ones that never get one are on or    *)
(* lead to a cycle, have no value or name no file.                         *)
Needs(vs, n) ==
    CASE vs[n].kind = "path" -> {vs[n].text[i] : i \in 1..Len(vs[n].text)}
      [] vs[n].kind = "list" -> UNION {{vs[n].list[k][i] : i \in 1..Len(vs[n].list[k])} : k \in 1..Len(vs[n].list)}
      [] OTHER -> {}

Subst(known, t) ==
    Concat([i \in 1..Len(t) |-> IF ~IsPlaceholder(t[i]) THEN Value(<<t[i]>>)
                                ELSE IF t[i] \in DOMAIN known THEN known[t[i]] ELSE Error])

Round(vs, known) ==
    LET ready == {n \in DOMAIN vs : \A p \in Needs(vs, n) : IsPlaceholder(p) => p \in DOMAIN known} IN
    [n \in ready |->
        CASE vs[n].kind = "path" -> Canonicalize(Subst(known, vs[n].text))
          [] vs[n].kind = "scalar" -> Value(vs[n].text)
          [] vs[n].kind = "list" -> Join([i \in 1..Len(vs[n].list) |-> Subst(known, vs[n].list[i])])
          [] vs[n].kind = "mapping" -> MappingFn(vs, n)]

Bottom(vs) ==
    LET known[k \in 0..Cardinality(Known)] ==
          IF k = 0 THEN [n \in {} |-> Error] ELSE Round(vs, known[k - 1])
    IN  known[Cardinality(Known)]

(* The evaluation with a stack of the replacements under way computes what *)
(* the bottom-up definition does: it rejects exactly the texts that need a *)
(* placeholder that contains itself, has no value or names no file, and a  *)
(* placeholder used twice, or in two lists, is no cycle                    *)
(* (evaluate_value_checked).                                               *)
EvaluatesBottomUp ==
    result.of # <<>> => [ok |-> result.ok, text |-> result.text] = Subst(Bottom(values), result.of)

(* However the user's options are ordered, libFuzzer sees the flag or the  *)
(* input a command is about: custom options come last and may tell it to   *)
(* ignore what follows (build_std_command).                                *)
ModeSeen ==
    result.mode \notin {"none", "repro"} /\ result.ok => <<Required[result.mode]>> \in Parsed(result.args)

(* Checking an input runs it once: no -runs= reaches libFuzzer, not even   *)
(* one that is the value of a placeholder (check_input).                   *)
ChecksOnce ==
    result.mode = "check_input" /\ result.ok => \A a \in Parsed(result.args) : a = <<>> \/ Head(a) # "-runs"
=============================================================================
