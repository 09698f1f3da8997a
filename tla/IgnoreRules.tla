----------------------------- MODULE IgnoreRules -----------------------------
(***************************************************************************)
(* .utxignore (IgnoreManager.hpp, IgnoreCommand.hpp) and the walk over the  *)
(* working copy that `utx status` makes with it (StatusCommand.hpp).        *)
(*                                                                         *)
(* Texts, patterns and paths are sequences of one-character strings, "nl"  *)
(* the end of a line.  Names are short: "u" is .utx, "j" is                *)
(* .utx.deploy.json, "i" is .utxignore, "v" is .env, "w" is .idea and "n/" *)
(* stands for the rules .git/, node_modules/, build/ and cmake-build-*/.    *)
(***************************************************************************)
EXTENDS Naturals, Sequences, FiniteSets, SequencesExt, FiniteSetsExt

CONSTANTS Char,     \* the characters of texts and paths
          Absent    \* the text of a file that is not there

ASSUME CharAssumption ==
    /\ {"nl", " ", "/", ".", "#", "!", "*", "?", "i", "n", "r", "v", "w"} \subseteq Char
    /\ {"**", ".*", "[^/]*", "[^/]"} \cap Char = {}
ASSUME AbsentAssumption == Absent \notin Seq(Char)

Separator == "/"
Blank == " "        \* spaces, tabs and carriage returns
kUtxDir == <<"u">>
kDeployFile == <<"j">>
kIgnoreFile == <<"i">>
EnvFile == <<"v">>
IdeaDir == <<"w">>

-----------------------------------------------------------------------------
(* Writing the file. *)

\* utx ignore init: what it writes, its comment and its rules.
InitLines == << <<"#", "r">>, <<>>, kIgnoreFile, EnvFile, IdeaDir, <<"n", Separator>> >>
InitText == FlattenSeq([i \in DOMAIN InitLines |-> InitLines[i] \o <<"nl">>])
InitFile(text) == IF text = Absent THEN InitText ELSE text

append_ignore_pattern(text, pattern) ==
    IF pattern = <<>> THEN text
    ELSE (IF text = Absent THEN <<>> ELSE text) \o pattern \o <<"nl">>

\* The file after `utx ignore add` of some patterns, one after the other.
FileAfter(text, patterns) ==
    LET after[i \in 0..Len(patterns)] ==
            IF i = 0 THEN text ELSE append_ignore_pattern(after[i - 1], patterns[i])
    IN after[Len(patterns)]

-----------------------------------------------------------------------------
(* Reading it. *)

\* One round of glob_to_regex: r is the expression so far, one element for each *,
\* **, ? or character, and i the character it is at.
Scan(pattern, loop) ==
    LET i == loop.i
        two == i < Len(pattern) /\ pattern[i] = "*" /\ pattern[i + 1] = "*"
        element == CASE two -> ".*"
                     [] pattern[i] = "*" /\ ~two -> "[^/]*"
                     [] pattern[i] = "?" -> "[^/]"
                     [] OTHER -> pattern[i]
    IN IF i > Len(pattern) THEN loop
       ELSE [r |-> Append(loop.r, element), i |-> i + (IF two THEN 2 ELSE 1)]

glob_to_regex(pattern) ==
    LET loop[k \in 0..Len(pattern)] ==
            IF k = 0 THEN [r |-> <<>>, i |-> 1] ELSE Scan(pattern, loop[k - 1])
    IN loop[Len(pattern)].r

\* What an element of an expression stands for.
Eats(element, piece) ==
    CASE element = ".*" -> \A i \in DOMAIN piece : piece[i] # "nl"
      [] element = "[^/]*" -> \A i \in DOMAIN piece : piece[i] # Separator
      [] element = "[^/]" -> Len(piece) = 1 /\ piece[1] # Separator
      [] OTHER -> piece = <<element>>

\* The places of a text that an element leads to from some places.
After(from, element, text) ==
    {d \in 0..Len(text) : \E c \in from : c <= d /\ Eats(element, SubSeq(text, c + 1, d))}

\* std::regex_match: all elements lead from the start to the end.
regex_match(rx, text) ==
    LET reached[k \in 0..Len(rx)] ==
            IF k = 0 THEN {0} ELSE After(reached[k - 1], rx[k], text)
    IN Len(text) \in reached[Len(rx)]

Rule(negated, dir_only, pattern) ==
    [negated |-> negated, dir_only |-> dir_only, rx |-> glob_to_regex(pattern)]

DefaultRules == << Rule(FALSE, TRUE, <<"n">>), Rule(FALSE, FALSE, kIgnoreFile) >>

StartsWith(s, p) == Len(p) <= Len(s) /\ SubSeq(s, 1, Len(p)) = p

\* A path or pattern without a leading ./
normalize_rel_path(s) ==
    LET k == Max({i \in 0..(Len(s) \div 2) :
                    \A j \in 1..i : s[2*j - 1] = "." /\ s[2*j] = Separator})
        rest == SubSeq(s, 2*k + 1, Len(s))
    IN IF rest = <<".">> THEN <<>> ELSE rest

Trimmed(line) ==
    LET ink == {i \in DOMAIN line : line[i] # Blank} IN
    IF ink = {} THEN <<>> ELSE SubSeq(line, Min(ink), Max(ink))

\* The rule of a line, if it has one: a sequence of none or one.
RulesOfLine(line) ==
    LET trimmed == Trimmed(line)
        negated == StartsWith(trimmed, <<"!">>)
        shown == IF negated THEN Tail(trimmed) ELSE trimmed
        dir_only == shown # <<>> /\ Last(shown) = Separator
        pattern == normalize_rel_path(IF dir_only THEN Front(shown) ELSE shown)
    IN IF trimmed = <<>> \/ StartsWith(trimmed, <<"#">>) \/ pattern = <<>>
       THEN <<>> ELSE << Rule(negated, dir_only, pattern) >>

\* getline: the lines that are done and the one being read, after a character.
Read(before, c) ==
    IF c = "nl" THEN [done |-> Append(before.done, before.line), line |-> <<>>]
    ELSE [done |-> before.done, line |-> Append(before.line, c)]

\* The last line counts with or without its end.
Lines(text) ==
    LET read[i \in 0..Len(text)] ==
            IF i = 0 THEN [done |-> <<>>, line |-> <<>>] ELSE Read(read[i - 1], text[i])
        end == read[Len(text)]
    IN IF end.line = <<>> THEN end.done ELSE Append(end.done, end.line)

load_ignore_set(text) ==
    DefaultRules \o
    (IF text = Absent THEN <<>> ELSE FlattenSeq([i \in DOMAIN Lines(text) |->
                                                    RulesOfLine(Lines(text)[i])]))

-----------------------------------------------------------------------------
(* Asking it. *)

Matches(rule, rel, is_dir) ==
    (rule.dir_only => is_dir) /\ regex_match(rule.rx, rel)

Internal(rel) ==
    rel = kDeployFile \/ rel = kUtxDir \/ StartsWith(rel, kUtxDir \o <<Separator>>)

\* The last rule that matches decides.
is_ignored(rules, rel, is_dir) ==
    LET says[i \in 0..Len(rules)] ==
            IF i = 0 THEN "listed"
            ELSE IF Matches(rules[i], rel, is_dir)
            THEN IF rules[i].negated THEN "listed" ELSE "ignored"
            ELSE says[i - 1]
    IN Internal(rel) \/ says[Len(rules)] = "ignored"

\* The directories a path lies in, itself not among them.
Parents(rel) == {SubSeq(rel, 1, i - 1) : i \in {i \in DOMAIN rel : rel[i] = Separator}}
Entries(files) == files \cup UNION {Parents(f) : f \in files}

\* Mutant: an ignored directory is left out, but what it holds is looked at.
Walk_NoPrune(files, rules) ==
    {f \in files : ~is_ignored(rules, f, FALSE)}

\* recursive_directory_iterator: an entry is reached when no directory it is in
\* was skipped; the regular files that are reached and not ignored are listed.
Walk(files, rules) ==
    LET skipped == {d \in Entries(files) \ files : is_ignored(rules, d, TRUE)} IN
    {f \in files : Parents(f) \cap skipped = {} /\ ~is_ignored(rules, f, FALSE)}

Untracked(files, tracked, text) == Walk(files, load_ignore_set(text)) \ tracked

-----------------------------------------------------------------------------
(* What it should say, from the patterns as their author thinks of them:   *)
(* [negated, dir_only, glob], a glob a sequence of characters and wildcards.*)

GlobText(glob) ==
    FlattenSeq([i \in DOMAIN glob |-> IF glob[i] = "**" THEN <<"*", "*">> ELSE <<glob[i]>>])

Written(p) ==
    (IF p.negated THEN <<"!">> ELSE <<>>) \o GlobText(p.glob)
    \o (IF p.dir_only THEN <<Separator>> ELSE <<>>)

\* The patterns of load_ignore_set and those that init writes.
Says(dir_only, glob) == [negated |-> FALSE, dir_only |-> dir_only, glob |-> glob]
Defaults == << Says(TRUE, <<"n">>), Says(FALSE, kIgnoreFile) >>
InitPatterns == << Says(FALSE, kIgnoreFile), Says(FALSE, EnvFile),
                   Says(FALSE, IdeaDir), Says(TRUE, <<"n">>) >>

\* A pattern that says what its author means: wildcards that do not run together,
\* no space or separator at an end, no ./ in front, nothing that makes the line a
\* comment or negates it.
IsPattern(p) ==
    LET glob == p.glob
        n == Len(glob) IN
    /\ p.negated \in BOOLEAN /\ p.dir_only \in BOOLEAN
    /\ glob \in Seq((Char \ {"nl"}) \cup {"**"}) /\ n > 0
    /\ \A i \in 1..(n - 1) : glob[i] \in {"*", "**"} => glob[i + 1] \notin {"*", "**"}
    /\ glob[1] \notin {Blank, "#", "!"} /\ glob[n] \notin {Blank, Separator}
    /\ glob[1] = "." => n > 1 /\ glob[2] # Separator

\* A path can be cut into one piece for each element of the glob.
Fits(piece, c) ==
    CASE c = "**" -> TRUE
      [] c = "*" -> \A i \in DOMAIN piece : piece[i] # Separator
      [] c = "?" -> Len(piece) = 1 /\ piece[1] # Separator
      [] OTHER -> piece = <<c>>

GlobFits(glob, path) ==
    \E cut \in [0..Len(glob) -> 0..Len(path)] :
        /\ cut[0] = 0 /\ cut[Len(glob)] = Len(path)
        /\ \A k \in DOMAIN glob :
              /\ cut[k - 1] <= cut[k]
              /\ Fits(SubSeq(path, cut[k - 1] + 1, cut[k]), glob[k])

\* The last of the patterns that says something about an entry.
SaidIgnored(patterns, rel, is_dir) ==
    LET about == {i \in DOMAIN patterns :
                    (patterns[i].dir_only => is_dir) /\ GlobFits(patterns[i].glob, rel)}
    IN about # {} /\ ~patterns[Max(about)].negated

ShouldList(files, patterns) ==
    {f \in files : /\ ~Internal(f) /\ ~SaidIgnored(patterns, f, FALSE)
                   /\ \A d \in Parents(f) : ~Internal(d) /\ ~SaidIgnored(patterns, d, TRUE)}
=============================================================================
