---------------------------- MODULE ManifestFile ----------------------------
(* From the text of the manifest to the files in the staging directory:          *)
(* parse_update_manifest and normalize_manifest_path of manifest-parser.cc,      *)
(* fixup_uri, urlencode, unfixup_uri and prepare_file_path of utils.cc. A path   *)
(* is a sequence of symbols; "NUL" stands for the letters of a reserved device   *)
(* name, "gz" for two letters, "E9" in two hex digits for the byte beyond ASCII. *)
EXTENDS Naturals, Sequences, FiniteSets, SequencesExt

CONSTANTS
    Paths,      \* what the lines name
    MaxLines    \* bound: lines of a manifest

(* In the order of CompareStringOrdinal, which ignores the case.                 *)
Symbols == <<"ctrl", " ", "%", "*", ".", "/", "0", "2", "5", "9", ":", "A", "E", "NUL", "gz", "\\", "e9">>
Upper(c) == IF c = "a" THEN "A" ELSE IF c = "nul" THEN "NUL" ELSE c
Letters == {Symbols[n] : n \in DOMAIN Symbols} \cup {"a", "nul"}
Ordinal(c) == CHOOSE n \in DOMAIN Symbols : Symbols[n] = Upper(c)

ConstantsFit == Paths \subseteq Seq(Letters) /\ MaxLines \in Nat \ {0}

ASSUME ManifestFileAssumption == ConstantsFit

Line == [shape : {"entry"}, path : Paths] \cup [shape : {"short", "badhash"}, path : {<<>>}]

VARIABLES
    lines,      \* the manifest
    pc,
    parsed,     \* the map under construction: keys and the lines they are of
    paths,      \* parsed_paths
    output,     \* the manifest of the client
    entry,      \* the key that is downloaded
    target,     \* the target of its request
    staged      \* where files were put: key and path

fileVars == <<lines, pc, parsed, paths, output, entry, target, staged>>

FileInit ==
    /\ lines \in {<<>>} \cup UNION {[1..n -> Line] : n \in 1..MaxLines}
    /\ pc = "lines" /\ parsed = {} /\ paths = <<>> /\ output = {}
    /\ entry = <<>> /\ target = <<>> /\ staged = {}

FileTypeOK ==
    /\ pc \in {"lines", "sort", "duplicates", "parents", "accepted", "refused", "request", "received"}
    /\ Len(paths) <= Len(lines) /\ Cardinality(parsed) <= Len(paths)
    /\ output \in {{}, parsed} /\ (output # {} => pc \in {"accepted", "request", "received"})
    /\ \A s \in staged : \E e \in output : e.key = s.key

-----------------------------------------------------------------------------
(* compare_windows_paths and windows_path_less.                                  *)

Same(l, r) == Len(l) = Len(r) /\ \A n \in DOMAIN l : Ordinal(l[n]) = Ordinal(r[n])

Less(l, r) ==
    \E n \in 1..Len(r) :
        /\ \A m \in 1..(n - 1) : m <= Len(l) /\ Ordinal(l[m]) = Ordinal(r[m])
        /\ n <= Len(l) => Ordinal(l[n]) < Ordinal(r[n])

-----------------------------------------------------------------------------
(* normalize_manifest_path.                                                      *)

Slashes(p) == [n \in DOMAIN p |-> IF p[n] = "/" THEN "\\" ELSE p[n]]

(* The names between the separators; several in a row count as one.              *)
Extended(cut, c) ==
    IF c # "\\" THEN [cut EXCEPT !.name = Append(@, c)]
    ELSE IF cut.name = <<>> THEN cut
    ELSE [names |-> Append(cut.names, cut.name), name |-> <<>>]

Components(p) ==
    LET upto[n \in 0..Len(p)] == IF n = 0 THEN [names |-> <<>>, name |-> <<>>] ELSE Extended(upto[n - 1], p[n])
        cut == upto[Len(p)]
    IN  IF cut.name = <<>> THEN cut.names ELSE Append(cut.names, cut.name)

Joined(names) == FlattenSeq([n \in DOMAIN names |-> IF n = 1 THEN names[n] ELSE <<"\\">> \o names[n]])

Rooted(p) == p[1] = "\\" \/ (Len(p) > 1 /\ p[1] \in {"a", "A", "E"} /\ p[2] = ":")

(* The name up to its first dot, without the spaces before it.                   *)
BaseOf(name) ==
    LET dots == {n \in DOMAIN name : name[n] = "."}
        stem == IF dots = {} THEN name ELSE SubSeq(name, 1, (CHOOSE n \in dots : \A m \in dots : n <= m) - 1)
        kept == {n \in 0..Len(stem) : \A m \in (n + 1)..Len(stem) : stem[m] = " "}
    IN  SubSeq(stem, 1, CHOOSE n \in kept : \A m \in kept : n <= m)

ReservedWholeName(name) == [n \in DOMAIN name |-> Upper(name[n])] = <<"NUL">>   \* Mutant: an extension hides a device
Reserved(name) == [n \in DOMAIN BaseOf(name) |-> Upper(BaseOf(name)[n])] = <<"NUL">>

ValidComponent(name) ==
    /\ name \notin {<<>>, <<".">>, <<".", ".">>}
    /\ name[1] # " " /\ Last(name) \notin {" ", "."}
    /\ \A n \in DOMAIN name : name[n] \notin {"ctrl", ":", "*"}
    /\ ~Reserved(name)

Refused == <<>>                                           \* a normalized path is never empty

Normalize(p) ==
    IF \/ p = <<>> \/ Rooted(Slashes(p)) \/ Last(Slashes(p)) = "\\"
       \/ \E name \in Range(Components(Slashes(p))) : ~ValidComponent(name)
    THEN Refused ELSE Joined(Components(Slashes(p)))

-----------------------------------------------------------------------------
(* parse_update_manifest.                                                        *)

Refuse == pc' = "refused" /\ UNCHANGED <<lines, parsed, paths, output, entry, target, staged>>
Only(next) == pc' = next /\ UNCHANGED <<lines, output, entry, target, staged>>

Number == Len(paths) + 1

EmptyManifest == pc = "lines" /\ lines = <<>> /\ Refuse

BadLine ==
    /\ pc = "lines" /\ Number <= Len(lines)
    /\ lines[Number].shape # "entry" \/ Normalize(lines[Number].path) = Refused
    /\ Refuse

(* The map takes a key once, the list of the paths takes every line.             *)
GoodLine ==
    /\ pc = "lines" /\ Number <= Len(lines) /\ lines[Number].shape = "entry"
    /\ LET key == Normalize(lines[Number].path)
       IN  /\ key # Refused
           /\ parsed' = IF \E e \in parsed : Same(e.key, key) THEN parsed
                        ELSE parsed \cup {[key |-> key, line |-> Number]}
           /\ paths' = Append(paths, [path |-> key, line |-> Number])
    /\ Only("lines")

(* std::sort leaves the order of equal ones open.                                *)
SortPaths ==
    /\ pc = "lines" /\ lines # <<>> /\ Number > Len(lines)
    /\ \E order \in Bijection(DOMAIN paths, DOMAIN paths) :
         /\ \A n, m \in DOMAIN paths : n < m => ~Less(paths[order[m]].path, paths[order[n]].path)
         /\ paths' = [n \in DOMAIN paths |-> paths[order[n]]]
    /\ UNCHANGED parsed /\ Only("duplicates")

AdjacentIdentical ==                                      \* Mutant: a path written with other letters is another
    \E n \in 2..Len(paths) : paths[n - 1].path = paths[n].path
AdjacentSame == \E n \in 2..Len(paths) : Same(paths[n - 1].path, paths[n].path)

Duplicates ==
    /\ pc = "duplicates"
    /\ IF AdjacentSame THEN Refuse ELSE UNCHANGED <<parsed, paths>> /\ Only("parents")

Parents(p) == {SubSeq(p, 1, n - 1) : n \in {m \in DOMAIN p : p[m] = "\\"}}

(* std::lower_bound over the sorted paths.                                       *)
LowerBound(p) ==
    LET find[count \in 0..Len(paths)] ==
            [first \in Nat |->
                LET step == count \div 2
                IN  IF count = 0 THEN first
                    ELSE IF Less(paths[first + step].path, p) THEN find[count - step - 1][first + step + 1]
                    ELSE find[step][first]]
    IN  find[Len(paths)][1]

IsFile(p) == LowerBound(p) <= Len(paths) /\ Same(paths[LowerBound(p)].path, p)

FoundNearest(p) ==                                        \* Mutant: only the directory of the file is looked up
    {q \in Parents(p) : IsFile(q) /\ \A r \in Parents(p) : Len(r) <= Len(q)}
FileParents(p) == {q \in Parents(p) : IsFile(q)}

PublishFirst ==                                           \* Mutant: the manifest is published, then checked
    /\ pc = "parents" /\ output' = parsed
    /\ pc' = IF \E n \in DOMAIN paths : FileParents(paths[n].path) # {} THEN "refused" ELSE "accepted"
    /\ UNCHANGED <<lines, parsed, paths, entry, target, staged>>

FindParents ==
    /\ pc = "parents"
    /\ IF \E n \in DOMAIN paths : FileParents(paths[n].path) # {} THEN Refuse
       ELSE /\ output' = parsed /\ pc' = "accepted"
            /\ UNCHANGED <<lines, parsed, paths, entry, target, staged>>

-----------------------------------------------------------------------------
(* The request of a file and where its answer goes.                              *)

replace_all(p, c, to) == FlattenSeq([n \in DOMAIN p |-> IF p[n] = c THEN to ELSE <<p[n]>>])

FixupPercentLast(p) ==                                    \* Mutant: what was escaped is escaped again
    replace_all(replace_all(replace_all(p, "\\", <<"/">>), " ", <<"%", "2", "0">>), "%", <<"%", "2", "5">>)

(* fixup_uri; of the characters it escapes a key can have, the space stands here. *)
Fixup(p) ==
    replace_all(replace_all(replace_all(p, "\\", <<"/">>), "%", <<"%", "2", "5">>), " ", <<"%", "2", "0">>)

UrlEncode(p) == replace_all(p, "e9", <<"%", "E", "9">>)

Hex(h, l) == IF <<h, l>> = <<"2", "5">> THEN "%" ELSE IF <<h, l>> = <<"2", "0">> THEN " "
             ELSE IF <<h, l>> = <<"E", "9">> THEN "e9" ELSE "ctrl"
Digits == {"0", "2", "5", "9", "a", "A", "E"}

(* unfixup_uri.                                                                  *)
Unfixup(p) ==
    LET from[left \in 0..Len(p)] ==
            LET n == Len(p) - left + 1
            IN  IF left = 0 THEN <<>>
                ELSE IF p[n] = "%" /\ left > 2 /\ p[n + 1] \in Digits /\ p[n + 2] \in Digits
                THEN <<Hex(p[n + 1], p[n + 2])>> \o from[left - 3]
                ELSE <<IF p[n] = "/" THEN "\\" ELSE p[n]>> \o from[left - 1]
    IN  from[Len(p)]

(* fs::path::replace_extension(): from the last dot of the last name, unless the *)
(* name begins with it.                                                          *)
WithoutExtension(p) ==
    LET start == {n \in 0..Len(p) : n = 0 \/ p[n] = "\\"}
        name == CHOOSE n \in start : \A m \in start : m <= n
        dots == {n \in (name + 2)..Len(p) : p[n] = "."}
    IN  IF dots = {} THEN p ELSE SubSeq(p, 1, (CHOOSE n \in dots : \A m \in dots : m <= n) - 1)

Prepared(t) == Normalize(WithoutExtension(Unfixup(t)))
PreparedVerbatim(t) == Normalize(WithoutExtension(t))     \* Mutant: the target is taken for a path

PathOf(t) == Prepared(t)

(* next_manifest_entry: the key becomes the target of a request.                 *)
Request ==
    /\ pc = "accepted"
    /\ \E e \in output :
         /\ \A s \in staged : s.key # e.key
         /\ entry' = e.key /\ target' = Fixup(e.key) \o <<".", "gz">>
    /\ pc' = "request"
    /\ UNCHANGED <<lines, parsed, paths, output, staged>>

(* prepare_file_path; it also fails if the directory cannot be made.             *)
Receive ==
    /\ pc = "request"
    /\ \/ staged' = staged \cup {[key |-> entry, path |-> PathOf(target)]}
       \/ UNCHANGED staged
    /\ pc' = IF staged' = staged THEN "received" ELSE "accepted"
    /\ entry' = <<>> /\ target' = <<>>
    /\ UNCHANGED <<lines, parsed, paths, output>>

AllStaged == pc = "accepted" /\ \A e \in output : \E s \in staged : s.key = e.key
Done == (pc \in {"refused", "received"} \/ AllStaged) /\ UNCHANGED fileVars

FileNext ==
    \/ EmptyManifest \/ BadLine \/ GoodLine \/ SortPaths \/ Duplicates \/ FindParents
    \/ Request \/ Receive \/ Done

FileSpec == FileInit /\ [][FileNext]_fileVars

-----------------------------------------------------------------------------
Decided == pc \in {"accepted", "refused", "request", "received"}

Keys == [n \in DOMAIN lines |-> IF lines[n].shape = "entry" THEN Normalize(lines[n].path) ELSE Refused]
Within(p, q) == Len(p) > Len(q) /\ Same(SubSeq(p, 1, Len(q)), q) /\ p[Len(q) + 1] = "\\"

(* Sorting, comparing neighbours and searching for parents by halves finds what  *)
(* comparing every two lines would find: a manifest is accepted exactly if it    *)
(* has lines, all of them are entries, and no two name the same Windows file or  *)
(* a file and what lies below it.                                                *)
VerdictRight ==
    Decided =>
        (pc # "refused") <=>
              /\ lines # <<>> /\ \A n \in DOMAIN Keys : Keys[n] # Refused
              /\ \A n, m \in DOMAIN Keys : n # m => ~Same(Keys[n], Keys[m]) /\ ~Within(Keys[n], Keys[m])

(* The map has an entry of every line, though it drops a key it has already.     *)
NoLineLost == Decided /\ pc # "refused" => {e.line : e \in output} = DOMAIN lines

(* The files of a manifest are staged apart: under a name the other end may not  *)
(* choose (no device, no name with an end that Windows drops), no two at one     *)
(* place and none inside another.                                                *)
StagedApart ==
    /\ \A s \in staged : \A name \in Range(Components(s.path)) :
         /\ Last(name) \notin {".", " "}
         /\ Upper(name[1]) = "NUL" =>
               \E n \in 2..Len(name) : name[n] \notin {" ", "."} /\ \A m \in 2..n : name[m] # "."
    /\ \A s, t \in staged : s # t => ~Same(s.path, t.path) /\ ~Within(s.path, t.path)

(* What FileUpdater looks for under the key is where the download of that key    *)
(* was put: escaped for the request, read back from it, its ".gz" dropped.       *)
StagedAtKey == \A s \in staged : s.path = s.key

(* Decoded once, as a server does, the request names the file of the manifest.   *)
RequestNamesKey ==
    pc = "request" => Unfixup(UrlEncode(target)) = entry \o <<".", "gz">>

\* A manifest is accepted exactly if comparing every two of its lines finds nothing
\* wrong, and then with all of them.
AcceptedWhole ==
    /\ FileTypeOK
    /\ VerdictRight
    /\ NoLineLost

\* From its key to its place under the staging directory, through a request that is
\* escaped and read back, a file stays itself and apart from the others.
FilesAtKeys ==
    /\ StagedApart
    /\ StagedAtKey
    /\ RequestNamesKey
=============================================================================
