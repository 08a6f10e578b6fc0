---------------------------- MODULE CommandLine ----------------------------
(* The start of the updater, cli-parser.cc and the part of argtable3 it uses:    *)
(* getopt_long walks over a copy of the command line and moves what is no option *)
(* behind the options; arg_parse counts what was given and collects the errors;  *)
(* su_parse_command_line judges them and fills the parameters; what fails there  *)
(* is told to the user by exit_on_init_fail of main.cc. A word is known by what  *)
(* the parser can tell of it: the letters after one dash, the name and the value *)
(* after two, its text as a value.                                               *)
EXTENDS Integers, Sequences, FiniteSets, SequencesExt

CONSTANTS
    Lines,          \* the command lines, without the name of the program
    Abbreviation,   \* which long names a shorter one is the beginning of
    MaxErrors       \* the errors arg_end has room for

Absent == "absent"                                        \* no value, where one may be
Values == {"", "0", "1", "huge", "2GB", "https", "word"}

(* A word of a command line: an operand has no letters.                          *)
IsWord(w) == /\ w \in [letters : Seq(STRING), name : STRING, value : Values \cup {Absent}, text : Values]
             /\ \A n \in DOMAIN w.letters : w.letters[n] # Absent

ConstantsFit ==
    /\ MaxErrors \in Nat \ {0, 1}
    /\ \A words \in Lines : words \in Seq(Range(words)) /\ \A w \in Range(words) : IsWord(w)

ASSUME CommandLineAssumption == ConstantsFit

Flag(s, l) == [short |-> s, long |-> l, kind |-> "lit", min |-> 0, max |-> 1]
Text(s, l, min) == [short |-> s, long |-> l, kind |-> "str", min |-> min, max |-> 1]
Number(s, l, max) == [short |-> s, long |-> l, kind |-> "int", min |-> 0, max |-> max]

(* arg_table.                                                                    *)
Table == <<
    Flag("h", "help"), Flag(Absent, "dump-args"), Flag(Absent, "force-temp"),
    Text("b", "base-url", 1), Text("a", "app-dir", 1), Text("e", "exec", 1),
    Text("c", "cwd", 0), Text("t", "temp-dir", 0), Text("v", "version", 1),
    Number("p", "pids", 100), Number("i", "interactive", 1), Number(Absent, "hook-prompt", 1),
    Text(Absent, "hook-dir", 0), Flag(Absent, "restart-after-fail"), Text("d", "details", 1) >>

Entries == DOMAIN Table
Index(name) == CHOOSE i \in Entries : Table[i].long = name
Takes(i) == Table[i].kind # "lit"
End == 0                                                  \* the table's end, as the parent of an error

VARIABLES
    line,       \* the words as given
    posix,      \* POSIXLY_CORRECT is set
    pc,
    argv,       \* the copy: places in the line, as getopt has moved them
    optind,
    place,      \* the letters of the current word that are still to be read
    nonopt,     \* nonopt_start and nonopt_end; 0 is the code's -1
    given,      \* what each entry of the table was given, in order
    errors,     \* of arg_end
    params,     \* update_parameters, as far as the control depends on them
    outcome     \* what exit_on_init_fail saved, showed and started

startVars == <<line, posix, pc, argv, optind, place, nonopt, given, errors, params, outcome>>

Error == [parent : Entries \cup {End},
          error : {"mincount", "maxcount", "badint", "overflow", "limit", "nomatch", "missarg", "longopt", "letter"},
          at : Nat]

NoParams == [exec |-> Absent, cwd |-> Absent, interactive |-> TRUE, prompt |-> TRUE, restart |-> FALSE,
             storage |-> "none", category |-> "", diagnostic |-> FALSE, system |-> FALSE, removal |-> FALSE,
             version |-> Absent, details |-> Absent, pids |-> <<>>, hook |-> "programdata"]

StartTypeOK ==
    /\ posix \in BOOLEAN
    /\ pc \in {"start", "tagged", "untagged", "check", "parsed", "storage", "lock", "validate", "hook", "failed", "running", "end"}
    /\ Len(argv) = Len(line) /\ Range(argv) = DOMAIN line
    /\ optind \in 1..(Len(line) + 1)
    /\ nonopt \in [start : 0..Len(line), end : 0..Len(line)]
    /\ \A i \in Entries : Len(given[i]) <= Table[i].max
    /\ Len(errors) <= MaxErrors /\ Range(errors) \subseteq Error
    /\ params.storage \in {"none", "prepared", "locked"}
    /\ outcome \in [saved : {"", "UpdaterStorageFailure", "StartupSkipped", "StartupFailure"},
                    shown : BOOLEAN, started : {Absent} \cup Values]

StartInit ==
    /\ line \in Lines /\ posix \in BOOLEAN /\ pc = "start"
    /\ argv = [i \in DOMAIN line |-> i] /\ optind = 1 /\ place = <<>> /\ nonopt = [start |-> 0, end |-> 0]
    /\ given = [i \in Entries |-> <<>>] /\ errors = <<>>
    /\ params = NoParams /\ outcome = [saved |-> "", shown |-> FALSE, started |-> Absent]

-----------------------------------------------------------------------------
(* getopt_internal.                                                              *)

Word(k) == line[argv[k]]
IsEnd(w) == w.letters = <<"-">> /\ w.name = "" /\ w.value = Absent
Started == pc = "tagged" /\ place = <<>>

(* gcd; no block is empty, so b is never 0.                                      *)
Gcd(a, b) ==
    LET gcd[n \in 0..b] == [m \in Nat |-> IF n = 0 \/ m % n = 0 THEN n ELSE gcd[m % n][n]]
    IN  gcd[b][a]

(* How many swaps the cycles of permute_args make, and the two places the k-th   *)
(* one swaps: the start of its cycle and the next place on its way.              *)
Cycle(start, end, stop) ==
    LET ncycle == Gcd(end - start, stop - end) IN [count |-> ncycle, length |-> (stop - start) \div ncycle]
OneCycle(start, end, stop) ==                             \* Mutant: the blocks are taken to be coprime
    [count |-> 1, length |-> stop - start]

Cycles(start, end, stop) == Cycle(start, end, stop)

SwapAt(k, start, end, stop) ==
    LET c == Cycles(start, end, stop)
        cstart == end + ((k - 1) \div c.length)
        steps == ((k - 1) % c.length) + 1
    IN  [cstart |-> cstart,
         pos |-> start + ((cstart - start + steps * (stop - end)) % (stop - start))]

(* permute_args: the operands from start to end change places with the options   *)
(* from end to stop. from[k][m] is where the word came from that is at m after k *)
(* swaps.                                                                        *)
PermuteArgs(v, start, end, stop) ==
    LET c == Cycles(start, end, stop)
        from[k \in 0..(c.count * c.length)] ==
            IF k = 0 THEN [m \in DOMAIN v |-> m]
            ELSE LET swap == SwapAt(k, start, end, stop)
                 IN  [m \in DOMAIN v |-> from[k - 1][IF m = swap.pos THEN swap.cstart
                                                      ELSE IF m = swap.cstart THEN swap.pos ELSE m]]
    IN  [m \in DOMAIN v |-> v[from[c.count * c.length][m]]]

Unmoved == UNCHANGED <<argv, nonopt>>
Quiet == UNCHANGED <<line, posix, params, outcome>>
NothingRead == UNCHANGED <<given, errors>>

(* arg_parse, arg_parse_tagged: the copy is made, getopt is reset.               *)
BeginParse ==
    /\ pc = "start" /\ pc' = "tagged"
    /\ Unmoved /\ Quiet /\ NothingRead /\ UNCHANGED <<optind, place>>

(* A word that is no option is left behind; under POSIXLY_CORRECT it ends all.   *)
SkipOperand ==
    /\ Started /\ optind <= Len(line) /\ Word(optind).letters = <<>>
    /\ IF posix THEN pc' = "untagged" /\ Unmoved /\ UNCHANGED optind
       ELSE /\ IF nonopt.start = 0 THEN nonopt' = [nonopt EXCEPT !.start = optind] /\ UNCHANGED argv
               ELSE IF nonopt.end # 0
               THEN /\ argv' = PermuteArgs(argv, nonopt.start, nonopt.end, optind)
                    /\ nonopt' = [start |-> optind - (nonopt.end - nonopt.start), end |-> 0]
               ELSE Unmoved
            /\ optind' = optind + 1 /\ UNCHANGED pc
    /\ Quiet /\ NothingRead /\ UNCHANGED place

(* The options end before `stop`: what was skipped comes after them.             *)
FinishReading(stop) ==
    /\ IF nonopt.end # 0
       THEN /\ argv' = PermuteArgs(argv, nonopt.start, nonopt.end, stop)
            /\ optind' = stop - (nonopt.end - nonopt.start)
       ELSE UNCHANGED argv /\ optind' = stop
    /\ nonopt' = [start |-> 0, end |-> 0] /\ pc' = "untagged"
    /\ Quiet /\ NothingRead /\ UNCHANGED place

EndOfVector ==
    /\ Started /\ optind > Len(line)
    /\ IF nonopt.start # 0 /\ nonopt.end = 0
       THEN /\ optind' = nonopt.start /\ nonopt' = [start |-> 0, end |-> 0] /\ pc' = "untagged"
            /\ Quiet /\ NothingRead /\ UNCHANGED <<argv, place>>
       ELSE FinishReading(optind)

FirstOption == IF nonopt.start # 0 /\ nonopt.end = 0 THEN [nonopt EXCEPT !.end = optind] ELSE nonopt

EndOfOptions ==
    /\ Started /\ optind <= Len(line) /\ IsEnd(Word(optind))
    /\ IF FirstOption.end # 0
       THEN /\ argv' = PermuteArgs(argv, FirstOption.start, FirstOption.end, optind + 1)
            /\ optind' = optind + 1 - (FirstOption.end - FirstOption.start)
       ELSE UNCHANGED argv /\ optind' = optind + 1
    /\ nonopt' = [start |-> 0, end |-> 0] /\ pc' = "untagged"
    /\ Quiet /\ NothingRead /\ UNCHANGED place

NextWord ==
    /\ Started /\ optind <= Len(line) /\ Word(optind).letters # <<>> /\ ~IsEnd(Word(optind))
    /\ place' = Word(optind).letters /\ nonopt' = FirstOption
    /\ Quiet /\ NothingRead /\ UNCHANGED <<pc, argv, optind>>

-----------------------------------------------------------------------------
(* What arg_parse_tagged does with the answers.                                  *)

(* arg_register_error.                                                           *)
Register(errs, parent, error, at) ==
    IF Len(errs) < MaxErrors THEN Append(errs, [parent |-> parent, error |-> error, at |-> at])
    ELSE [errs EXCEPT ![MaxErrors] = [parent |-> End, error |-> "limit", at |-> 0]]

(* The scanfn of an entry. A number beyond a long is the largest one; only the   *)
(* suffixes can overflow.                                                        *)
ScanError(i, value) ==
    IF Len(given[i]) = Table[i].max THEN "maxcount"
    ELSE IF Table[i].kind # "int" \/ value \in {"0", "1", "huge"} THEN "none"
    ELSE IF value = "2GB" THEN "overflow" ELSE "badint"

ScanAnyway(i, value, errs) ==                             \* Mutant: what is one too many is taken too
    /\ given' = [given EXCEPT ![i] = IF ScanError(i, value) \in {"none", "maxcount"} THEN Append(@, value) ELSE @]
    /\ errors' = IF ScanError(i, value) = "none" THEN errs
                 ELSE Register(errs, i, ScanError(i, value), 0)

ScanLast(i, value, errs) ==                               \* Mutant: the last value replaces the one before
    /\ given' = [given EXCEPT ![i] = IF ScanError(i, value) = "maxcount" THEN <<value>>
                                     ELSE IF ScanError(i, value) = "none" THEN Append(@, value) ELSE @]
    /\ errors' = IF ScanError(i, value) = "none" THEN errs
                 ELSE Register(errs, i, ScanError(i, value), 0)

Scan(i, value, errs) ==
    LET error == ScanError(i, value)
    IN  /\ given' = IF error = "none" THEN [given EXCEPT ![i] = Append(@, value)] ELSE given
        /\ errors' = IF error = "none" THEN errs ELSE Register(errs, i, error, 0)

(* The first entry found before a second one makes the name ambiguous.           *)
Candidates(name) ==
    LET exact == {i \in Entries : Table[i].long = name}
        partial == {i \in Entries : Table[i].long \in Abbreviation[name]} \ exact
    IN  IF \E i \in exact : Cardinality({j \in partial : j < i}) < 2 THEN exact ELSE partial

AtLong == pc = "tagged" /\ place # <<>> /\ Head(place) = "-"

(* argv[optind - 1], once optind is past the word.                               *)
OneBefore == IF optind = 1 THEN 0 ELSE argv[optind - 1]   \* Mutant: optind is not past it yet
AtFault == argv[optind]

UnknownLong ==
    /\ AtLong /\ Cardinality(Candidates(Word(optind).name)) # 1
    /\ errors' = Register(errors, End, "longopt", AtFault)
    /\ optind' = optind + 1 /\ place' = <<>>
    /\ Unmoved /\ Quiet /\ UNCHANGED <<pc, given>>

(* A flag with a value and an option without one are answered alike.             *)
LongIll ==
    /\ AtLong
    /\ \E i \in Candidates(Word(optind).name) :
         /\ Cardinality(Candidates(Word(optind).name)) = 1
         /\ \/ ~Takes(i) /\ Word(optind).value # Absent
            \/ Takes(i) /\ Word(optind).value = Absent /\ optind = Len(line)
    /\ errors' = Register(errors, End, "missarg", AtFault)
    /\ optind' = optind + 1 /\ place' = <<>>
    /\ Unmoved /\ Quiet /\ UNCHANGED <<pc, given>>

(* An empty value is an error, and is scanned for the count.                     *)
LongOption ==
    /\ AtLong
    /\ \E i \in Candidates(Word(optind).name) :
         LET own == Word(optind).value
             apart == Takes(i) /\ own = Absent
             next == IF apart THEN optind + 2 ELSE optind + 1
         IN  /\ Cardinality(Candidates(Word(optind).name)) = 1
             /\ Takes(i) \/ own = Absent
             /\ apart => optind < Len(line)
             /\ LET value == IF apart THEN Word(optind + 1).text ELSE IF Takes(i) THEN own ELSE ""
                    errs == IF Takes(i) /\ value = "" THEN Register(errors, End, "missarg", argv[next - 1]) ELSE errors
                IN  Scan(i, value, errs)
             /\ optind' = next
    /\ place' = <<>>
    /\ Unmoved /\ Quiet /\ UNCHANGED pc

AtShort == pc = "tagged" /\ place # <<>> /\ Head(place) # "-"
Lettered(c) == {i \in Entries : Table[i].short = c}

(* The letter was the last of its word?                                          *)
Forward == IF Len(place) = 1 THEN optind' = optind + 1 ELSE UNCHANGED optind

UnknownLetter ==
    /\ AtShort /\ Lettered(Head(place)) = {}
    /\ errors' = Register(errors, End, "letter", 0)
    /\ place' = Tail(place) /\ Forward
    /\ Unmoved /\ Quiet /\ UNCHANGED <<pc, given>>

FlagLetter ==
    /\ AtShort
    /\ \E i \in Lettered(Head(place)) : ~Takes(i) /\ Scan(i, "", errors)
    /\ place' = Tail(place) /\ Forward
    /\ Unmoved /\ Quiet /\ UNCHANGED pc

(* The rest of the word is the value, or the next word is.                       *)
Spelled(rest) == IF Len(rest) = 1 /\ Head(rest) \in Values THEN Head(rest) ELSE "word"

ValueLetter ==
    /\ AtShort /\ (Len(place) > 1 \/ optind < Len(line))
    /\ \E i \in Lettered(Head(place)) :
         /\ Takes(i)
         /\ Scan(i, IF Len(place) > 1 THEN Spelled(Tail(place)) ELSE Word(optind + 1).text, errors)
    /\ optind' = IF Len(place) > 1 THEN optind + 1 ELSE optind + 2
    /\ place' = <<>>
    /\ Unmoved /\ Quiet /\ UNCHANGED pc

LetterWithoutValue ==
    /\ AtShort /\ Len(place) = 1 /\ optind = Len(line)
    /\ \E i \in Lettered(Head(place)) : Takes(i)
    /\ errors' = Register(errors, End, "missarg", AtFault)
    /\ optind' = optind + 1 /\ place' = <<>>
    /\ Unmoved /\ Quiet /\ UNCHANGED <<pc, given>>

-----------------------------------------------------------------------------
(* arg_parse_untagged and arg_parse_check.                                       *)

(* The table has no entry without a name: every operand is an error.             *)
RefuseOperand ==
    /\ pc = "untagged" /\ optind <= Len(line)
    /\ errors' = Register(errors, End, "nomatch", argv[optind])
    /\ optind' = optind + 1
    /\ Unmoved /\ Quiet /\ UNCHANGED <<pc, place, given>>

NoOperandLeft ==
    /\ pc = "untagged" /\ optind > Len(line)
    /\ pc' = "check"
    /\ Unmoved /\ Quiet /\ NothingRead /\ UNCHANGED <<optind, place>>

Missing(i) == Len(given[i]) < Table[i].min

(* The errors about what the first n entries lack.                               *)
Lacking ==
    LET errs[n \in 0..Len(Table)] ==
            IF n = 0 THEN <<>>
            ELSE IF Missing(n) THEN Register(errs[n - 1], n, "mincount", 0) ELSE errs[n - 1]
    IN  errs[Len(Table)]

(* Only a line without an error so far is checked for what it lacks.             *)
Check ==
    /\ pc = "check" /\ pc' = "parsed"
    /\ errors' = IF errors # <<>> THEN errors ELSE Lacking
    /\ Unmoved /\ Quiet /\ UNCHANGED <<optind, place, given>>

-----------------------------------------------------------------------------
(* su_parse_command_line.                                                        *)

ParsedStays == UNCHANGED <<line, posix, argv, optind, place, nonopt, given, errors>>
Was(name) == given[Index(name)] # <<>>
First(name) == IF Was(name) THEN given[Index(name)][1] ELSE ""

Fails(p) == pc' = "failed" /\ params' = p /\ UNCHANGED outcome /\ ParsedStays

(* --help: the usage is printed and nothing else is done.                        *)
Help == pc = "parsed" /\ Was("help") /\ Fails(params)

ForgivesOne == Len(errors) = 1                            \* Mutant: whatever the one error is about

(* One error, about the details: it is ignored.                                  *)
Forgiven == Len(errors) = 1 /\ errors[1].parent = Index("details")

ParseError ==
    /\ pc = "parsed" /\ ~Was("help") /\ errors # <<>> /\ ~Forgiven
    /\ Fails([params EXCEPT !.diagnostic = TRUE])

StartLate == params                                       \* Mutant: read when everything else was in order

(* What a restart of the application needs is kept before anything can fail.     *)
Preserved == [params EXCEPT !.exec = First("exec"), !.cwd = IF Was("cwd") THEN First("cwd") ELSE @,
                            !.interactive = IF Was("interactive") THEN First("interactive") # "0" ELSE @]

Begin ==
    /\ pc = "parsed" /\ ~Was("help") /\ (errors = <<>> \/ Forgiven)
    /\ params' = Preserved /\ pc' = "storage"
    /\ UNCHANGED outcome /\ ParsedStays

StorageError(p) == [p EXCEPT !.category = "UpdaterStorageFailure", !.diagnostic = TRUE]

(* prepare_updater_temp_dir or create_default_updater_temp_dir.                  *)
PrepareStorage ==
    /\ pc = "storage"
    /\ \/ Fails(StorageError(params))
       \/ /\ params' = [params EXCEPT !.storage = "prepared"] /\ pc' = "lock"
          /\ UNCHANGED outcome /\ ParsedStays

(* acquire_updater_run_lock.                                                     *)
LockStorage ==
    /\ pc = "lock"
    /\ \/ Fails(StorageError(params))
       \/ /\ params' = [params EXCEPT !.storage = "locked"] /\ pc' = "validate"
          /\ UNCHANGED outcome /\ ParsedStays

(* su_parse_uri and validate_https_uri.                                          *)
UriAccepted == First("base-url") = "https"

(* What the application's directory is; there is none of an empty path.          *)
Directories == {"missing", "system", "file", "plain", "installed"}

Validate ==
    /\ pc = "validate"
    /\ \E dir \in IF First("app-dir") = "" THEN {"missing"} ELSE Directories :
         LET p == [params EXCEPT !.removal = dir = "installed", !.system = dir = "system",
                                 !.pids = given[Index("pids")], !.version = First("version"), !.details = First("details"),
                                 !.prompt = IF Was("hook-prompt") THEN First("hook-prompt") # "0" ELSE @,
                                 !.restart = Was("restart-after-fail")]
         IN  /\ params' = p
             /\ pc' = IF UriAccepted /\ dir \in {"plain", "installed"}
                      THEN IF Was("hook-dir") THEN "hook" ELSE "running"
                      ELSE "failed"
    /\ UNCHANGED outcome /\ ParsedStays

(* What --hook-dir is asked for; the rest is not asked of an unresolvable path.  *)
HookTests == {"resolvable", "named", "below", "scratch", "trusted", "ordinary", "ordinary parent"}
HookDirs == {{}} \cup {HookTests \ {t} : t \in HookTests \ {"resolvable"}} \cup {HookTests}

JudgeHookDir ==
    /\ pc = "hook"
    /\ \E passed \in HookDirs :
         IF passed = HookTests
         THEN params' = [params EXCEPT !.hook = "scratch"] /\ pc' = "running"
         ELSE UNCHANGED params /\ pc' = "failed"
    /\ UNCHANGED outcome /\ ParsedStays

-----------------------------------------------------------------------------
(* exit_on_init_fail. ShowError and ShowInfo ask params.interactive.             *)

ExitOnInitFail ==
    /\ pc = "failed" /\ pc' = "end"
    /\ \E explorer \in BOOLEAN :
         outcome' =
            IF params.category # ""
            THEN [saved |-> params.category, shown |-> FALSE, started |-> params.exec]
            ELSE [saved |-> IF (line = <<>> /\ explorer) \/ params.system THEN "StartupSkipped" ELSE "StartupFailure",
                  shown |-> params.interactive, started |-> Absent]
    /\ UNCHANGED params /\ ParsedStays

(* The updater runs, or the process has ended.                                   *)
Ended == pc \in {"running", "end"} /\ UNCHANGED startVars

ReadTagged ==
    \/ BeginParse \/ SkipOperand \/ EndOfVector \/ EndOfOptions \/ NextWord
    \/ UnknownLong \/ LongIll \/ LongOption
    \/ UnknownLetter \/ FlagLetter \/ ValueLetter \/ LetterWithoutValue

Judge == Help \/ ParseError \/ Begin \/ PrepareStorage \/ LockStorage \/ Validate \/ JudgeHookDir \/ ExitOnInitFail

StartStep == ReadTagged \/ RefuseOperand \/ NoOperandLeft \/ Check \/ Judge

StartNext == StartStep \/ Ended

StartSpec == StartInit /\ [][StartNext]_startVars

-----------------------------------------------------------------------------
(* The command line read from left to right, without moving a word: what is an   *)
(* operand, and which entry was given which value.                               *)

(* Where in a word reading ends: at the letter that takes a value or a dash.     *)
Stops(w, m) == w.letters[m] = "-" \/ \E i \in Lettered(w.letters[m]) : Takes(i)
StopOf(w) == IF \E m \in DOMAIN w.letters : Stops(w, m)
             THEN CHOOSE m \in DOMAIN w.letters : Stops(w, m) /\ \A l \in 1..(m - 1) : ~Stops(w, l)
             ELSE 0

(* The entry that takes a value at that stop, and the value the word itself has. *)
Taker(w) == IF StopOf(w) = 0 THEN {}
            ELSE IF w.letters[StopOf(w)] = "-"
            THEN {i \in Candidates(w.name) : Cardinality(Candidates(w.name)) = 1 /\ Takes(i)}
            ELSE Lettered(w.letters[StopOf(w)])
OwnValue(w) == IF w.letters[StopOf(w)] = "-" THEN w.value
               ELSE IF StopOf(w) < Len(w.letters) THEN Spelled(SubSeq(w.letters, StopOf(w) + 1, Len(w.letters)))
               ELSE Absent
EatsNext(w) == Taker(w) # {} /\ OwnValue(w) = Absent

LongFlag(w) == {i \in Candidates(w.name) : /\ Cardinality(Candidates(w.name)) = 1
                                           /\ ~Takes(i) /\ w.value = Absent}
FlagsOf(w) == (UNION {Lettered(w.letters[m]) : m \in 1..(IF StopOf(w) = 0 THEN Len(w.letters) ELSE StopOf(w) - 1)})
              \cup IF StopOf(w) # 0 /\ w.letters[StopOf(w)] = "-" THEN LongFlag(w) ELSE {}

(* What the last n words come to, if reading gets that far: the operands, the    *)
(* values each entry is given and the flags. Of a number there is a value only   *)
(* where one is written.                                                         *)
NothingGiven == [i \in Entries |-> <<>>]
Digits == {"0", "1", "huge"}
Behind(words, k) == [m \in 1..(Len(words) - k) |-> m + k]

ReadLast[n \in 0..Len(line)] ==
    LET k == Len(line) - n + 1
        w == line[k]
    IN  IF n = 0 THEN [operands |-> <<>>, values |-> NothingGiven, flags |-> {}]
        ELSE IF IsEnd(w) THEN [operands |-> Behind(line, k), values |-> NothingGiven, flags |-> {}]
        ELSE IF w.letters = <<>>
        THEN IF posix THEN [operands |-> Behind(line, k - 1), values |-> NothingGiven, flags |-> {}]
             ELSE [ReadLast[n - 1] EXCEPT !.operands = <<k>> \o @]
        ELSE LET eats == EatsNext(w)
                 value == IF eats THEN line[k + 1].text ELSE OwnValue(w)
                 taken == {i \in Taker(w) : ~(eats /\ n = 1) /\ (Table[i].kind = "int" => value \in Digits)}
             IN  [ReadLast[IF eats /\ n > 1 THEN n - 2 ELSE n - 1] EXCEPT
                    !.values = [i \in Entries |-> IF i \in taken THEN <<value>> \o @[i] ELSE @[i]],
                    !.flags = @ \cup FlagsOf(w)]

Reading == ReadLast[Len(line)]

Overfull == \E e \in Range(errors) : e.error = "limit"

(* However options and operands were mixed, moved and cut short, the operands    *)
(* are refused one by one in the order they were given in, none twice and none   *)
(* passed over.                                                                  *)
OperandsRefused ==
    pc = "parsed" /\ ~Overfull =>
        LET operands == Reading.operands
            before == Len(errors) - Len(operands)
        IN  /\ before >= 0
            /\ \A n \in DOMAIN errors :
                   IF n > before THEN errors[n].error = "nomatch" /\ errors[n].at = operands[n - before]
                   ELSE errors[n].error # "nomatch"

(* Each option ends with what a reading from left to right gives it: the values  *)
(* it was given first, as many as it has room for, a number only where one is    *)
(* written, and a flag only where one stands.                                    *)
GivenAsWritten ==
    pc = "parsed" =>
        LET read == Reading IN
        \A i \in Entries :
            LET written == read.values[i]
                count == IF Len(written) < Table[i].max THEN Len(written) ELSE Table[i].max
            IN  given[i] = IF Takes(i) THEN [n \in 1..count |-> written[n]]
                           ELSE IF i \in read.flags THEN <<"">> ELSE <<>>

(* An error about an option shows the word that has the option in it, though the *)
(* words have been moved; of an empty value apart from its option it shows the   *)
(* empty word.                                                                   *)
ErrorsShowTheirWord ==
    \A e \in Range(errors) :
        /\ e.error \in {"missarg", "longopt"} => e.at \in DOMAIN line
        /\ e.error = "missarg" => line[e.at].letters # <<>> \/ line[e.at].text = ""
        /\ e.error = "longopt" => "-" \in Range(line[e.at].letters)

(* "We have all of the required parameters", cli-parser.cc:286: past the parser, *)
(* each required option but the details was given. Not so when the details were  *)
(* given twice: that is the one error, so nothing is checked, and it is ignored. *)
RequiredGiven ==
    pc \in {"storage", "lock", "validate", "hook", "running"} =>
        \/ \A i \in Entries \ {Index("details")} : ~Missing(i)
        \/ Forgiven /\ errors[1].error = "maxcount"

(* A storage that fails costs the update, not the application: it is started     *)
(* with the command line that was given for it. And once the line was            *)
(* understood, nothing is shown to a user who asked for silence.                 *)
WayBackKept ==
    pc = "end" =>
        /\ params.category # "" => outcome.started = First("exec") /\ outcome.saved = params.category
        /\ outcome.shown /\ First("interactive") = "0" => Was("help") \/ (errors # <<>> /\ ~Forgiven)

\* getopt_long, which moves the words while it reads them, and the table behind it come
\* to what a reading from left to right comes to, in values, operands and errors.
ReadAsWritten ==
    /\ StartTypeOK
    /\ OperandsRefused
    /\ GivenAsWritten
    /\ ErrorsShowTheirWord

\* A start that goes on has what an update needs, and one that fails for its storage
\* still starts the application.
StartSound ==
    /\ RequiredGiven
    /\ WayBackKept
=============================================================================
