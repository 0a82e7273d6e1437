------------------------------- MODULE Launch -------------------------------
(* From main() to the program's exit: main.c, init.lua, and the end of     *)
(* luvibundle.lua that runs an application.  The command line is any short *)
(* sequence of words and flags.                                            *)
EXTENDS Integers, SequencesExt, FiniteSetsExt

CONSTANTS Tokens,       \* the arguments a command line is made of
          UnknownFlags, \* those that begin with a dash and are no flag of luvi
          MaxArgs,      \* arguments on one command line
          Returns       \* the numbers an application returns

(* The table of flags; "output" and "main" take a value.                   *)
commands ==
    [f \in {"-o", "--output", "-m", "--main", "-v", "--version", "-h", "--help",
            "-s", "--strip", "--compile", "--force"} |->
       CASE f \in {"-o", "--output"}  -> "output"
         [] f \in {"-m", "--main"}    -> "main"
         [] f \in {"-v", "--version"} -> "version"
         [] f \in {"-h", "--help"}    -> "help"
         [] f \in {"-s", "--strip"}   -> "strip"
         [] f = "--compile"           -> "compile"
         [] f = "--force"             -> "force"]

Commands == {commands[f] : f \in DOMAIN commands}
TakesValue == {"output", "main"}

ASSUME LaunchAssumption ==
    /\ UnknownFlags \cap (DOMAIN commands \cup {"--"}) = {}
    /\ MaxArgs \in Nat /\ Returns \subseteq Int

VARIABLES args,         \* the command line after the program's name
          exeZip,       \* the executable ends in a zip
          pc,
          i,            \* the arguments parsed
          key,          \* the flag that waits for its value
          options,      \* the values given, TRUE for a flag without one
          bundles, appArgs,
          ran,          \* the bundles and arguments an application ran with
          printed,      \* what was printed of version and help
          exit          \* the exit code, once pc is "exit"

vars == <<args, exeZip, pc, i, key, options, bundles, appArgs, ran, printed, exit>>
parsed == <<i, key, options, bundles, appArgs>>

None == "none"
NoRun == [bundles |-> <<>>, main |-> None, args |-> <<>>]

Init == /\ args \in BoundedSeq(Tokens, MaxArgs)
        /\ exeZip \in BOOLEAN
        /\ pc = "main" /\ i = 0 /\ key = None
        /\ options = [c \in {} |-> None]
        /\ bundles = <<>> /\ appArgs = <<>>
        /\ ran = NoRun /\ printed = {} /\ exit = 0

ExitWith(code) == pc' = "exit" /\ exit' = code

(* What main makes of an error under its pcall.                            *)
ErrorCode == -1

LuaError == ExitWith(ErrorCode) /\ UNCHANGED <<parsed, ran, printed>>

(* vm_acquire fails, or the Lua state is ready and init.lua is called.     *)
StartLua ==
    /\ pc = "main"
    /\ \/ ExitWith(1)
       \/ pc' = "detect" /\ exit' = exit
    /\ UNCHANGED <<args, exeZip, parsed, ran, printed>>

(* A zip appended to the executable is the application, and all of the     *)
(* command line is its own.                                                *)
TakesOwnZip ==
    IF exeZip
    THEN /\ pc' = "run" /\ bundles' = <<"exe">> /\ appArgs' = args
         /\ UNCHANGED <<i, key, options>>
    ELSE pc' = "parse" /\ UNCHANGED parsed

DetectZip ==
    /\ pc = "detect"
    /\ TakesOwnZip
    /\ UNCHANGED <<args, exeZip, ran, printed, exit>>

\* options[command] = value
Given(command, value) ==
    [c \in DOMAIN options \cup {command} |-> IF c = command THEN value ELSE options[c]]

SkipsOne == i + 3

FirstAppArg == IF bundles = <<>> THEN i + 3 ELSE i + 2

(* "--": the rest of the line is the application's, but for a bundle if    *)
(* none was named yet.                                                     *)
ParseDashes ==
    LET borrows == bundles = <<>> /\ i + 2 <= Len(args)
    IN  /\ bundles' = IF borrows THEN <<args[i + 2]>> ELSE bundles
        /\ appArgs' = SubSeq(args, FirstAppArg, Len(args))
        /\ i' = Len(args)
        /\ UNCHANGED <<key, options>>

DashesOrValue(arg) == arg = "--" /\ key = None

IsDashes(arg) == arg = "--"

ParseValue(arg) ==
    /\ options' = Given(key, arg)
    /\ key' = None /\ i' = i + 1
    /\ UNCHANGED <<bundles, appArgs>>

ParseFlag(command) ==
    /\ IF command \in TakesValue
       THEN key' = command /\ UNCHANGED options
       ELSE key' = key /\ options' = Given(command, "true")
    /\ i' = i + 1
    /\ UNCHANGED <<bundles, appArgs>>

ParseBundle(arg) ==
    /\ bundles' = Append(bundles, arg)
    /\ i' = i + 1
    /\ UNCHANGED <<key, options, appArgs>>

Proceeds == UNCHANGED <<pc, ran, printed, exit>>

(* One turn of the loop over the arguments.                                *)
ParseArg ==
    /\ pc = "parse" /\ i < Len(args)
    /\ LET arg     == args[i + 1]
           isFlag  == arg \in DOMAIN commands
           command == commands[arg]
       IN  \/ IsDashes(arg) /\ ParseDashes /\ Proceeds
           \/ ~IsDashes(arg) /\ key # None /\ ParseValue(arg) /\ Proceeds
           \/ /\ ~IsDashes(arg) /\ key = None /\ isFlag
              /\ \/ command \notin DOMAIN options /\ ParseFlag(command) /\ Proceeds
                 \/ command \in DOMAIN options /\ LuaError
           \/ ~IsDashes(arg) /\ key = None /\ arg \in UnknownFlags /\ LuaError
           \/ /\ ~IsDashes(arg) /\ key = None /\ ~isFlag /\ arg \notin UnknownFlags
              /\ ParseBundle(arg) /\ Proceeds
    /\ UNCHANGED <<args, exeZip>>

Asked == DOMAIN options \cap {"version", "help"}

(* After the loop: an error, or the pages asked for or shown by default,   *)
(* or a build, or a run.                                                   *)
Dispatch ==
    /\ pc = "parse" /\ i = Len(args)
    /\ LET pages == IF bundles = <<>> /\ Asked = {} THEN {"version", "help"} ELSE Asked
       IN  \/ key # None /\ LuaError
           \/ /\ key = None /\ pages # {}
              /\ printed' = pages /\ ExitWith(0) /\ UNCHANGED <<parsed, ran>>
           \/ /\ key = None /\ pages = {}
              /\ pc' = IF "output" \in DOMAIN options THEN "build" ELSE "run"
              /\ UNCHANGED <<parsed, ran, printed, exit>>
    /\ UNCHANGED <<args, exeZip>>

(* makeBundle and buildBundle; the latter returns nothing.                 *)
Build == /\ pc = "build"
         /\ \/ ExitWith(0) /\ UNCHANGED <<parsed, ran, printed>>
            \/ LuaError
         /\ UNCHANGED <<args, exeZip>>

Main == IF "main" \in DOMAIN options THEN options["main"] ELSE "main.lua"

(* commonBundle finds no bundle or no main file, which is an error, or     *)
(* calls the main file.                                                    *)
FindMain ==
    /\ pc = "run"
    /\ \/ LuaError
       \/ /\ ran' = [bundles |-> bundles, main |-> Main, args |-> appArgs]
          /\ pc' = "app" /\ UNCHANGED <<parsed, printed, exit>>
    /\ UNCHANGED <<args, exeZip>>

(* The application throws, or returns a number or anything else.           *)
AppEnds ==
    /\ pc = "app"
    /\ \/ LuaError
       \/ /\ \E code \in Returns : ExitWith(code)
          /\ UNCHANGED <<parsed, ran, printed>>
       \/ ExitWith(0) /\ UNCHANGED <<parsed, ran, printed>>
    /\ UNCHANGED <<args, exeZip>>

Next == \/ StartLua \/ DetectZip \/ ParseArg \/ Dispatch \/ Build \/ FindMain
        \/ AppEnds

Spec == Init /\ [][Next]_vars

-----------------------------------------------------------------------------
(* The command line read as a whole.  A value is what follows a flag that  *)
(* takes one and is no value itself.                                       *)
ValueFlags == {"-o", "--output", "-m", "--main"}
MainFlags  == {"-m", "--main"}

MarksValue(line, n, values) ==
    IF n > 1 /\ n - 1 \notin values /\ line[n - 1] \in ValueFlags
    THEN values \cup {n} ELSE values

ValuePlaces(line) ==
    LET values[n \in 0 .. Len(line)] ==
          IF n = 0 THEN {} ELSE MarksValue(line, n, values[n - 1])
    IN  values[Len(line)]

(* The first "--", where luvi's own arguments end.                         *)
End(line) == Min({n \in DOMAIN line : line[n] = "--"} \cup {Len(line) + 1})

Rest(line) == SubSeq(line, End(line) + 1, Len(line))

(* Where a bundle is named, and where the main file is.                    *)
Words(line) == {n \in (1 .. End(line) - 1) \ ValuePlaces(line) : line[n] \notin DOMAIN commands}
Mains(line) == {n \in ValuePlaces(line) : n < End(line) /\ line[n - 1] \in MainFlags}

(* The arguments at these places, in their order.                          *)
ListOf(list, places, line) ==
    /\ Len(list) = Cardinality(places)
    /\ \A n \in places : list[Cardinality(places \cap 1 .. n)] = line[n]

Told(run, line) ==
    /\ Words(line) # {} =>
          ListOf(run.bundles, Words(line), line) /\ run.args = Rest(line)
    /\ \A n \in Mains(line) : run.main = line[n]
    /\ Mains(line) = {} => run.main = "main.lua"

(* An application never runs with something other than the main file asked *)
(* for and, when a bundle is named before "--", the bundles named there    *)
(* and all that follows "--" as its arguments (init.lua:75); or, from its  *)
(* own zip, with the whole line.  A line that names no bundle is left out: *)
(* the code then takes the first argument after "--" from the application. *)
RunsAsTold ==
    ran # NoRun =>
      IF exeZip
      THEN ran = [bundles |-> <<"exe">>, main |-> "main.lua", args |-> args]
      ELSE Told(ran, args)

FlagPlaces(line, n) == {m \in (1 .. n) \ ValuePlaces(line) : line[m] \in DOMAIN commands}

BadLine(line) ==
    \/ \E n \in (1 .. End(line) - 1) \ ValuePlaces(line) :
          \/ line[n] \in UnknownFlags
          \/ /\ line[n] \in DOMAIN commands
             /\ \E m \in FlagPlaces(line, n - 1) : commands[line[m]] = commands[line[n]]
    \/ \E n \in (1 .. End(line) - 1) \ ValuePlaces(line) :
          n = End(line) - 1 /\ line[n] \in ValueFlags

(* Nothing runs and nothing is built when the command line has an unknown  *)
(* flag, the same flag twice, or a flag without its value, before "--":    *)
(* luvi then exits with an error.                                          *)
BadLineFails ==
    BadLine(args) /\ ~exeZip =>
        /\ ran = NoRun /\ pc # "build" /\ printed = {}
        /\ pc = "exit" => exit \in {1, -1}
=============================================================================
