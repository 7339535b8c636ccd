--------------------------- MODULE ConsoleCommand ---------------------------
(***************************************************************************)
(* The console command objects of xdCore/Console/ConsoleCommand.hpp and    *)
(* the dispatch rule of Commands::Execute.  Nothing here has a state: a    *)
(* command is its template instantiation (Kind), the flags its constructor *)
(* receives, and what the dispatcher does with a word of arguments.        *)
(*                                                                         *)
(* An argument string is one element of Word; "" is the empty string that  *)
(* Commands::Execute(cpcstr) leaves when the line is a single word.        *)
(***************************************************************************)
CONSTANTS
    Command,     \* the ICommand objects
    Kind,        \* Command -> the type argument of Command<type>
    EmptyArg,    \* constructor argument emptyArgumentsHandled (CallWithArgs)
    LowerArg,    \* constructor argument lowerCaseArguments (Call, CallWithArgs)
    Word,        \* argument strings
    ToLower      \* std::tolower applied to every character of a word

ValueKinds == {"bool", "int", "float", "double", "string"}
CallKinds  == {"Call", "CallWithArgs"}

ASSUME CommandAssumption ==
    /\ Kind \in [Command -> ValueKinds \cup CallKinds]
    /\ EmptyArg \in [Command -> BOOLEAN]
    /\ LowerArg \in [Command -> BOOLEAN]

ASSUME WordAssumption ==
    /\ "" \in Word
    /\ ToLower \in [Word -> Word]
    /\ \A w \in Word : /\ ToLower[ToLower[w]] = ToLower[w]
                       /\ ToLower[w] = "" <=> w = ""

(* The flags each constructor leaves on the object. *)
EmptyArgumentsHandled(c) == \/ Kind[c] = "Call"
                            \/ Kind[c] = "CallWithArgs" /\ EmptyArg[c]

LowerCaseArguments(c) == \/ Kind[c] = "bool"
                         \/ Kind[c] \in CallKinds /\ LowerArg[c]

(* CommandBase leaves saveAllowed set and no constructor changes it. *)
SaveAllowed(c) == TRUE

(* Mutated form of Handler: the test of EmptyArgumentsHandled is missing.  *)
Handler_NoEmptyTest(c, args, enabled) ==
    IF ~enabled THEN "none" ELSE IF args # "" THEN "ExecuteArgs" ELSE "Execute"

(* The virtual method Commands::Execute calls on an enabled or disabled    *)
(* command: Execute(), Execute(args), neither, or only a line of status.   *)
Handler(c, args, enabled) ==
    IF ~enabled THEN "none"
    ELSE IF args # "" THEN "ExecuteArgs"
    ELSE IF EmptyArgumentsHandled(c) THEN "Execute"
    ELSE "status"

(* The arguments as that method receives them. *)
PassedArgs(c, args) == IF LowerCaseArguments(c) THEN ToLower[args] ELSE args

(* Commands::Execute returns true exactly when it called a method. *)
Invokes(handler) == handler \in {"Execute", "ExecuteArgs"}

(* What the function behind a Call or CallWithArgs command sees: a Call    *)
(* drops its arguments, CallWithArgs::Execute() passes the empty string.   *)
SeenArgs(c, handler, args) ==
    IF Kind[c] = "Call" \/ handler = "Execute" THEN "" ELSE args

(* Command<bool>: the words it accepts and the status line it prints.      *)
TrueWords  == {"on", "true", "1"}
FalseWords == {"off", "false", "0"}
BoolValue(args, old) == CASE args \in TrueWords  -> TRUE
                          [] args \in FalseWords -> FALSE
                          [] OTHER               -> old
BoolStatus(v) == IF v THEN "on" ELSE "off"
=============================================================================
