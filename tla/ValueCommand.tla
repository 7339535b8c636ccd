---------------------------- MODULE ValueCommand -----------------------------
(***************************************************************************)
(* One command with a value: Command<bool>, <int>, <float>, <double> or    *)
(* <string> of xdCore/Console/ConsoleCommand.hpp, over the variable of the *)
(* program it refers to.  The console hands it arguments, the program      *)
(* writes the variable and moves the limits, config_save writes down its   *)
(* status and config_load executes that line again.                        *)
(*                                                                         *)
(* The numbers of float and double are whole multiples of one small unit,  *)
(* and NaN.  What std::stoi, std::stof and std::to_string make of a text   *)
(* or of a number are constants: the assumptions say what is known.  The   *)
(* command is enabled; CommandRegistry has the dispatch of one that is not.*)
(***************************************************************************)
EXTENDS Integers, ConsoleCommand

CONSTANTS
    NaN,         \* the float that is no number
    Throws,      \* what std::stoi and std::stof return when they throw
    StoI, StoF,  \* Word -> what it is read as; both stop at the first odd character
    IntText,     \* std::to_string of an int
    RealText,    \* std::to_string of a float or a double: six decimals
    Float,       \* the numbers a float can be, among those a double can be
    Resolution,  \* how far a printed number may be from the number
    Size,        \* args.length()
    Reread,      \* a text written into a line and read back: its words, one space apart
    Limit        \* what min and max may be; maxSize is one of those from 0 on

Int32  == DOMAIN IntText
Double == DOMAIN RealText

ASSUME TextAssumption ==
    /\ NaN \notin Int /\ Throws \notin Int \union {NaN}
    /\ StoI \in [Word -> Int32 \union {Throws}] /\ StoF \in [Word -> Float \union {Throws}]
    /\ IntText \in [Int32 -> Word] /\ RealText \in [Double -> Word]
    /\ Int32 \subseteq Int /\ Double \subseteq Int \union {NaN} /\ Float \subseteq Double
    /\ Size \in [Word -> Nat] /\ Reread \in [Word -> Word] /\ Limit \subseteq Int
    /\ Resolution \in Nat

(* An int reads as what was printed; a float as a number as near as the    *)
(* decimals allow, and as itself once it has come out of six decimals.     *)
(* What was read out of a line stays as it is when it is read once more.   *)
ASSUME RoundingAssumption ==
    /\ \A n \in Int32 : StoI[IntText[n]] = n
    /\ \A x \in Float : /\ StoF[RealText[x]] # Throws
                        /\ x = NaN <=> StoF[RealText[x]] = NaN
                        /\ x # NaN => /\ StoF[RealText[x]] - x <= Resolution
                                      /\ x - StoF[RealText[x]] <= Resolution
    /\ \A x \in Double : StoF[RealText[x]] # Throws =>
                            StoF[RealText[StoF[RealText[x]]]] = StoF[RealText[x]]

ASSUME LineTextAssumption ==
    /\ {"on", "off"} \subseteq Word /\ ToLower["on"] = "on" /\ ToLower["off"] = "off"
    /\ \A w \in Word : Reread[Reread[w]] = Reread[w]
    /\ \A w \in {"on", "off"} : Reread[w] = w
    /\ \A n \in Int32 : IntText[n] # "" /\ Reread[IntText[n]] = IntText[n]
    /\ \A x \in Double : RealText[x] # "" /\ Reread[RealText[x]] = RealText[x]
    /\ \A w \in Word : Size[Reread[w]] <= Size[w]

VARIABLES
    command,     \* the object: it never changes
    value,       \* the variable it refers to
    min, max,    \* its limits; max is the maxSize of a string
    saved,       \* the status in the config file, and the value it was made of
    process      \* "running", or "terminated" by an exception nobody catches

valueVars == <<command, value, min, max, saved, process>>

kind     == Kind[command]
Running  == process = "running"
Real     == kind \in {"float", "double"}
Bounded  == kind = "int" \/ Real
Values   == CASE kind = "bool" -> BOOLEAN
              [] kind = "int" -> Int32
              [] kind = "float" -> Float
              [] kind = "double" -> Double
              [] kind = "string" -> Word

Status(v) == CASE kind = "bool" -> BoolStatus(v)
               [] kind = "int" -> IntText[v]
               [] Real -> RealText[v]
               [] kind = "string" -> v

ValueInit ==
    /\ command \in {c \in Command : Kind[c] \in ValueKinds}
    /\ value \in Values
    /\ min \in Limit /\ max \in Limit /\ (kind = "string" => max >= 0)
    /\ saved = [text |-> Status(value), of |-> value]
    /\ process = "running"

-----------------------------------------------------------------------------
(* What the parser behind Execute(args) gets, whether it throws, whether   *)
(* it takes it.  Double reads with std::stof too.                          *)
Number(w)   == IF kind = "int" THEN StoI[w] ELSE StoF[w]
Throwing(w) == Bounded /\ Number(w) = Throws

(* Mutated form of Inside: the limits themselves are outside. *)
Inside_Open(x) == x # NaN => x > min /\ x < max

(* v < min || v > max refuses; no comparison with NaN holds. *)
Inside(x)  == x # NaN => ~(x < min \/ x > max)

Accepts(w) == CASE kind = "bool" -> w \in TrueWords \union FalseWords
                [] Bounded -> Inside(Number(w))
                [] kind = "string" -> max = 0 \/ Size[w] <= max

Meaning(w, old) == CASE kind = "bool" -> BoolValue(w, old)
                     [] Bounded -> Number(w)
                     [] kind = "string" -> w

(* What Commands::Execute with the arguments w makes of the variable, and  *)
(* whether an exception leaves it, and with it the program.                *)
Parses(w) == Handler(command, w, TRUE) = "ExecuteArgs"
Ends(w)   == Parses(w) /\ Throwing(PassedArgs(command, w))

Outcome(w, old) ==
    LET args == PassedArgs(command, w)
    IN  IF Parses(w) /\ ~Throwing(args) /\ Accepts(args) THEN Meaning(args, old) ELSE old

DispatchValue(w) ==
    /\ Running
    /\ value' = Outcome(w, value)
    /\ process' = IF Ends(w) THEN "terminated" ELSE process
    /\ UNCHANGED <<command, min, max, saved>>

(* A line is cut into words first; a call with arguments is not. *)
ExecuteLine(w) == DispatchValue(Reread[w])
ExecuteArgs(w) == DispatchValue(w)

(* The program writes its variable, with Value(newValue), RevertValue or   *)
(* without a call.                                                         *)
Assign(v) ==
    /\ Running /\ value' = v
    /\ UNCHANGED <<command, min, max, saved, process>>

SetMin(n) ==
    /\ Running /\ Bounded /\ min' = n
    /\ UNCHANGED <<command, value, max, saved, process>>

SetMax(n) ==
    /\ Running /\ Bounded /\ max' = n
    /\ UNCHANGED <<command, value, min, saved, process>>

Save ==
    /\ Running /\ saved' = [text |-> Status(value), of |-> value]
    /\ UNCHANGED <<command, value, min, max, process>>

(* config_load meets the line that config_save wrote. *)
Load == ExecuteLine(saved.text)

Terminated == ~Running /\ UNCHANGED valueVars

Console == Load \/ \E w \in Word : ExecuteLine(w) \/ ExecuteArgs(w)

ValueNext ==
    \/ Console \/ Save \/ Terminated
    \/ \E v \in Values : Assign(v)
    \/ \E n \in Limit : SetMin(n) \/ SetMax(n)

ValueSpec == ValueInit /\ [][ValueNext]_valueVars

-----------------------------------------------------------------------------
(* The variable keeps its type whatever is read into it, and the saved     *)
(* line is the status of a value of that type.                             *)
ValueTypeOK ==
    /\ command \in Command /\ kind \in ValueKinds
    /\ value \in Values /\ min \in Limit /\ max \in Limit
    /\ saved.text = Status(saved.of) /\ saved.of \in Values
    /\ process \in {"running", "terminated"}

(* The promise of Syntax(), "range [min, max]". *)
InRange(x) == x \in Int /\ min <= x /\ x <= max

(* Whatever the console executes, be it a line saved when the limits were  *)
(* others, a value within its limits stays there: any argument outside     *)
(* them is refused.  The code does not keep this: NaN is below no limit    *)
(* and above none.                                                         *)
RangeKept == [][Console /\ Bounded /\ InRange(value) => InRange(value')]_valueVars

(* How far a number may be from what was printed of it; a text that is     *)
(* taken; what the saved value v must have become of the variable.         *)
Near(x, y) == x = y \/ (x \in Int /\ y \in Int /\ x - y <= Resolution /\ y - x <= Resolution)
Fits(w)    == w # "" /\ (max = 0 \/ Size[w] <= max)

Restores(v, new) ==
    CASE kind = "bool"   -> new = v
      [] kind = "int"    -> new = IF InRange(v) THEN v ELSE value
      [] kind = "float"  -> \/ Near(v, new)
                            \/ new = value /\ (v - Resolution < min \/ v + Resolution > max)
      [] kind = "double" -> new = value \/ new \in Float
      [] kind = "string" -> new = IF Fits(Reread[v]) THEN Reread[v] ELSE value

(* What becomes of a value at the end and the next start of the program. *)
Loaded(v) == Outcome(Reread[Status(v)], v)

(* At any time, under whatever limits there are by then: a bool and an int *)
(* come back from the config file as they were saved, a float as near as   *)
(* six decimals say, a string with one space between its words.  Only an   *)
(* empty string does not come back, a number outside the limits, a string  *)
(* that is too long.  A double comes back as a float, unless no float      *)
(* holds it: then reading its line ends the program.  And a value that     *)
(* goes through the file again and again does not drift: the first time    *)
(* may change it, the second not.                                          *)
SavedComesBack ==
    LET line == Reread[saved.text]
    IN  /\ Restores(saved.of, Outcome(line, value))
        /\ Ends(line) => kind = "double"
        /\ Loaded(Loaded(value)) = Loaded(value)
=============================================================================
