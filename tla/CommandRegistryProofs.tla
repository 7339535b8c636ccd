----------------------- MODULE CommandRegistryProofs ------------------------
(***************************************************************************)
(* CommandRegistry for every set of commands, every assignment of names to *)
(* them and every set of argument words; and ValueCommand for every set of *)
(* texts and of numbers, however they are printed and read.                *)
(***************************************************************************)
EXTENDS CommandRegistry, ValueCommand, SequenceTheorems, TLAPS

(* The inductive invariant: a vector of commands without two of a name.    *)
RegistryInv == TypeOK /\ UniqueNames

(* Under unique names the first-match walk finds the element at i when it  *)
(* is asked for the name of the element at i.                              *)
LEMMA LookupFindsElement ==
    ASSUME NEW s \in Seq(Command), Distinct(s), NEW i \in DOMAIN s
    PROVE  Lookup(s, NameOf[s[i]]) = s[i]
<1> DEFINE n == NameOf[s[i]]
<1>1. Holds(s, n)
  BY DEF Holds
<1>2. IsFirst(s, n, i)
  <2>1. \A j \in 1..(i - 1) : j \in DOMAIN s /\ j # i
    OBVIOUS
  <2> QED BY <2>1 DEF IsFirst, Distinct
<1>3. PICK k \in DOMAIN s : /\ k = CHOOSE j \in DOMAIN s : IsFirst(s, n, j)
                            /\ IsFirst(s, n, k)
  BY <1>2
<1>4. k = i
  BY <1>3 DEF IsFirst, Distinct
<1> QED BY <1>1, <1>3, <1>4 DEF Lookup

(* A lookup therefore answers c exactly when c is there under that name,   *)
(* and Null exactly when nothing of that name is.                          *)
LEMMA LookupMeaning ==
    ASSUME NEW s \in Seq(Command), Distinct(s), NEW n
    PROVE  /\ Lookup(s, n) \in Command \cup {Null}
           /\ Lookup(s, n) = Null <=> \A i \in DOMAIN s : NameOf[s[i]] # n
           /\ \A c \in Command :
                 Lookup(s, n) = c <=> NameOf[c] = n /\ \E i \in DOMAIN s : s[i] = c
<1>1. \A i \in DOMAIN s : s[i] \in Command /\ s[i] # Null
  BY NameAssumption
<1>2. CASE Holds(s, n)
  <2>1. PICK i \in DOMAIN s : NameOf[s[i]] = n
    BY <1>2 DEF Holds
  <2>2. Lookup(s, n) = s[i]
    BY <2>1, LookupFindsElement
  <2>3. \A c \in Command : NameOf[c] = n /\ (\E j \in DOMAIN s : s[j] = c) => c = s[i]
    BY <2>1 DEF Distinct
  <2> QED BY <1>1, <2>1, <2>2, <2>3
<1>3. CASE ~Holds(s, n)
  <2>1. Lookup(s, n) = Null
    BY <1>3 DEF Lookup
  <2>2. \A i \in DOMAIN s : NameOf[s[i]] # n
    BY <1>3 DEF Holds
  <2> QED BY <2>1, <2>2, NameAssumption
<1> QED BY <1>2, <1>3

(* Erasing one element shifts those behind it forward by one. *)
LEMMA ErasedElements ==
    ASSUME NEW S, NEW s \in Seq(S), NEW i \in DOMAIN s
    PROVE  /\ Erased(s, i) \in Seq(S)
           /\ Len(Erased(s, i)) = Len(s) - 1
           /\ \A j \in 1..(Len(s) - 1) :
                 Erased(s, i)[j] = s[IF j < i THEN j ELSE j + 1]
<1> DEFINE front == SubSeq(s, 1, i - 1)
           back  == SubSeq(s, i + 1, Len(s))
<1>1. i \in 1..Len(s) /\ Len(s) \in Nat
  OBVIOUS
<1>2. /\ front \in Seq(S)
      /\ Len(front) = i - 1
      /\ \A j \in 1..(i - 1) : front[j] = s[j]
  BY <1>1
<1>3. /\ back \in Seq(S)
      /\ Len(back) = Len(s) - i
      /\ \A j \in 1..(Len(s) - i) : back[j] = s[i + j]
  BY <1>1
<1> HIDE DEF front, back
<1>4. /\ front \o back \in Seq(S)
      /\ Len(front \o back) = Len(s) - 1
      /\ \A j \in 1..(Len(s) - 1) :
            (front \o back)[j] = IF j < i THEN front[j] ELSE back[j - (i - 1)]
  <2> DEFINE c == front \o back
             m == Len(s)
  <2>1. /\ c \in Seq(S) /\ Len(c) = Len(front) + Len(back)
        /\ \A j \in 1..(Len(front) + Len(back)) :
              c[j] = IF j <= Len(front) THEN front[j] ELSE back[j - Len(front)]
    BY <1>2, <1>3, ConcatProperties
  <2>2. i \in Nat /\ m \in Nat /\ Len(front) = i - 1 /\ Len(back) = m - i
    BY <1>1, <1>2, <1>3
  <2> HIDE DEF c, m
  <2>3. Len(front) + Len(back) = m - 1
    BY ONLY <2>2
  <2>4. c \in Seq(S) /\ Len(c) = m - 1
        /\ \A j \in 1..(m - 1) : c[j] = IF j <= i - 1 THEN front[j] ELSE back[j - (i - 1)]
    BY ONLY <2>1, <2>2, <2>3
  <2>5. \A j \in 1..(m - 1) : c[j] = IF j < i THEN front[j] ELSE back[j - (i - 1)]
    <3> SUFFICES ASSUME NEW j \in 1..(m - 1)
                 PROVE  c[j] = IF j < i THEN front[j] ELSE back[j - (i - 1)]
      OBVIOUS
    <3>1. j <= i - 1 <=> j < i
      BY <2>2
    <3> QED
      BY <2>4, <3>1
  <2> QED
    BY <2>4, <2>5 DEF c, m
<1>5. \A j \in 1..(Len(s) - 1) : (front \o back)[j] = s[IF j < i THEN j ELSE j + 1]
  <2> SUFFICES ASSUME NEW j \in 1..(Len(s) - 1)
               PROVE  (front \o back)[j] = s[IF j < i THEN j ELSE j + 1]
    OBVIOUS
  <2>1. CASE j < i
    BY <1>1, <1>2, <1>4, <2>1
  <2>2. CASE ~(j < i)
    <3>1. j - (i - 1) \in 1..(Len(s) - i) /\ i + (j - (i - 1)) = j + 1
      BY <1>1, <2>2
    <3> QED BY <1>1, <1>3, <1>4, <2>2, <3>1
  <2> QED BY <2>1, <2>2
<1>6. Erased(s, i) = front \o back
  BY DEF Erased, front, back
<1> QED BY <1>4, <1>5, <1>6

(* Appending a command whose name is free binds that name and no other. *)
LEMMA AppendBinds ==
    ASSUME NEW s \in Seq(Command), Distinct(s), NEW c \in Command, ~Holds(s, NameOf[c])
    PROVE  /\ Append(s, c) \in Seq(Command)
           /\ Distinct(Append(s, c))
           /\ \A n : Lookup(Append(s, c), n) = IF n = NameOf[c] THEN c ELSE Lookup(s, n)
<1> DEFINE t == Append(s, c)
<1>1. /\ t \in Seq(Command)
      /\ DOMAIN t = 1..(Len(s) + 1)
      /\ \A i \in 1..Len(s) : t[i] = s[i]
      /\ t[Len(s) + 1] = c
  OBVIOUS
<1>2. \A i \in 1..Len(s) : NameOf[s[i]] # NameOf[c]
  BY DEF Holds
<1> HIDE DEF t
<1>3. Distinct(t)
  BY <1>1, <1>2 DEF Distinct
<1>4. ASSUME NEW n PROVE Lookup(t, n) = IF n = NameOf[c] THEN c ELSE Lookup(s, n)
  <2>1. CASE n = NameOf[c]
    BY <1>1, <1>3, <2>1, LookupFindsElement
  <2>2. CASE n # NameOf[c] /\ Lookup(s, n) = Null
    <3>1. \A i \in DOMAIN s : NameOf[s[i]] # n
      BY <2>2, LookupMeaning
    <3>2. \A i \in DOMAIN t : NameOf[t[i]] # n
      BY <1>1, <2>2, <3>1
    <3> QED BY <1>1, <1>3, <2>2, <3>2, LookupMeaning
  <2>3. CASE n # NameOf[c] /\ Lookup(s, n) # Null
    <3>1. PICK i \in DOMAIN s : NameOf[s[i]] = n
      BY <2>3, LookupMeaning
    <3>2. i \in DOMAIN t /\ t[i] = s[i]
      BY <1>1
    <3> QED BY <1>1, <1>3, <2>3, <3>1, <3>2, LookupFindsElement
  <2> QED BY <2>1, <2>2, <2>3
<1> QED BY <1>1, <1>3, <1>4 DEF t

(* Erasing the element at i frees its name and no other. *)
LEMMA ErasureUnbinds ==
    ASSUME NEW s \in Seq(Command), Distinct(s), NEW i \in DOMAIN s
    PROVE  /\ Erased(s, i) \in Seq(Command)
           /\ Distinct(Erased(s, i))
           /\ \A n : Lookup(Erased(s, i), n) =
                       IF n = NameOf[s[i]] THEN Null ELSE Lookup(s, n)
<1> DEFINE t == Erased(s, i)
           from(m) == IF m < i THEN m ELSE m + 1
<1>1. /\ t \in Seq(Command)
      /\ Len(t) = Len(s) - 1
      /\ \A j \in 1..(Len(s) - 1) : t[j] = s[from(j)]
  BY ErasedElements
<1>2. DOMAIN t = 1..(Len(s) - 1) /\ i \in 1..Len(s)
  BY <1>1
<1>3. \A j \in DOMAIN t : from(j) \in DOMAIN s /\ from(j) # i /\ t[j] = s[from(j)]
  BY <1>1, <1>2
<1>4. \A k \in DOMAIN s : k # i => \E j \in DOMAIN t : from(j) = k
  <2> SUFFICES ASSUME NEW k \in DOMAIN s, k # i PROVE \E j \in DOMAIN t : from(j) = k
    OBVIOUS
  <2>1. CASE k < i
    BY <1>2, <2>1
  <2>2. CASE k > i
    <3>1. k - 1 \in DOMAIN t /\ from(k - 1) = k
      BY <1>2, <2>2
    <3> QED BY <3>1
  <2> QED BY <1>2, <2>1, <2>2
<1> HIDE DEF t
<1>5. Distinct(t)
  <2> SUFFICES ASSUME NEW j \in DOMAIN t, NEW k \in DOMAIN t, NameOf[t[j]] = NameOf[t[k]]
               PROVE  j = k
    BY DEF Distinct
  <2>1. from(j) = from(k)
    BY <1>3 DEF Distinct
  <2> QED BY <1>2, <2>1
<1> HIDE DEF from
<1>6. ASSUME NEW n PROVE Lookup(t, n) = IF n = NameOf[s[i]] THEN Null ELSE Lookup(s, n)
  <2>1. CASE n = NameOf[s[i]]
    <3>1. \A j \in DOMAIN t : NameOf[t[j]] # n
      BY <1>3, <2>1 DEF Distinct
    <3> QED BY <1>1, <1>5, <2>1, <3>1, LookupMeaning
  <2>2. CASE n # NameOf[s[i]] /\ Lookup(s, n) = Null
    <3>1. \A k \in DOMAIN s : NameOf[s[k]] # n
      BY <2>2, LookupMeaning
    <3>2. \A j \in DOMAIN t : NameOf[t[j]] # n
      BY <1>3, <3>1
    <3> QED BY <1>1, <1>5, <2>2, <3>2, LookupMeaning
  <2>3. CASE n # NameOf[s[i]] /\ Lookup(s, n) # Null
    <3>1. PICK k \in DOMAIN s : NameOf[s[k]] = n
      BY <2>3, LookupMeaning
    <3>2. PICK j \in DOMAIN t : from(j) = k
      BY <1>4, <2>3, <3>1
    <3>3. t[j] = s[k]
      BY <1>3, <3>2
    <3> QED BY <1>1, <1>5, <2>3, <3>1, <3>3, LookupFindsElement
  <2> QED BY <2>1, <2>2, <2>3
<1> QED BY <1>1, <1>5, <1>6 DEF t

LEMMA RegisterKeeps ==
    ASSUME RegistryInv, NEW c \in Command, Register(c)
    PROVE  RegistryInv'
<1>1. CASE Holds(commands, NameOf[c])
  BY <1>1 DEF Register, Added, RegistryInv, TypeOK, UniqueNames, Distinct
<1>2. CASE ~Holds(commands, NameOf[c])
  <2>1. commands' = Append(commands, c) /\ UNCHANGED <<enabled, last>>
    BY <1>2 DEF Register, Added
  <2>2. Append(commands, c) \in Seq(Command) /\ Distinct(Append(commands, c))
    BY <1>2, AppendBinds DEF RegistryInv, TypeOK, UniqueNames
  <2> QED BY <2>1, <2>2 DEF RegistryInv, TypeOK, UniqueNames
<1> QED BY <1>1, <1>2

LEMMA UnregisterKeeps ==
    ASSUME RegistryInv, NEW c \in Command, Unregister(c)
    PROVE  RegistryInv'
<1>1. CASE Registered(c)
  <2>1. PICK i \in DOMAIN commands : commands' = Erased(commands, i)
    BY <1>1 DEF Unregister
  <2>2. Erased(commands, i) \in Seq(Command) /\ Distinct(Erased(commands, i))
    BY ErasureUnbinds DEF RegistryInv, TypeOK, UniqueNames
  <2> QED BY <2>1, <2>2 DEF Unregister, RegistryInv, TypeOK, UniqueNames
<1>2. CASE ~Registered(c)
  BY <1>2 DEF Unregister, RegistryInv, TypeOK, UniqueNames, Distinct
<1> QED BY <1>1, <1>2

LEMMA ExecuteTypes ==
    ASSUME RegistryInv, NEW c \in Command \cup {Null}, NEW w \in Word, Execute(c, w)
    PROVE  RegistryInv'
<1>1. CASE c = Null
  BY <1>1, WordAssumption DEF Execute, NoDispatch, RegistryInv, TypeOK, UniqueNames, Distinct
<1>2. CASE c # Null
  <2>1. PassedArgs(c, w) \in Word
    BY WordAssumption DEF PassedArgs
  <2>2. Handler(c, w, enabled[c]) \in {"none", "status", "Execute", "ExecuteArgs"}
    BY DEF Handler
  <2>3. Invokes(Handler(c, w, enabled[c])) \in BOOLEAN
    BY DEF Invokes
  <2>4. last' = [command |-> c, handler |-> Handler(c, w, enabled[c]),
                 args |-> PassedArgs(c, w), handled |-> Invokes(Handler(c, w, enabled[c]))]
    BY <1>2 DEF Execute
  <2> QED BY <2>1, <2>2, <2>3, <2>4 DEF Execute, RegistryInv, TypeOK, UniqueNames, Distinct
<1> QED BY <1>1, <1>2

LEMMA GetInTable ==
    ASSUME RegistryInv, NEW n
    PROVE  Get(n) \in Command \cup {Null}
  BY LookupMeaning DEF Get, RegistryInv, TypeOK, UniqueNames

-----------------------------------------------------------------------------
(* The vector always holds commands, each name once, and the record of the *)
(* last dispatch stays well formed: Register's duplicate test against      *)
(* every order of Register, Unregister and Destroy.                        *)
THEOREM RegistryInvariant == Spec => []RegistryInv
<1>1. Init => RegistryInv
  <2> SUFFICES ASSUME Init PROVE RegistryInv
    OBVIOUS
  <2>1. commands = << >> /\ commands \in Seq(Command) /\ DOMAIN commands = 1..0
    BY DEF Init
  <2>2. UniqueNames
    BY <2>1 DEF UniqueNames, Distinct
  <2>3. "" \in Word
    BY WordAssumption
  <2>4. enabled \in [Command -> BOOLEAN]
    BY DEF Init
  <2>5. last = [command |-> Null, handler |-> "none", args |-> "", handled |-> FALSE]
    BY DEF Init, NoDispatch
  <2> QED BY <2>1, <2>2, <2>3, <2>4, <2>5 DEF RegistryInv, TypeOK
<1>2. RegistryInv /\ [Next]_vars => RegistryInv'
  <2> SUFFICES ASSUME RegistryInv, [Next]_vars PROVE RegistryInv'
    OBVIOUS
  <2>1. CASE Destroy
    BY <2>1 DEF Destroy, RegistryInv, TypeOK, UniqueNames, Distinct
  <2>2. ASSUME NEW c \in Command, Register(c) PROVE RegistryInv'
    BY <2>2, RegisterKeeps
  <2>3. ASSUME NEW c \in Command, Unregister(c) PROVE RegistryInv'
    BY <2>3, UnregisterKeeps
  <2>4. ASSUME NEW c \in Command, NEW b \in BOOLEAN, SetEnabled(c, b) PROVE RegistryInv'
    BY <2>4 DEF SetEnabled, RegistryInv, TypeOK, UniqueNames, Distinct
  <2>5. ASSUME NEW c \in Command, NEW w \in Word, Execute(c, w) PROVE RegistryInv'
    BY <2>5, ExecuteTypes
  <2>6. ASSUME NEW n \in Name, NEW w \in Word, ExecuteNamed(n, w) PROVE RegistryInv'
    BY <2>6, GetInTable, ExecuteTypes DEF ExecuteNamed
  <2>7. CASE UNCHANGED vars
    BY <2>7 DEF vars, RegistryInv, TypeOK, UniqueNames, Distinct
  <2> QED BY <2>1, <2>2, <2>3, <2>4, <2>5, <2>6, <2>7 DEF Next
<1> QED BY <1>1, <1>2, PTL DEF Spec

(* The registry's state is well typed, whatever the order of the calls. *)
THEOREM RegistryTypeOK == Spec => []TypeOK
<1>1. RegistryInv => TypeOK
  BY DEF RegistryInv
<1> QED BY <1>1, RegistryInvariant, PTL

(* No two registered commands share a name (Commands::Register). *)
THEOREM RegistryUniqueNames == Spec => []UniqueNames
<1>1. RegistryInv => UniqueNames
  BY DEF RegistryInv
<1> QED BY <1>1, RegistryInvariant, PTL

-----------------------------------------------------------------------------
LEMMA RegisterTable ==
    ASSUME RegistryInv, NEW c \in Command, Register(c)
    PROVE  Abstract!Bind(c) \/ table' = table
<1>1. NameOf[c] \in Name
  BY NameAssumption
<1>2. CASE Holds(commands, NameOf[c])
  BY <1>2 DEF Register, Added, table, Get
<1>3. CASE ~Holds(commands, NameOf[c])
  <2>1. table[NameOf[c]] = Null
    BY <1>1, <1>3 DEF table, Get, Lookup
  <2>2. commands' = Append(commands, c)
    BY <1>3 DEF Register, Added
  <2>3. \A n : Get(n)' = IF n = NameOf[c] THEN c ELSE Get(n)
    BY <1>3, <2>2, AppendBinds DEF Get, RegistryInv, TypeOK, UniqueNames
  <2>4. table' = [table EXCEPT ![NameOf[c]] = c]
    BY <2>3 DEF table
  <2> QED BY <2>1, <2>4 DEF Abstract!Bind
<1> QED BY <1>2, <1>3

LEMMA UnregisterTable ==
    ASSUME RegistryInv, NEW c \in Command, Unregister(c)
    PROVE  Abstract!Unbind(c) \/ table' = table
<1>1. NameOf[c] \in Name
  BY NameAssumption
<1>2. CASE ~Registered(c)
  BY <1>2 DEF Unregister, table, Get
<1>3. CASE Registered(c)
  <2>1. PICK i \in DOMAIN commands : commands[i] = c /\ commands' = Erased(commands, i)
    BY <1>3 DEF Unregister
  <2>2. table[NameOf[c]] = c
    BY <1>1, <2>1, LookupFindsElement DEF table, Get, RegistryInv, TypeOK, UniqueNames
  <2>3. \A n : Get(n)' = IF n = NameOf[c] THEN Null ELSE Get(n)
    BY <2>1, ErasureUnbinds DEF Get, RegistryInv, TypeOK, UniqueNames
  <2>4. table' = [table EXCEPT ![NameOf[c]] = Null]
    BY <2>3 DEF table
  <2> QED BY <2>2, <2>4 DEF Abstract!Unbind
<1> QED BY <1>2, <1>3

(* The vector with its first-match walks, duplicate test and erasures      *)
(* implements the table of names: every name is bound while free, keeps    *)
(* its command, and is freed only by that command's Unregister or Destroy. *)
THEOREM RegistryRefinesNameTable == Spec => RefinesNameTable
<1>1. Init => Abstract!Init
  BY DEF Init, Abstract!Init, table, Get, Lookup, Holds
<1>2. RegistryInv /\ [Next]_vars => [Abstract!Next]_table
  <2> SUFFICES ASSUME RegistryInv, [Next]_vars PROVE Abstract!Next \/ table' = table
    OBVIOUS
  <2>1. CASE Destroy
    <3>1. Abstract!Clear
      BY <2>1 DEF Destroy, Abstract!Clear, table, Get, Lookup, Holds
    <3> QED BY <3>1 DEF Abstract!Next
  <2>2. ASSUME NEW c \in Command, Register(c) PROVE Abstract!Next \/ table' = table
    BY <2>2, RegisterTable DEF Abstract!Next
  <2>3. ASSUME NEW c \in Command, Unregister(c) PROVE Abstract!Next \/ table' = table
    BY <2>3, UnregisterTable DEF Abstract!Next
  <2>4. CASE UNCHANGED commands
    BY <2>4 DEF table, Get
  <2> QED BY <2>1, <2>2, <2>3, <2>4
          DEF Next, SetEnabled, Execute, ExecuteNamed, vars
<1> QED BY <1>1, <1>2, RegistryInvariant, PTL DEF Spec, RefinesNameTable, Abstract!Spec

(* The copy of a command that lost the clash of names cannot take the      *)
(* winner out of the registry.                                             *)
LEMMA OwnNameKept == RegistryInv => OwnNameStep
<1> SUFFICES ASSUME RegistryInv, NEW c \in Command, Unregister(c), NEW n \in Name,
                    Get(n) \notin {c, Null}
             PROVE  Get(n)' = Get(n)
  BY DEF OwnNameStep
<1>1. CASE table' = table
  BY <1>1 DEF table
<1>2. CASE Abstract!Unbind(c)
  <2>1. table[n] = Get(n) /\ table'[n] = Get(n)'
    BY DEF table
  <2>2. n # NameOf[c]
    BY <1>2, <2>1 DEF Abstract!Unbind
  <2> QED BY <1>2, <2>1, <2>2 DEF Abstract!Unbind, table
<1> QED BY <1>1, <1>2, UnregisterTable

-----------------------------------------------------------------------------
(* Appending and erasing keep the relative order of the commands that      *)
(* stay, which is the order help and config_save print; and what is        *)
(* unregistered takes no name from another command.                        *)
THEOREM RegistryOthersKept == Spec => OthersKept
<1>1. RegistryInv /\ [Next]_vars => OrderStep
  <2> SUFFICES ASSUME RegistryInv, [Next]_vars, NEW a \in Command, NEW b \in Command,
                      Before(commands, a, b), Before(commands', b, a)
               PROVE  FALSE
    BY DEF OrderStep
  <2>1. PICK i, j \in DOMAIN commands : i < j /\ commands[i] = a /\ commands[j] = b
    BY DEF Before
  <2>2. PICK k, l \in DOMAIN commands' : k < l /\ commands'[k] = b /\ commands'[l] = a
    BY DEF Before
  <2>3. /\ commands \in Seq(Command)
        /\ \A p, q \in DOMAIN commands : commands[p] = commands[q] => p = q
    BY DEF RegistryInv, TypeOK, UniqueNames, Distinct
  <2>4. CASE UNCHANGED commands
    BY <2>1, <2>2, <2>3, <2>4
  <2>5. ASSUME NEW c \in Command, Register(c), commands' = Append(commands, c),
               ~Holds(commands, NameOf[c])
        PROVE  FALSE
    <3>1. a # c /\ b # c
      BY <2>1, <2>5 DEF Holds
    <3>2. k \in DOMAIN commands /\ l \in DOMAIN commands
      BY <2>2, <2>3, <2>5, <3>1
    <3>3. commands[k] = b /\ commands[l] = a
      BY <2>2, <2>3, <2>5, <3>2
    <3> QED BY <2>1, <2>2, <2>3, <3>2, <3>3
  <2>6. ASSUME NEW m \in DOMAIN commands, commands' = Erased(commands, m) PROVE FALSE
    <3> DEFINE from(p) == IF p < m THEN p ELSE p + 1
    <3>1. /\ DOMAIN commands' = 1..(Len(commands) - 1)
          /\ \A p \in 1..(Len(commands) - 1) : commands'[p] = commands[from(p)]
      <4> DEFINE t == Erased(commands, m)
      <4>1. /\ t \in Seq(Command)
            /\ Len(t) = Len(commands) - 1
            /\ \A p \in 1..(Len(commands) - 1) : t[p] = commands[from(p)]
        BY <2>3, ErasedElements
      <4> HIDE DEF t, from
      <4>2. commands' = t
        BY <2>6 DEF t
      <4> QED BY <4>1, <4>2
    <3>2. /\ from(k) \in DOMAIN commands /\ commands[from(k)] = b
          /\ from(l) \in DOMAIN commands /\ commands[from(l)] = a
          /\ from(k) < from(l)
      BY <2>2, <2>3, <3>1
    <3> QED BY <2>1, <2>3, <3>2
  <2>7. CASE Destroy
    BY <2>2, <2>7 DEF Destroy
  <2> QED BY <2>4, <2>5, <2>6, <2>7
          DEF Next, Register, Added, Unregister, SetEnabled, Execute, ExecuteNamed, vars
<1> QED BY <1>1, OwnNameKept, RegistryInvariant, PTL DEF Spec, OthersKept

(* Commands::Execute never calls the no-argument method of a value         *)
(* command, never passes empty arguments to a command that ignores them    *)
(* and always lowers the case for those that ask for it.                   *)
THEOREM RegistryHandlerFits == Spec => []HandlerFits
<1>1. Init => HandlerFits
  <2>1. NoDispatch.handler = "none" /\ ~NoDispatch.handled
    BY DEF NoDispatch
  <2> QED BY <2>1 DEF Init, HandlerFits
<1>2. ASSUME NEW c \in Command \cup {Null}, NEW w \in Word, Execute(c, w)
      PROVE  HandlerFits'
  <2>1. CASE c = Null
    BY <1>2, <2>1 DEF Execute, HandlerFits, NoDispatch
  <2>2. CASE c # Null
    <3> DEFINE h == Handler(c, w, enabled[c])
    <3>1. /\ last'.command = c /\ last'.handler = h
          /\ last'.args = PassedArgs(c, w) /\ last'.handled = Invokes(h)
      BY <1>2, <2>2 DEF Execute
    <3>2. h = "Execute" => Kind[c] \notin ValueKinds /\ PassedArgs(c, w) = ""
      BY WordAssumption DEF Handler, EmptyArgumentsHandled, PassedArgs, ValueKinds
    <3>3. h = "ExecuteArgs" => /\ PassedArgs(c, w) # ""
                               /\ LowerCaseArguments(c) =>
                                     ToLower[PassedArgs(c, w)] = PassedArgs(c, w)
      BY WordAssumption DEF Handler, PassedArgs
    <3> QED BY <3>1, <3>2, <3>3 DEF HandlerFits, Invokes
  <2> QED BY <2>1, <2>2
<1>3. RegistryInv /\ HandlerFits /\ [Next]_vars => HandlerFits'
  <2> SUFFICES ASSUME RegistryInv, HandlerFits, [Next]_vars PROVE HandlerFits'
    OBVIOUS
  <2>1. CASE UNCHANGED last
    BY <2>1 DEF HandlerFits
  <2>2. ASSUME NEW c \in Command, NEW w \in Word, Execute(c, w) PROVE HandlerFits'
    BY <1>2, <2>2
  <2>3. ASSUME NEW n \in Name, NEW w \in Word, ExecuteNamed(n, w) PROVE HandlerFits'
    BY <1>2, <2>3, GetInTable DEF ExecuteNamed
  <2> QED BY <2>1, <2>2, <2>3
          DEF Next, Destroy, Register, Added, Unregister, SetEnabled, vars
<1> QED BY <1>1, <1>3, RegistryInvariant, PTL DEF Spec

-----------------------------------------------------------------------------
(* Only the arguments of a bool are made lower case, and only an empty     *)
(* argument keeps a value command from being called.                       *)
LEMMA PassedToValue ==
    ASSUME ValueTypeOK, NEW w \in Word
    PROVE  /\ PassedArgs(command, w) \in Word
           /\ kind # "bool" => PassedArgs(command, w) = w
           /\ PassedArgs(command, w) = "" <=> w = ""
           /\ Parses(w) <=> w # ""
<1>1. /\ kind \notin CallKinds
      /\ EmptyArgumentsHandled(command) = FALSE
      /\ LowerCaseArguments(command) <=> kind = "bool"
  BY DEF ValueTypeOK, kind, ValueKinds, CallKinds, EmptyArgumentsHandled, LowerCaseArguments
<1>2. Parses(w) <=> w # ""
  BY <1>1 DEF Parses, Handler
<1>3. ToLower[w] \in Word /\ (ToLower[w] = "" <=> w = "")
  BY WordAssumption
<1> QED BY <1>1, <1>2, <1>3 DEF PassedArgs

(* What an argument is taken for is a value of the variable's type. *)
LEMMA MeaningTyped ==
    ASSUME ValueTypeOK, NEW w \in Word, NEW old \in Values, ~Throwing(w)
    PROVE  Meaning(w, old) \in Values
<1>1. kind \in {"bool", "int", "float", "double", "string"}
  BY DEF ValueTypeOK, ValueKinds
<1>2. CASE kind = "bool"
  BY <1>2 DEF Meaning, Values, BoolValue, Bounded, Real
<1>3. CASE kind = "int"
  <2>1. StoI[w] \in Int32 \union {Throws}
    BY TextAssumption
  <2> QED BY <1>3, <2>1 DEF Meaning, Values, Bounded, Number, Throwing
<1>4. CASE kind \in {"float", "double"}
  <2>1. StoF[w] \in Float \union {Throws} /\ Float \subseteq Double
    BY TextAssumption
  <2> QED BY <1>4, <2>1 DEF Meaning, Values, Bounded, Real, Number, Throwing
<1>5. CASE kind = "string"
  BY <1>5 DEF Meaning, Values, Bounded, Real
<1> QED BY <1>1, <1>2, <1>3, <1>4, <1>5

LEMMA OutcomeTyped ==
    ASSUME ValueTypeOK, NEW w \in Word, NEW old \in Values
    PROVE  Outcome(w, old) \in Values
BY PassedToValue, MeaningTyped DEF Outcome

(* The status is a text, which no line takes apart. *)
LEMMA StatusIsText ==
    ASSUME ValueTypeOK, NEW v \in Values
    PROVE  /\ Status(v) \in Word
           /\ Reread[Status(v)] \in Word
           /\ kind # "string" => Reread[Status(v)] = Status(v) /\ Status(v) # ""
<1>1. kind \in {"bool", "int", "float", "double", "string"}
  BY DEF ValueTypeOK, ValueKinds
<1>2. CASE kind = "bool"
  BY <1>2, LineTextAssumption DEF Status, Values, BoolStatus, Real
<1>3. CASE kind = "int"
  <2>1. IntText[v] \in Word
    BY <1>3, TextAssumption DEF Values, Int32
  <2>2. IntText[v] # "" /\ Reread[IntText[v]] = IntText[v]
    BY <1>3, LineTextAssumption DEF Values
  <2> QED BY <1>3, <2>1, <2>2 DEF Status, Real
<1>4. CASE kind \in {"float", "double"}
  <2>1. v \in Double
    BY <1>4, TextAssumption DEF Values
  <2>2. RealText[v] \in Word
    BY <2>1, TextAssumption DEF Double
  <2>3. RealText[v] # "" /\ Reread[RealText[v]] = RealText[v]
    BY <2>1, LineTextAssumption
  <2> QED BY <1>4, <2>2, <2>3 DEF Status, Real
<1>5. CASE kind = "string"
  BY <1>5, TextAssumption DEF Status, Values, Real
<1> QED BY <1>1, <1>2, <1>3, <1>4, <1>5

(* The saved line is a line, so that loading it is dispatching one. *)
LEMMA LoadIsLine ==
    ASSUME ValueTypeOK, Console
    PROVE  \E w \in Word : DispatchValue(w)
<1>1. saved.text \in Word
  BY StatusIsText DEF ValueTypeOK
<1>2. \A w \in Word : Reread[w] \in Word
  BY TextAssumption
<1> QED BY <1>1, <1>2 DEF Console, Load, ExecuteLine, ExecuteArgs

(* Type correctness: whatever the texts are read as, a variable is never   *)
(* given a value of another kind, and what is saved is its status.         *)
THEOREM ValueTypes == ValueSpec => []ValueTypeOK
<1>1. ValueInit => ValueTypeOK
  BY DEF ValueInit, ValueTypeOK, kind
<1>2. ValueTypeOK /\ [ValueNext]_valueVars => ValueTypeOK'
  <2> SUFFICES ASSUME ValueTypeOK, [ValueNext]_valueVars
               PROVE  ValueTypeOK'
    OBVIOUS
  <2>0. ASSUME command' = command
        PROVE  kind' = kind /\ Values' = Values /\ \A v : Status(v)' = Status(v)
    BY <2>0 DEF kind, Values, Status, Real
  <2>1. CASE Console
    <3>1. PICK w \in Word : DispatchValue(w)
      BY <2>1, LoadIsLine
    <3>2. Outcome(w, value) \in Values
      BY OutcomeTyped DEF ValueTypeOK
    <3> QED BY <2>0, <3>1, <3>2 DEF DispatchValue, ValueTypeOK
  <2>2. CASE Save
    BY <2>0, <2>2 DEF Save, ValueTypeOK
  <2>3. CASE Terminated \/ UNCHANGED valueVars
    BY <2>0, <2>3 DEF Terminated, valueVars, ValueTypeOK
  <2>4. CASE \E v \in Values : Assign(v)
    BY <2>0, <2>4 DEF Assign, ValueTypeOK
  <2>5. CASE \E n \in Limit : SetMin(n) \/ SetMax(n)
    BY <2>0, <2>5 DEF SetMin, SetMax, ValueTypeOK
  <2> QED BY <2>1, <2>2, <2>3, <2>4, <2>5 DEF ValueNext
<1> QED BY <1>1, <1>2, PTL DEF ValueSpec

(* RangeKept fails, and this is the only way it does: what the console     *)
(* executes takes an int out of its limits never, a float or a double by   *)
(* becoming NaN and by nothing else.                                       *)
THEOREM ValueOnlyNaNEscapes ==
    ValueSpec => [][Console /\ Bounded /\ InRange(value) =>
                       InRange(value') \/ (Real /\ value' = NaN)]_valueVars
<1>1. ASSUME ValueTypeOK, Console, Bounded, InRange(value)
      PROVE  InRange(value') \/ (Real /\ value' = NaN)
  <2>1. PICK w \in Word : DispatchValue(w)
    BY <1>1, LoadIsLine
  <2>2. PassedArgs(command, w) = w
    BY <1>1, PassedToValue DEF Bounded, Real
  <2>3. value' = value \/ (value' = Number(w) /\ Inside(Number(w)) /\ ~Throwing(w))
    BY <1>1, <2>1, <2>2 DEF DispatchValue, Outcome, Accepts, Meaning, Bounded, Real
  <2>4. Number(w) \in Int \/ (Real /\ Number(w) = NaN) \/ Throwing(w)
    BY <1>1, TextAssumption DEF Number, Throwing, Bounded, Real
  <2>5. min \in Int /\ max \in Int
    BY <1>1, TextAssumption DEF ValueTypeOK
  <2>6. CASE value' = value
    BY <1>1, <2>6 DEF InRange
  <2>7. CASE value' # value /\ value' \in Int
    <3>1. ~(value' < min \/ value' > max)
      BY <2>3, <2>7, TextAssumption DEF Inside
    <3> QED BY <2>5, <2>7, <3>1 DEF InRange
  <2> QED BY <2>3, <2>4, <2>6, <2>7
<1> QED BY <1>1, ValueTypes, PTL DEF ValueSpec

(* Going through the file: what a number, printed and read, has become.    *)
LEMMA RealReread ==
    ASSUME NEW x \in Double, StoF[RealText[x]] # Throws
    PROVE  /\ StoF[RealText[x]] \in Float
           /\ StoF[RealText[StoF[RealText[x]]]] = StoF[RealText[x]]
<1>1. RealText[x] \in Word
  BY TextAssumption DEF Double
<1>2. StoF[RealText[x]] \in Float
  BY <1>1, TextAssumption
<1> QED BY <1>2, RoundingAssumption

(* What has been through the config file once goes through it unchanged,   *)
(* whatever the decimals cut off and the words in a string.                *)
LEMMA LoadedSettles == ValueTypeOK => Loaded(Loaded(value)) = Loaded(value)
<1> SUFFICES ASSUME ValueTypeOK PROVE Loaded(Loaded(value)) = Loaded(value)
  OBVIOUS
<1> DEFINE v == value
           line == Reread[Status(v)]
           y == Outcome(line, v)
<1>1. v \in Values /\ kind \in {"bool", "int", "float", "double", "string"}
  BY DEF ValueTypeOK, ValueKinds
<1>2. line \in Word /\ y \in Values
  BY <1>1, StatusIsText, OutcomeTyped
<1>3. SUFFICES Outcome(Reread[Status(y)], y) = y
  BY DEF Loaded
<1>4. y = v \/ (Parses(line) /\ ~Throwing(PassedArgs(command, line))
               /\ Accepts(PassedArgs(command, line)) /\ y = Meaning(PassedArgs(command, line), v))
  BY DEF Outcome
<1>5. CASE y = v
  BY <1>5
<1>6. CASE y # v /\ kind = "bool"
  <2>1. line \in {"on", "off"} /\ line = Status(v) /\ v \in BOOLEAN
    BY <1>1, <1>6, StatusIsText DEF Status, BoolStatus, Values, Real
  <2>2. PassedArgs(command, line) = line
    BY <2>1, LineTextAssumption DEF PassedArgs
  <2>3. y = v
    BY <1>4, <1>6, <2>1, <2>2 DEF Meaning, Bounded, Real, BoolValue, Status, BoolStatus, TrueWords, FalseWords
  <2> QED BY <1>6, <2>3
<1>7. CASE y # v /\ kind = "int"
  <2>1. PassedArgs(command, line) = line /\ line = IntText[v] /\ v \in Int32
    BY <1>1, <1>2, <1>7, StatusIsText, PassedToValue DEF Status, Values, Real
  <2>2. y = StoI[IntText[v]]
    BY <1>4, <1>7, <2>1 DEF Meaning, Number, Bounded, Real
  <2> QED BY <1>7, <2>1, <2>2, RoundingAssumption
<1>8. CASE y # v /\ kind \in {"float", "double"}
  <2>1. PassedArgs(command, line) = line /\ line = RealText[v] /\ v \in Double
    BY <1>1, <1>2, <1>8, StatusIsText, PassedToValue, TextAssumption DEF Status, Values, Real
  <2>2. y = StoF[RealText[v]] /\ y # Throws
    BY <1>4, <1>8, <2>1 DEF Meaning, Number, Bounded, Real, Throwing
  <2>3. StoF[RealText[y]] = y
    BY <2>1, <2>2, RealReread
  <2>4. Reread[Status(y)] = RealText[y] /\ RealText[y] \in Word
    BY <1>2, <1>8, StatusIsText DEF Status, Real
  <2>5. PassedArgs(command, RealText[y]) = RealText[y]
    BY <1>8, <2>4, PassedToValue
  <2> QED BY <1>8, <2>3, <2>4, <2>5 DEF Outcome, Meaning, Number, Bounded, Real
<1>9. CASE y # v /\ kind = "string"
  <2>1. y = line
    BY <1>2, <1>4, <1>9, PassedToValue DEF Meaning, Bounded, Real
  <2>2. Status(y) = y /\ Status(v) = v /\ v \in Word
    BY <1>1, <1>9 DEF Status, Real, Values
  <2>3. Reread[y] = y
    BY <2>1, <2>2, LineTextAssumption
  <2>4. PassedArgs(command, y) = y
    BY <1>2, <1>9, <2>1, PassedToValue
  <2> QED BY <1>9, <2>2, <2>3, <2>4 DEF Outcome, Meaning, Bounded, Real
<1> QED BY <1>1, <1>5, <1>6, <1>7, <1>8, <1>9

(* A saved value comes back, as exactly as its kind allows, and does not   *)
(* drift; only the line of a double may end the program.                   *)
THEOREM ValueComesBack == ValueSpec => []SavedComesBack
<1>1. ValueTypeOK => SavedComesBack
  <2> SUFFICES ASSUME ValueTypeOK PROVE SavedComesBack
    OBVIOUS
  <2> DEFINE v == saved.of
             line == Reread[Status(v)]
             new == Outcome(line, value)
  <2>1. /\ v \in Values /\ value \in Values /\ min \in Int /\ max \in Int
        /\ kind \in {"bool", "int", "float", "double", "string"}
    BY TextAssumption DEF ValueTypeOK, ValueKinds
  <2>2. line \in Word /\ new \in Values
    BY <2>1, StatusIsText, OutcomeTyped
  <2>3. SUFFICES Restores(v, new) /\ (Ends(line) => kind = "double")
    BY LoadedSettles DEF SavedComesBack, ValueTypeOK
  <2>4. CASE kind = "bool"
    <3>1. line \in {"on", "off"} /\ line = Status(v) /\ line # "" /\ v \in BOOLEAN
      BY <2>1, <2>4, StatusIsText DEF Status, BoolStatus, Values, Real
    <3>2. PassedArgs(command, line) = line /\ Parses(line)
      BY <2>2, <3>1, LineTextAssumption, PassedToValue DEF PassedArgs
    <3>3. new = v
      BY <2>4, <3>1, <3>2
         DEF Outcome, Throwing, Accepts, Meaning, Bounded, Real, BoolValue, Status, BoolStatus, TrueWords, FalseWords
    <3> QED BY <2>4, <3>2, <3>3 DEF Restores, Ends, Throwing, Bounded, Real
  <2>5. CASE kind = "int"
    <3>1. /\ PassedArgs(command, line) = line /\ line = IntText[v] /\ v \in Int32
          /\ Parses(line)
      BY <2>1, <2>2, <2>5, StatusIsText, PassedToValue DEF Status, Values, Real
    <3>2. Number(line) = v /\ v \in Int /\ v # Throws /\ v # NaN
      BY <2>5, <3>1, RoundingAssumption, TextAssumption DEF Number
    <3>3. Inside(v) <=> InRange(v)
      BY <2>1, <3>2 DEF Inside, InRange
    <3>4. new = IF InRange(v) THEN v ELSE value
      BY <2>5, <3>1, <3>2, <3>3 DEF Outcome, Throwing, Accepts, Meaning, Bounded, Real
    <3> QED BY <2>5, <3>1, <3>2, <3>4 DEF Restores, Ends, Throwing, Bounded, Real
  <2>6. CASE kind = "float"
    <3> DEFINE y == StoF[RealText[v]]
    <3>1. /\ PassedArgs(command, line) = line /\ line = RealText[v] /\ v \in Float
          /\ Parses(line)
      BY <2>1, <2>2, <2>6, StatusIsText, PassedToValue DEF Status, Values, Real
    <3>2. /\ y # Throws /\ (v = NaN <=> y = NaN)
          /\ v # NaN => y - v <= Resolution /\ v - y <= Resolution
      BY <3>1, RoundingAssumption
    <3>3. v \in Double /\ y \in Float
      BY <3>1, <3>2, RealReread, TextAssumption
    <3>4. v \in Int \union {NaN} /\ y \in Int \union {NaN} /\ Resolution \in Nat
      BY <3>1, <3>3, TextAssumption
    <3>5. new = IF Inside(y) THEN y ELSE value
      BY <2>6, <3>1, <3>2 DEF Outcome, Throwing, Accepts, Meaning, Bounded, Real, Number
    <3>6. Inside(y) => Near(v, y)
      BY <3>2, <3>4 DEF Near
    <3>7. ~Inside(y) => v - Resolution < min \/ v + Resolution > max
      BY <2>1, <3>2, <3>4 DEF Inside
    <3> HIDE DEF new, y
    <3>8. \/ Near(v, new)
          \/ new = value /\ (v - Resolution < min \/ v + Resolution > max)
      BY <3>5, <3>6, <3>7
    <3>9. ~Throwing(line)
      BY <2>6, <3>1, <3>2 DEF Throwing, Number, y
    <3> QED BY <2>6, <3>1, <3>8, <3>9 DEF Restores, Ends
  <2>7. CASE kind = "double"
    <3>1. PassedArgs(command, line) = line
      BY <2>2, <2>7, PassedToValue
    <3>2. StoF[line] \in Float \union {Throws}
      BY <2>2, TextAssumption
    <3>3. new = value \/ new \in Float
      BY <2>7, <3>1, <3>2 DEF Outcome, Throwing, Meaning, Bounded, Real, Number
    <3> QED BY <2>7, <3>3 DEF Restores
  <2>8. CASE kind = "string"
    <3>1. /\ PassedArgs(command, line) = line /\ line = Reread[v]
          /\ Parses(line) <=> line # ""
      BY <2>2, <2>8, PassedToValue DEF Status, Real
    <3>2. new = IF Fits(line) THEN line ELSE value
      BY <2>8, <3>1 DEF Outcome, Throwing, Accepts, Meaning, Bounded, Real, Fits
    <3> QED BY <2>8, <3>1, <3>2 DEF Restores, Ends, Throwing, Bounded, Real
  <2> QED BY <2>1, <2>4, <2>5, <2>6, <2>7, <2>8
<1> QED BY <1>1, ValueTypes, PTL
=============================================================================
