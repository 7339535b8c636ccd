------------------------- MODULE CommandLineProofs --------------------------
(***************************************************************************)
(* CommandLine for every set of keys, every set of argument vectors and    *)
(* every order of construction.                                            *)
(***************************************************************************)
EXTENDS CommandLine, WellFoundedInduction, TLAPS

(* What is true of an initialised key, and which keys are initialised      *)
(* while Keys::Initialize walks the vector.                                *)
Answered ==
    \A k \in Key : isInitialized[k] => isSet[k] = FindParam(NameOfKey[k])
WalkedAreInitialized ==
    pc = "initializing" /\ ~failed =>
       \A i \in DOMAIN keys : i < next => isInitialized[keys[i]]
NothingEarly ==
    pc = "static" => /\ next = 1
                     /\ \A k \in Key : ~isInitialized[k] /\ stringValue[k] = Empty
AutoInitAfterWalk == autoInit <=> pc \in {"running", "destroyed"}

KeysInv == /\ KeysTypeOK /\ KeysAnswer /\ ValueFollowsKey /\ Answered
           /\ WalkedAreInitialized /\ NothingEarly /\ AutoInitAfterWalk

LEMMA LessThanRelation ==
    \E R : IsWellFoundedOn(R, Nat) /\ \A x, y \in Nat : x < y => <<x, y>> \in R
<1> DEFINE R == OpToRel(<, Nat)
<1>1. IsWellFoundedOn(R, Nat)
  BY NatLessThanWellFounded
<1>2. \A x, y \in Nat : x < y => <<x, y>> \in R
  BY DEF OpToRel
<1> HIDE DEF R
<1> QED BY <1>1, <1>2
(* A set of natural numbers that is not empty has a least element: the     *)
(* place of the first argument that mentions a key.                        *)
LEMMA LeastElement ==
    ASSUME NEW S, S \subseteq Nat, S # {}
    PROVE  \E m \in S : \A l \in S : m <= l
<1>1. PICK R : IsWellFoundedOn(R, Nat) /\ \A x, y \in Nat : x < y => <<x, y>> \in R
  BY LessThanRelation
<1>2. \E m \in S : \A l \in S : ~ (<<l, m>> \in R)
  <2>1. IsWellFoundedOn(R, Nat)
    BY <1>1
  <2> QED BY <2>1, WFMin, Zenon
<1>3. PICK m \in S : \A l \in S : ~ (<<l, m>> \in R)
  BY <1>2
<1>4. ASSUME NEW l \in S PROVE m <= l
  <2>1. m \in Nat /\ l \in Nat
    OBVIOUS
  <2>2. ~ (l < m)
    BY <1>1, <1>3, <2>1
  <2> QED BY <2>1, <2>2
<1> QED BY <1>4

(* What ReturnParam answers is an argument or the empty string, and an     *)
(* argument it answers stands behind a mention and is no parameter.        *)
LEMMA ReturnParamMeaning ==
    ASSUME params \in Seq(Token), NEW n
    PROVE  /\ ReturnParam(n) \in Token \cup {Empty}
           /\ ReturnParam(n) # Empty =>
                 /\ ReturnParam(n) \notin Prefixed
                 /\ \E i \in Mentioned(n) : i < Len(params) /\ params[i + 1] = ReturnParam(n)
<1> DEFINE i == CHOOSE j \in Mentioned(n) : \A l \in Mentioned(n) : j <= l
           Taken == /\ Mentioned(n) # {} /\ i < Len(params)
                    /\ params[i + 1] \notin Prefixed
<1>1. CASE Taken
  <2>1. Mentioned(n) \subseteq Nat /\ Mentioned(n) \subseteq DOMAIN params
    BY DEF Mentioned
  <2>2. i \in Mentioned(n)
    BY <1>1, <2>1, LeastElement
  <2>3. i + 1 \in DOMAIN params
    BY <1>1, <2>1, <2>2
  <2>4. ReturnParam(n) = params[i + 1]
    BY <1>1 DEF ReturnParam
  <2>5. params[i + 1] \in Token
    BY <2>3
  <2>6. i < Len(params) /\ params[i + 1] \notin Prefixed
    BY <1>1
  <2> HIDE DEF i, Taken
  <2> QED BY <2>2, <2>4, <2>5, <2>6
<1>2. CASE ~Taken
  BY <1>2 DEF ReturnParam
<1> QED BY <1>1, <1>2

-----------------------------------------------------------------------------
(* Key::Initialize fills in one key from the arguments and disturbs none   *)
(* that is filled in already.                                              *)
LEMMA InitializeStep ==
    ASSUME KeysTypeOK, Answered, ValueFollowsKey,
           NEW k \in Key, Initialize(k), UNCHANGED params
    PROVE  /\ isInitialized' \in [Key -> BOOLEAN] /\ isSet' \in [Key -> BOOLEAN]
           /\ stringValue' \in [Key -> Token \cup {Empty}] /\ failed' \in BOOLEAN
           /\ Answered' /\ ValueFollowsKey'
           /\ failed' \/ isInitialized'[k]
           /\ \A j \in Key : isInitialized[j] => isInitialized'[j]
<1> DEFINE name  == NameOfKey[k]
           value == ReturnParam(name)
<1>1. /\ FindParam(name) \in BOOLEAN
      /\ \A n : FindParam(n)' = FindParam(n) /\ Mentioned(n)' = Mentioned(n)
  BY DEF FindParam, Mentioned
<1>2. /\ value \in Token \cup {Empty}
      /\ value # Empty =>
            /\ value \notin Prefixed
            /\ \E i \in Mentioned(name) : i < Len(params) /\ params[i + 1] = value
  BY ReturnParamMeaning DEF KeysTypeOK
<1>3. CASE isInitialized[k]
  BY <1>1, <1>3 DEF Initialize, KeysTypeOK, Answered, ValueFollowsKey
<1>4. CASE ~isInitialized[k]
  <2>1. isSet' = [isSet EXCEPT ![k] = FindParam(NameOfKey[k])]
    BY <1>4 DEF Initialize
  <2>2. \/ stringValue' = [stringValue EXCEPT ![k] = ReturnParam(NameOfKey[k])]
        \/ stringValue' = stringValue
    BY <1>4 DEF Initialize
  <2>3. \/ failed' = TRUE /\ isInitialized' = isInitialized
        \/ failed' = failed /\ isInitialized' = [isInitialized EXCEPT ![k] = TRUE]
    BY <1>4 DEF Initialize
  <2>4. Answered'
    BY <1>1, <1>4, <2>1, <2>3 DEF Answered, KeysTypeOK
  <2>5. ValueFollowsKey'
    <3> SUFFICES ASSUME NEW j \in Key, stringValue'[j] # Empty
                 PROVE  /\ stringValue'[j] \notin Prefixed
                        /\ \E i \in Mentioned(NameOfKey[j]) :
                              i < Len(params) /\ params[i + 1] = stringValue'[j]
      BY <1>1 DEF ValueFollowsKey
    <3> HIDE DEF value
    <3>1. CASE stringValue'[j] = stringValue[j]
      BY <3>1 DEF ValueFollowsKey
    <3>2. CASE stringValue'[j] # stringValue[j]
      <4>1. j = k /\ stringValue'[j] = value
        BY <2>2, <3>2 DEF KeysTypeOK, value
      <4> QED BY <1>2, <4>1
    <3> QED BY <3>1, <3>2
  <2> QED BY <1>1, <1>2, <2>1, <2>2, <2>3, <2>4, <2>5 DEF KeysTypeOK
<1> QED BY <1>3, <1>4

(* A step that leaves the arguments and the keys' answers alone keeps what *)
(* was true of them.                                                       *)
LEMMA AnswersStand ==
    ASSUME Answered, ValueFollowsKey,
           UNCHANGED <<params, isInitialized, isSet, stringValue>>
    PROVE  Answered' /\ ValueFollowsKey'
BY DEF Answered, ValueFollowsKey, FindParam, Mentioned

(* Keys that are all initialised all answer. *)
LEMMA InitializedAnswer ==
    ASSUME keys' \in Seq(Key), Answered',
           \A i \in DOMAIN keys' : isInitialized'[keys'[i]]
    PROVE  KeysAnswer'
<1>1. \A i \in DOMAIN keys' : keys'[i] \in Key
  OBVIOUS
<1> QED BY <1>1 DEF KeysAnswer, Answered

LEMMA ConstructKeeps ==
    ASSUME KeysInv, NEW k \in Key, Construct(k)
    PROVE  KeysInv'
<1> USE DEF KeysInv
<1>1. keys' \in Seq(Key)
  <2>1. keys \in Seq(Key)
    BY DEF KeysTypeOK
  <2>2. keys' = keys \/ keys' = Append(keys, k)
    BY Zenon DEF Construct
  <2> QED BY <2>1, <2>2
<1>2. CASE Known(NameOfKey[k])
  <2>1. failed' = TRUE /\ UNCHANGED <<params, keys, autoInit, isInitialized, isSet, stringValue, next, pc>>
    BY <1>2 DEF Construct
  <2>2. Answered' /\ ValueFollowsKey'
    BY <2>1, AnswersStand
  <2> QED BY <2>1, <2>2
        DEF KeysTypeOK, KeysAnswer, WalkedAreInitialized, NothingEarly, AutoInitAfterWalk
<1>3. CASE ~Known(NameOfKey[k]) /\ ~autoInit
  <2>1. /\ keys' = Append(keys, k) /\ pc = "static"
        /\ UNCHANGED <<params, autoInit, isInitialized, isSet, stringValue, failed, next, pc>>
    BY <1>3 DEF Construct, AutoInitAfterWalk
  <2>2. Answered' /\ ValueFollowsKey'
    BY <2>1, AnswersStand
  <2> QED BY <1>1, <1>3, <2>1, <2>2
        DEF KeysTypeOK, KeysAnswer, WalkedAreInitialized, NothingEarly, AutoInitAfterWalk
<1>4. CASE ~Known(NameOfKey[k]) /\ autoInit
  <2>1. /\ keys' = Append(keys, k) /\ Initialize(k) /\ pc = "running" /\ ~failed
        /\ UNCHANGED <<params, autoInit, next, pc>>
    BY <1>4 DEF Construct, AutoInitAfterWalk
  <2>2. /\ isInitialized' \in [Key -> BOOLEAN] /\ isSet' \in [Key -> BOOLEAN]
        /\ stringValue' \in [Key -> Token \cup {Empty}] /\ failed' \in BOOLEAN
        /\ Answered' /\ ValueFollowsKey' /\ (failed' \/ isInitialized'[k])
        /\ \A j \in Key : isInitialized[j] => isInitialized'[j]
    BY <2>1, InitializeStep
  <2>3. KeysAnswer'
    <3>1. CASE failed'
      BY <3>1 DEF KeysAnswer
    <3>2. CASE ~failed'
      <4>1. ASSUME NEW i \in DOMAIN keys'
            PROVE  isInitialized'[keys'[i]]
        <5>1. CASE i \in DOMAIN keys
          <6>1. keys'[i] = keys[i] /\ keys[i] \in Key
            BY <2>1, <5>1 DEF KeysTypeOK
          <6>2. isInitialized[keys[i]]
            BY <1>4, <2>1, <5>1 DEF KeysAnswer
          <6> QED BY <2>2, <6>1, <6>2
        <5>2. CASE i \notin DOMAIN keys
          <6>1. keys'[i] = k
            BY <2>1, <5>2, <4>1 DEF KeysTypeOK
          <6> QED BY <2>2, <3>2, <6>1
        <5> QED BY <5>1, <5>2
      <4> QED BY <1>1, <2>2, <4>1, InitializedAnswer
    <3> QED BY <3>1, <3>2
  <2> QED BY <1>1, <2>1, <2>2, <2>3
        DEF KeysTypeOK, WalkedAreInitialized, NothingEarly, AutoInitAfterWalk
<1> QED BY <1>2, <1>3, <1>4 DEF KeysTypeOK

LEMMA ArgumentsKeep ==
    ASSUME KeysInv, NEW argv \in Argv, InitializeArguments(argv)
    PROVE  KeysInv'
<1> USE DEF KeysInv
<1>1. /\ pc = "static" /\ pc' = "initializing" /\ params' = argv /\ ~autoInit
      /\ UNCHANGED <<keys, autoInit, isInitialized, isSet, stringValue, next, failed>>
  BY DEF InitializeArguments, AutoInitAfterWalk
<1>2. argv \in Seq(Token)
  BY TokenAssumption
<1>3. next = 1 /\ \A k \in Key : ~isInitialized[k] /\ stringValue[k] = Empty
  BY <1>1 DEF NothingEarly
<1>4. KeysTypeOK'
  BY <1>1, <1>2 DEF KeysTypeOK
<1>5. Answered' /\ ValueFollowsKey'
  BY <1>1, <1>3 DEF Answered, ValueFollowsKey
<1>6. KeysAnswer' /\ NothingEarly' /\ AutoInitAfterWalk'
  BY <1>1 DEF KeysAnswer, NothingEarly, AutoInitAfterWalk
<1>7. WalkedAreInitialized'
  BY <1>1, <1>3 DEF WalkedAreInitialized, KeysTypeOK
<1> QED BY <1>4, <1>5, <1>6, <1>7

LEMMA WalkKeeps ==
    ASSUME KeysInv, InitializeNext
    PROVE  KeysInv'
<1> USE DEF KeysInv
<1> DEFINE k == keys[next]
<1>1. /\ pc = "initializing" /\ next <= Len(keys) /\ next' = next + 1 /\ Initialize(k)
      /\ ~autoInit /\ ~failed /\ UNCHANGED <<params, keys, autoInit, pc>>
  BY DEF InitializeNext, AutoInitAfterWalk
<1>2. next \in DOMAIN keys /\ k \in Key
  BY <1>1 DEF KeysTypeOK
<1> HIDE DEF k
<1>3. /\ isInitialized' \in [Key -> BOOLEAN] /\ isSet' \in [Key -> BOOLEAN]
      /\ stringValue' \in [Key -> Token \cup {Empty}] /\ failed' \in BOOLEAN
      /\ Answered' /\ ValueFollowsKey' /\ (failed' \/ isInitialized'[k])
      /\ \A j \in Key : isInitialized[j] => isInitialized'[j]
  BY <1>1, <1>2, InitializeStep
<1>4. KeysTypeOK'
  BY <1>1, <1>3 DEF KeysTypeOK
<1>5. KeysAnswer' /\ NothingEarly' /\ AutoInitAfterWalk'
  BY <1>1 DEF KeysAnswer, NothingEarly, AutoInitAfterWalk
<1>6. WalkedAreInitialized'
  <2> SUFFICES ASSUME NEW i \in DOMAIN keys, i < next + 1, ~failed'
               PROVE  isInitialized'[keys[i]]
    BY <1>1 DEF WalkedAreInitialized
  <2>1. keys[i] \in Key
    BY DEF KeysTypeOK
  <2>2. CASE i = next
    BY <1>3, <2>2 DEF k
  <2>3. CASE i < next
    BY <1>1, <1>3, <2>1, <2>3 DEF WalkedAreInitialized
  <2> QED BY <2>2, <2>3 DEF KeysTypeOK
<1> QED BY <1>3, <1>4, <1>5, <1>6

LEMMA InitializedKeeps ==
    ASSUME KeysInv, KeysInitialized
    PROVE  KeysInv'
<1> USE DEF KeysInv
<1>1. /\ pc = "initializing" /\ next > Len(keys) /\ ~failed /\ autoInit' = TRUE /\ pc' = "running"
      /\ UNCHANGED <<params, keys, isInitialized, isSet, stringValue, next, failed>>
  BY DEF KeysInitialized
<1>2. Answered' /\ ValueFollowsKey'
  BY <1>1, AnswersStand
<1>3. \A i \in DOMAIN keys : isInitialized[keys[i]]
  BY <1>1 DEF WalkedAreInitialized, KeysTypeOK
<1>4. KeysAnswer'
  BY <1>1, <1>2, <1>3, InitializedAnswer DEF KeysTypeOK
<1> QED BY <1>1, <1>2, <1>4
      DEF KeysTypeOK, WalkedAreInitialized, NothingEarly, AutoInitAfterWalk

LEMMA DestroyKeeps ==
    ASSUME KeysInv, KeysDestroy
    PROVE  KeysInv'
<1> USE DEF KeysInv
<1>1. /\ pc = "running" /\ keys' = << >> /\ pc' = "destroyed"
      /\ UNCHANGED <<params, autoInit, isInitialized, isSet, stringValue, next, failed>>
  BY DEF KeysDestroy
<1>2. Answered' /\ ValueFollowsKey'
  BY <1>1, AnswersStand
<1> QED BY <1>1, <1>2
      DEF KeysTypeOK, KeysAnswer, WalkedAreInitialized, NothingEarly, AutoInitAfterWalk

-----------------------------------------------------------------------------
(* The invariant holds for every linker order, every module that brings    *)
(* late keys and every argument vector.                                    *)
THEOREM KeysInvariant == KeysSpec => []KeysInv
<1>1. KeysInit => KeysInv
  <2> SUFFICES ASSUME KeysInit PROVE KeysInv
    OBVIOUS
  <2>1. KeysTypeOK
    <3>1. params \in Seq(Token) /\ keys \in Seq(Key)
      BY DEF KeysInit
    <3>2. /\ isInitialized \in [Key -> BOOLEAN] /\ isSet \in [Key -> BOOLEAN]
          /\ stringValue \in [Key -> Token \cup {Empty}]
      BY DEF KeysInit
    <3>3. autoInit \in BOOLEAN /\ failed \in BOOLEAN
      BY Zenon DEF KeysInit
    <3>4. next \in Nat /\ next >= 1
      BY DEF KeysInit
    <3>5. pc \in {"static", "initializing", "running", "destroyed"}
      BY DEF KeysInit
    <3> QED BY <3>1, <3>2, <3>3, <3>4, <3>5 DEF KeysTypeOK
  <2> QED BY <2>1
        DEF KeysInit, KeysInv, KeysAnswer, ValueFollowsKey, Answered,
            WalkedAreInitialized, NothingEarly, AutoInitAfterWalk
<1>2. KeysInv /\ [KeysNext]_keysVars => KeysInv'
  <2> SUFFICES ASSUME KeysInv, [KeysNext]_keysVars PROVE KeysInv'
    OBVIOUS
  <2>1. ASSUME NEW k \in Key, Construct(k) PROVE KeysInv'
    BY <2>1, ConstructKeeps
  <2>2. ASSUME NEW argv \in Argv, InitializeArguments(argv) PROVE KeysInv'
    BY <2>2, ArgumentsKeep
  <2>3. CASE InitializeNext
    BY <2>3, WalkKeeps
  <2>4. CASE KeysInitialized
    BY <2>4, InitializedKeeps
  <2>5. CASE KeysDestroy
    BY <2>5, DestroyKeeps
  <2>6. CASE UNCHANGED keysVars
    BY <2>6 DEF keysVars, KeysInv, KeysTypeOK, KeysAnswer, ValueFollowsKey, Answered, FindParam,
                Mentioned, WalkedAreInitialized, NothingEarly, AutoInitAfterWalk
  <2> QED BY <2>1, <2>2, <2>3, <2>4, <2>5, <2>6 DEF KeysNext, Finished
<1> QED BY <1>1, <1>2, PTL DEF KeysSpec

(* The types of the state hold for every constants. *)
THEOREM KeysTypes == KeysSpec => []KeysTypeOK
<1>1. KeysInv => KeysTypeOK
  BY DEF KeysInv
<1> QED BY <1>1, KeysInvariant, PTL

(* Once Keys::Initialize is over every registered key answers about the    *)
(* arguments of this run, in every order of construction: the static order *)
(* the linker chooses, and keys of modules loaded later.                   *)
THEOREM EveryKeyAnswers == KeysSpec => []KeysAnswer
<1>1. KeysInv => KeysAnswer
  BY DEF KeysInv
<1> QED BY <1>1, KeysInvariant, PTL

(* No key ever takes a parameter, or an argument that does not stand       *)
(* behind its own mention, for its value.                                  *)
THEOREM ValuesFollowKeys == KeysSpec => []ValueFollowsKey
<1>1. KeysInv => ValueFollowsKey
  BY DEF KeysInv
<1> QED BY <1>1, KeysInvariant, PTL

-----------------------------------------------------------------------------
(* GetKey stops at the first key of a name. *)
FirstKey(s, n, i) == NameOfKey[s[i]] = n /\ \A j \in 1..(i - 1) : NameOfKey[s[j]] # n
Named(s, n) == \E i \in DOMAIN s : NameOfKey[s[i]] = n
KeyIn(s, n) == IF Named(s, n) THEN s[CHOOSE i \in DOMAIN s : FirstKey(s, n, i)] ELSE NoKey

LEMMA FirstAnswers ==
    ASSUME NEW s \in Seq(Key), NEW n, NEW i \in DOMAIN s, FirstKey(s, n, i)
    PROVE  KeyIn(s, n) = s[i]
<1>1. DOMAIN s = 1..Len(s) /\ Len(s) \in Nat
  OBVIOUS
<1>2. Named(s, n)
  BY DEF Named, FirstKey
<1>3. ASSUME NEW l \in DOMAIN s, FirstKey(s, n, l) PROVE l = i
  <2>1. i \in Nat /\ l \in Nat /\ i >= 1 /\ l >= 1
    BY <1>1
  <2>2. ~(l < i) /\ ~(i < l)
    <3>1. l < i => l \in 1..(i - 1)
      BY ONLY <2>1
    <3>2. i < l => i \in 1..(l - 1)
      BY ONLY <2>1
    <3> QED
      BY <1>3, <3>1, <3>2 DEF FirstKey
  <2> QED
    BY <2>1, <2>2
<1>4. (CHOOSE l \in DOMAIN s : FirstKey(s, n, l)) = i
  BY <1>3
<1> QED
  BY <1>2, <1>4 DEF KeyIn

LEMMA HasFirst ==
    ASSUME NEW s \in Seq(Key), NEW n, Named(s, n)
    PROVE  \E i \in DOMAIN s : FirstKey(s, n, i)
<1> DEFINE S == {i \in DOMAIN s : NameOfKey[s[i]] = n}
<1>1. DOMAIN s = 1..Len(s) /\ Len(s) \in Nat
  OBVIOUS
<1>2. S \subseteq Nat /\ S # {}
  BY <1>1 DEF Named
<1> HIDE DEF S
<1>3. PICK i \in S : \A l \in S : i <= l
  BY <1>2, LeastElement
<1>4. i \in DOMAIN s /\ NameOfKey[s[i]] = n
  BY DEF S
<1>5. ASSUME NEW j \in 1..(i - 1) PROVE NameOfKey[s[j]] # n
  <2>1. j \in DOMAIN s /\ ~(i <= j)
    BY <1>1, <1>4
  <2> QED
    BY <1>3, <2>1 DEF S
<1> QED
  BY <1>4, <1>5 DEF FirstKey

(* A key whose name is free is put behind the others: its name is bound, no other changes.    *)
LEMMA AppendedKey ==
    ASSUME NEW s \in Seq(Key), NEW k \in Key, ~Named(s, NameOfKey[k])
    PROVE  /\ KeyIn(Append(s, k), NameOfKey[k]) = k
           /\ \A n \in KeyName \ {NameOfKey[k]} : KeyIn(Append(s, k), n) = KeyIn(s, n)
<1> DEFINE r == Append(s, k)
           m == Len(s) + 1
<1>1. /\ DOMAIN s = 1..Len(s) /\ Len(s) \in Nat /\ r \in Seq(Key)
      /\ DOMAIN r = 1..m /\ r[m] = k /\ \A i \in 1..Len(s) : r[i] = s[i]
  OBVIOUS
<1>2. m \in DOMAIN r /\ \A j \in 1..(m - 1) : j \in 1..Len(s)
  BY <1>1
<1> HIDE DEF r, m
<1>3. FirstKey(r, NameOfKey[k], m)
  BY <1>1, <1>2 DEF FirstKey, Named
<1>4. KeyIn(r, NameOfKey[k]) = k
  BY <1>1, <1>2, <1>3, FirstAnswers
<1>5. ASSUME NEW n \in KeyName \ {NameOfKey[k]} PROVE KeyIn(r, n) = KeyIn(s, n)
  <2>1. CASE Named(s, n)
    <3>1. PICK i \in DOMAIN s : FirstKey(s, n, i)
      BY <2>1, HasFirst
    <3>2. i \in DOMAIN r /\ i \in 1..Len(s) /\ \A j \in 1..(i - 1) : j \in 1..Len(s)
      BY <1>1 DEF m
    <3>3. FirstKey(r, n, i)
      BY <1>1, <3>1, <3>2 DEF FirstKey
    <3>4. KeyIn(s, n) = s[i] /\ KeyIn(r, n) = r[i]
      BY <1>1, <3>1, <3>2, <3>3, FirstAnswers
    <3> QED
      BY <1>1, <3>2, <3>4
  <2>2. CASE ~Named(s, n)
    <3>1. ~Named(r, n)
      <4>1. \A i \in DOMAIN r : i \in 1..Len(s) \/ i = m
        BY <1>1 DEF m
      <4> QED
        BY <1>1, <1>5, <2>2, <4>1 DEF Named
    <3> QED
      BY <2>2, <3>1 DEF KeyIn
  <2> QED
    BY <2>1, <2>2
<1> QED
  BY <1>4, <1>5 DEF r

LEMMA GetKeyIs == \A n : GetKey(n) = KeyIn(keys, n) /\ GetKey(n)' = KeyIn(keys', n)
BY DEF GetKey, Known, KeyIn, Named, FirstKey

LEMMA KeysStep ==
    ASSUME KeysTypeOK, [KeysNext]_keysVars
    PROVE  [KeyTable!Next]_keyTable
<1>1. keys \in Seq(Key)
  BY DEF KeysTypeOK
<1>2. CASE UNCHANGED keys
  BY <1>2 DEF keyTable, GetKey, Known
<1>3. ASSUME NEW k \in Key, Construct(k), ~UNCHANGED keys PROVE KeyTable!Bind(k)
  <2>1. ~Named(keys, NameOfKey[k]) /\ keys' = Append(keys, k) /\ NameOfKey[k] \in KeyName
    BY <1>3, KeysAssumption DEF Construct, Known, Named
  <2>2. /\ GetKey(NameOfKey[k])' = k
        /\ \A n \in KeyName \ {NameOfKey[k]} : GetKey(n)' = GetKey(n)
    BY <1>1, <2>1, AppendedKey, GetKeyIs
  <2>3. keyTable[NameOfKey[k]] = NoKey
    BY <2>1 DEF keyTable, GetKey, Known, Named
  <2>4. keyTable' = [keyTable EXCEPT ![NameOfKey[k]] = k]
    <3>1. keyTable' = [n \in KeyName |-> GetKey(n)'] /\ keyTable = [n \in KeyName |-> GetKey(n)]
      BY DEF keyTable
    <3> QED
      BY <2>1, <2>2, <3>1
  <2> QED
    BY <2>3, <2>4 DEF KeyTable!Bind
<1>4. CASE KeysDestroy
  <2>1. keys' = << >>
    BY <1>4 DEF KeysDestroy
  <2>2. \A n : GetKey(n)' = NoKey
    BY <2>1 DEF GetKey, Known
  <2>3. keyTable' = [n \in KeyName |-> NoKey]
    BY <2>2 DEF keyTable
  <2> QED
    BY <2>3 DEF KeyTable!Next, KeyTable!Clear
<1>5. CASE InitializeNext \/ KeysInitialized \/ Finished \/ UNCHANGED keysVars
           \/ \E argv \in Argv : InitializeArguments(argv)
  BY <1>2, <1>5 DEF InitializeNext, KeysInitialized, Finished, InitializeArguments, keysVars
<1> QED
  BY <1>2, <1>3, <1>4, <1>5 DEF KeysNext, KeyTable!Next

(* In every order of construction the first key of a name answers to it until Keys::Destroy:  *)
(* a second one, from whatever module, takes the name from nobody.                            *)
THEOREM KeysRefineNameTable == KeysSpec => KeysRefineTable
<1>1. KeysInit => KeyTable!Init
  <2> SUFFICES ASSUME KeysInit PROVE KeyTable!Init
    OBVIOUS
  <2>1. \A n : GetKey(n) = NoKey
    BY DEF KeysInit, GetKey, Known
  <2> QED
    BY <2>1 DEF KeyTable!Init, keyTable
<1>2. KeysTypeOK /\ [KeysNext]_keysVars => [KeyTable!Next]_keyTable
  BY KeysStep
<1> QED
  BY <1>1, <1>2, KeysTypes, PTL DEF KeysSpec, KeysRefineTable, KeyTable!Spec
=============================================================================
