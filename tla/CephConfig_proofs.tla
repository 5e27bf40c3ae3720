-------------------------- MODULE CephConfig_proofs --------------------------
(***************************************************************************)
(* Proofs about CephParams and CephConfig, for any installations, paths,   *)
(* environments and name libraries.                                        *)
(***************************************************************************)
EXTENDS CephConfig, SequenceTheorems, WellFoundedInduction, TLAPS

-----------------------------------------------------------------------------
(* Least and greatest                                                      *)

\* Natural numbers have a least one.
LEMMA LeastOf ==
  ASSUME NEW S \in SUBSET Nat, S # {}
  PROVE  Min(S) \in S /\ \A y \in S : Min(S) <= y
<1>1. IsWellFoundedOn(OpToRel(<, Nat), Nat)
  BY NatLessThanWellFounded
<1>2. PICK x \in S : \A y \in S : ~ (<<y, x>> \in OpToRel(<, Nat))
  BY <1>1, WFMin
<1>3. ASSUME NEW y \in S, y < x
      PROVE  FALSE
  <2>1. <<y, x>> \in Nat \X Nat /\ <<y, x>>[1] < <<y, x>>[2]
    BY <1>3
  <2>2. <<y, x>> \in OpToRel(<, Nat)
    BY <2>1 DEF OpToRel
  <2>3. QED
    BY <1>2, <2>2
<1>4. \A y \in S : x <= y
  BY <1>3
<1>5. QED
  BY <1>4 DEF Min

\* Numbers up to a limit have a greatest one.
LEMMA GreatestOf ==
  ASSUME NEW n \in Nat, NEW S \in SUBSET (1 .. n), S # {}
  PROVE  Max(S) \in S /\ \A y \in S : y <= Max(S)
<1> DEFINE T == {m \in Nat : \E x \in S : m = n - x}
<1>1. T \in SUBSET Nat /\ T # {}
  <2>1. PICK x \in S : TRUE
    OBVIOUS
  <2>2. n - x \in T
    BY <2>1
  <2>3. QED
    BY <2>2
<1> HIDE DEF T
<1>2. Min(T) \in T /\ \A y \in T : Min(T) <= y
  BY <1>1, LeastOf
<1>3. PICK x \in S : Min(T) = n - x
  BY <1>2 DEF T
<1>4. ASSUME NEW y \in S
      PROVE  y <= x
  <2>1. n - y \in T
    BY DEF T
  <2>2. QED
    BY <1>2, <1>3, <2>1
<1>5. QED
  BY <1>4 DEF Max

\* The first position in a part of a text at which a token is.
FirstAt(s, from, to, token) == SelectInSubSeq(s, from, to, LAMBDA c : c = token)

LEMMA SelectFirst ==
  ASSUME NEW s, NEW from \in Nat, NEW to \in Nat, NEW token
  PROVE  IF \E i \in from .. to : s[i] = token
           THEN /\ FirstAt(s, from, to, token) \in from .. to
                /\ s[FirstAt(s, from, to, token)] = token
                /\ \A i \in from .. FirstAt(s, from, to, token) - 1 : s[i] # token
           ELSE FirstAt(s, from, to, token) = 0
<1> DEFINE I == {i \in from .. to : s[i] = token}
<1>1. FirstAt(s, from, to, token) = IF I # {} THEN Min(I) ELSE 0
  BY DEF FirstAt, SelectInSubSeq
<1>2. CASE I # {}
  <2>1. I \in SUBSET Nat
    OBVIOUS
  <2> HIDE DEF I
  <2>2. Min(I) \in I /\ \A y \in I : Min(I) <= y
    BY <1>2, <2>1, LeastOf
  <2>3. \E i \in from .. to : s[i] = token
    BY <2>2 DEF I
  <2>4. PICK m \in I : m = Min(I) /\ \A y \in I : m <= y
    BY <2>2
  <2>5. \A i \in from .. m - 1 : s[i] # token
    BY <2>4 DEF I
  <2>6. QED
    BY <1>1, <1>2, <2>3, <2>4, <2>5 DEF I
<1>3. CASE I = {}
  BY <1>1, <1>3
<1>4. QED
  BY <1>2, <1>3

\* Where a token is found.
LEMMA FindSpec ==
  ASSUME NEW s, Len(s) \in Nat, NEW token, NEW offset \in 0 .. Len(s)
  PROVE  IF \E i \in offset + 1 .. Len(s) : s[i] = token
           THEN /\ Find(s, token, offset) \in offset .. Len(s) - 1
                /\ s[Find(s, token, offset) + 1] = token
                /\ \A i \in offset + 1 .. Find(s, token, offset) : s[i] # token
           ELSE Find(s, token, offset) = NPOS
<1>1. Len(s) \in Nat
  OBVIOUS
<1>2. PICK first : first = FirstAt(s, offset + 1, Len(s), token)
  OBVIOUS
<1>3. IF \E i \in offset + 1 .. Len(s) : s[i] = token
        THEN /\ first \in offset + 1 .. Len(s) /\ s[first] = token
             /\ \A i \in offset + 1 .. first - 1 : s[i] # token
        ELSE first = 0
  BY <1>1, <1>2, SelectFirst
<1>4. Find(s, token, offset) = first - 1
  BY <1>2 DEF Find, FirstAt, SelectInSubSeq
<1>5. QED
  BY <1>1, <1>3, <1>4 DEF NPOS
-----------------------------------------------------------------------------
(* Numbers                                                                 *)

\* f[i] is the number that the first i digits of s make, up to the n-th.
IsUpTo(f, s, n) ==
  f = [i \in 0 .. n |-> IF i = 0 THEN 0 ELSE 10 * f[i - 1] + DigitValue(s[i])]

\* The recursion has a solution: there is no least n for which it has none.
LEMMA UpToExists ==
  ASSUME NEW s, NEW n \in Nat
  PROVE  \E f : IsUpTo(f, s, n)
<1> DEFINE X == {m \in Nat : ~ \E f : IsUpTo(f, s, m)}
<1> SUFFICES ASSUME X # {} PROVE FALSE
  OBVIOUS
<1>1. PICK m \in X : \A y \in X : m <= y
  <2>1. X \in SUBSET Nat
    OBVIOUS
  <2> HIDE DEF X
  <2>2. Min(X) \in X /\ \A y \in X : Min(X) <= y
    BY <2>1, LeastOf
  <2>3. QED
    BY <2>2
<1>2. m \in Nat /\ ~ \E f : IsUpTo(f, s, m)
  OBVIOUS
<1>3. m # 0
  <2>1. IsUpTo([i \in 0 .. 0 |-> 0], s, 0)
    BY DEF IsUpTo
  <2>2. QED
    BY <1>2, <2>1
<1>4. PICK f : IsUpTo(f, s, m - 1)
  BY <1>1, <1>2, <1>3
<1> DEFINE g == [i \in 0 .. m |-> IF i = m THEN 10 * f[m - 1] + DigitValue(s[m]) ELSE f[i]]
<1>5. \A i \in 0 .. m : g[i] = IF i = 0 THEN 0 ELSE 10 * g[i - 1] + DigitValue(s[i])
  <2>1. \A i \in 0 .. m - 1 : f[i] = IF i = 0 THEN 0 ELSE 10 * f[i - 1] + DigitValue(s[i])
    BY <1>4 DEF IsUpTo
  <2>2. QED
    BY <1>2, <1>3, <2>1
<1>6. IsUpTo(g, s, m)
  <2>1. g = [i \in 0 .. m |-> g[i]]
    OBVIOUS
  <2> HIDE DEF g
  <2>2. QED
    BY <1>5, <2>1 DEF IsUpTo
<1>7. QED
  BY <1>2, <1>6

\* What Decimal computes.
LEMMA DecimalSolves ==
  ASSUME NEW s, Len(s) \in Nat
  PROVE  \E f : IsUpTo(f, s, Len(s)) /\ Decimal(s) = f[Len(s)]
<1> DEFINE f == CHOOSE f : IsUpTo(f, s, Len(s))
<1>1. IsUpTo(f, s, Len(s))
  BY UpToExists
<1>2. Decimal(s) = f[Len(s)]
  BY DEF Decimal, IsUpTo
<1>3. QED
  BY <1>1, <1>2

\* A digit is one of ten.
LEMMA DigitType ==
  ASSUME NEW c \in ToSet(Digits)
  PROVE  DigitValue(c) \in Nat
<1> DEFINE I == {i \in 1 .. Len(Digits) : Digits[i] = c}
<1>1. DigitValue(c) = (IF I # {} THEN Min(I) ELSE 0) - 1
  BY DEF DigitValue, SelectInSeq
<1>2. I # {} /\ I \in SUBSET Nat /\ \A i \in I : i \in Nat \ {0}
  BY DEF ToSet, Digits
<1> HIDE DEF I
<1>3. Min(I) \in Nat \ {0}
  BY <1>2, LeastOf
<1>4. QED
  BY <1>1, <1>2, <1>3

\* A numeral is a natural number.
LEMMA DecimalType ==
  ASSUME NEW s \in Text, IsNumeral(s)
  PROVE  Decimal(s) \in Nat
<1>0. Len(s) \in Nat
  BY DEF Text
<1>1. PICK f : IsUpTo(f, s, Len(s)) /\ Decimal(s) = f[Len(s)]
  BY <1>0, DecimalSolves
<1> DEFINE X == {m \in 0 .. Len(s) : f[m] \notin Nat}
<1>2. CASE X = {}
  BY <1>0, <1>1, <1>2
<1>3. CASE X # {}
  <2>1. X \in SUBSET Nat
    OBVIOUS
  <2> HIDE DEF X
  <2>2. Min(X) \in X /\ \A y \in X : Min(X) <= y
    BY <1>3, <2>1, LeastOf
  <2>3. PICK m \in X : \A y \in X : m <= y
    BY <2>2
  <2>4. m \in 0 .. Len(s) /\ f[m] \notin Nat
    BY <2>3 DEF X
  <2>5. f[m] = IF m = 0 THEN 0 ELSE 10 * f[m - 1] + DigitValue(s[m])
    BY <1>1, <2>4 DEF IsUpTo
  <2>6. m # 0
    BY <2>4, <2>5
  <2>7. f[m - 1] \in Nat
    BY <1>0, <2>3, <2>4, <2>6 DEF X
  <2>8. DigitValue(s[m]) \in Nat
    BY <1>0, <2>4, <2>6, DigitType DEF IsNumeral
  <2>9. 10 * f[m - 1] + DigitValue(s[m]) \in Nat
    BY <2>7, <2>8
  <2>10. QED
    BY <2>4, <2>5, <2>6, <2>9
<1>4. QED
  BY <1>2, <1>3
\* A conversion gives a number in its range or throws.
LEMMA StoullType ==
  ASSUME NEW s \in Text
  PROVE  stoull(s) \in 0 .. NbLong - 1 \cup {Thrown}
<1> DEFINE negative == Len(s) > 1 /\ s[1] = "-"
           numeral == IF negative THEN Tail(s) ELSE s
<1>0. NbLong \in Nat
  BY ParamsAssumption
<1>1. numeral \in Text
  <2>1. s # <<>> => Tail(s) \in Seq(STRING)
    BY DEF Text
  <2>2. negative => s # <<>>
    OBVIOUS
  <2>3. QED
    BY <2>1, <2>2 DEF Text
<1>2. stoull(s) = IF ~IsNumeral(numeral) THEN Thrown
                  ELSE IF Decimal(numeral) >= NbLong THEN Thrown
                  ELSE IF negative THEN (NbLong - Decimal(numeral)) % NbLong
                  ELSE Decimal(numeral)
  BY DEF stoull
<1> HIDE DEF negative, numeral
<1>3. IsNumeral(numeral) => Decimal(numeral) \in Nat
  BY <1>1, DecimalType
<1>4. QED
  <2>1. CASE ~IsNumeral(numeral) \/ Decimal(numeral) >= NbLong
    BY <1>2, <2>1
  <2>2. CASE IsNumeral(numeral) /\ ~ (Decimal(numeral) >= NbLong)
    <3>1. PICK d \in Nat : d = Decimal(numeral) /\ d < NbLong
      BY <1>0, <1>3, <2>2
    <3>2. (NbLong - d) % NbLong \in 0 .. NbLong - 1
      BY <1>0, <3>1
    <3>3. QED
      BY <1>0, <1>2, <2>2, <3>1, <3>2
  <2>3. QED
    BY <2>1, <2>2

\* So does the one of an unsigned int.
LEMMA StouiType ==
  ASSUME NEW s \in Text
  PROVE  stoui(s) \in 0 .. NbInt - 1 \cup {Thrown}
<1>1. stoull(s) \in 0 .. NbLong - 1 \cup {Thrown}
  BY StoullType
<1>2. QED
  BY <1>1, ParamsAssumption DEF stoui, Thrown

-----------------------------------------------------------------------------
(* Fields                                                                  *)

\* The values that a field of the parser may have.
FieldType(key) ==
  CASE key \in {"cephUserId", "cephPool"} -> Text
    [] key = "cephNbStripes" -> 0 .. NbInt - 1 \cup {Thrown}
    [] key \in {"cephStripeUnit", "cephObjectSize"} -> 0 .. NbLong - 1 \cup {Thrown}

Keys == {"cephUserId", "cephPool", "cephNbStripes", "cephStripeUnit", "cephObjectSize"}

\* An environment holds texts.
IsEnv(env) == \A key \in DOMAIN env : env[key] \in Text

LEMMA ConvertedType ==
  ASSUME NEW key \in Keys, NEW s \in Text
  PROVE  Converted(key, s) \in FieldType(key)
BY StoullType, StouiType DEF Converted, FieldType, Keys

LEMMA FromEnvType ==
  ASSUME NEW env, IsEnv(env), NEW key \in Keys, NEW dflt \in FieldType(key)
  PROVE  FromEnv(env, key, dflt) \in FieldType(key)
BY ConvertedType DEF FromEnv, IsEnv

\* A part of a text is one.
LEMMA BetweenType ==
  ASSUME NEW s \in Text, NEW from \in Nat, NEW to \in Int, to <= Len(s)
  PROVE  Between(s, from, to) \in Text
<1>1. \A i \in from + 1 .. to : s[i] \in STRING
  BY DEF Text
<1>2. SubSeq(s, from + 1, to) \in Seq(STRING)
  BY <1>1, SubSeqProperties
<1>3. QED
  BY <1>2 DEF Between, Text

LEMMA UserType ==
  ASSUME NEW s \in Text, NEW env, IsEnv(env), NEW dflt \in Text
  PROVE  /\ fillCephUserId(s, env, dflt).value \in Text
         /\ fillCephUserId(s, env, dflt).next \in 0 .. Len(s)
<1> DEFINE atPos == Find(s, "@", 0)
<1>0. Len(s) \in Nat
  BY DEF Text
<1>1. atPos \in 0 .. Len(s) - 1 \/ atPos = NPOS
  BY <1>0, FindSpec
<1>2. fillCephUserId(s, env, dflt) =
        [value |-> IF atPos # NPOS THEN Between(s, 0, atPos) ELSE FromEnv(env, "cephUserId", dflt),
         next |-> atPos + 1]
  BY DEF fillCephUserId
<1> HIDE DEF atPos
<1>3. atPos # NPOS => Between(s, 0, atPos) \in Text
  BY <1>0, <1>1, BetweenType
<1>4. FromEnv(env, "cephUserId", dflt) \in Text
  BY FromEnvType DEF FieldType, Keys
<1>5. QED
  BY <1>0, <1>1, <1>2, <1>3, <1>4 DEF NPOS

LEMMA FillFieldType ==
  ASSUME NEW s \in Text, NEW offset \in 0 .. Len(s), NEW key \in Keys, NEW env, IsEnv(env),
         NEW dflt \in FieldType(key)
  PROVE  /\ fillField(s, offset, key, env, dflt).value \in FieldType(key)
         /\ fillField(s, offset, key, env, dflt).next \in 0 .. Len(s)
<1> DEFINE comPos == Find(s, ",", offset)
           end == IF comPos = NPOS THEN Len(s) ELSE comPos
<1>0. Len(s) \in Nat
  BY DEF Text
<1>1. comPos \in offset .. Len(s) - 1 \/ comPos = NPOS
  BY <1>0, FindSpec
<1>2. fillField(s, offset, key, env, dflt) =
        [value |-> IF comPos = NPOS /\ Len(s) = offset THEN FromEnv(env, key, dflt)
                   ELSE Converted(key, Between(s, offset, end)),
         next |-> IF comPos = NPOS THEN end ELSE end + 1]
  BY DEF fillField
<1>3. end \in 0 .. Len(s) /\ (comPos # NPOS => end + 1 \in 0 .. Len(s))
  <2> HIDE DEF comPos
  <2>1. CASE comPos = NPOS
    BY <1>0, <2>1
  <2>2. CASE comPos # NPOS
    BY <1>0, <1>1, <2>2
  <2>3. QED
    BY <2>1, <2>2
<1> HIDE DEF comPos, end
<1>4. Converted(key, Between(s, offset, end)) \in FieldType(key)
  BY <1>0, <1>3, BetweenType, ConvertedType
<1>5. FromEnv(env, key, dflt) \in FieldType(key)
  BY FromEnvType
<1>6. comPos = NPOS => end \in 0 .. Len(s)
  BY <1>3
<1>7. QED
  BY <1>2, <1>3, <1>4, <1>5, <1>6

LEMMA ObjectSizeType ==
  ASSUME NEW s \in Text, NEW offset \in 0 .. Len(s), NEW env, IsEnv(env),
         NEW dflt \in FieldType("cephObjectSize")
  PROVE  fillCephObjectSize(s, offset, env, dflt) \in FieldType("cephObjectSize")
<1>0. Len(s) \in Nat
  BY DEF Text
<1>1. FromEnv(env, "cephObjectSize", dflt) \in FieldType("cephObjectSize")
  BY FromEnvType DEF Keys
<1>2. Between(s, offset, Len(s)) \in Text
  BY <1>0, BetweenType
<1>3. stoull(Between(s, offset, Len(s))) \in FieldType("cephObjectSize")
  BY <1>2, StoullType DEF FieldType
<1>4. QED
  BY <1>1, <1>3 DEF fillCephObjectSize

\* What the parser makes of a text is a set of parameters, unless it throws.
LEMMA ParamsParsed ==
  ASSUME NEW s \in Text, NEW env, IsEnv(env), NEW dflt \in Params,
         ~Throws(fillCephFileParams(s, env, dflt))
  PROVE  fillCephFileParams(s, env, dflt) \in Params
<1> DEFINE user == fillCephUserId(s, env, dflt.userId)
           pool == fillField(s, user.next, "cephPool", env, dflt.pool)
           nb == fillField(s, pool.next, "cephNbStripes", env, dflt.nbStripes)
           unit == fillField(s, nb.next, "cephStripeUnit", env, dflt.stripeUnit)
           size == fillCephObjectSize(s, unit.next, env, dflt.objectSize)
<1>1. fillCephFileParams(s, env, dflt) =
        [userId |-> user.value, pool |-> pool.value, nbStripes |-> nb.value,
         stripeUnit |-> unit.value, objectSize |-> size]
  BY DEF fillCephFileParams
<1>2. /\ dflt.userId \in Text /\ dflt.pool \in FieldType("cephPool")
      /\ dflt.nbStripes \in FieldType("cephNbStripes")
      /\ dflt.stripeUnit \in FieldType("cephStripeUnit")
      /\ dflt.objectSize \in FieldType("cephObjectSize")
  BY DEF Params, FieldType
<1>3. user.value \in Text /\ user.next \in 0 .. Len(s)
  BY <1>2, UserType
<1> HIDE DEF user
<1>4. pool.value \in Text /\ pool.next \in 0 .. Len(s)
  BY <1>2, <1>3, FillFieldType DEF Keys, FieldType
<1> HIDE DEF pool
<1>5. nb.value \in 0 .. NbInt - 1 \cup {Thrown} /\ nb.next \in 0 .. Len(s)
  BY <1>2, <1>4, FillFieldType DEF Keys, FieldType
<1> HIDE DEF nb
<1>6. unit.value \in 0 .. NbLong - 1 \cup {Thrown} /\ unit.next \in 0 .. Len(s)
  BY <1>2, <1>5, FillFieldType DEF Keys, FieldType
<1> HIDE DEF unit
<1>7. size \in 0 .. NbLong - 1 \cup {Thrown}
  BY <1>2, <1>6, ObjectSizeType DEF FieldType
<1> HIDE DEF size
<1>8. QED
  BY <1>1, <1>3, <1>4, <1>5, <1>6, <1>7 DEF Params, Throws
-----------------------------------------------------------------------------
(* Types                                                                   *)

\* What the plug-ins have made of the settings, and what Configure has left.
TInv == TypeOK /\ lines \in Seq(Line)

\* What a site is.
LEMMA SiteType ==
  ASSUME NEW s \in Sites
  PROVE  s.oss \in Text \cup {None} /\ s.xattr \in Text \cup {None} /\ s.file \in Seq(Line)
BY ConfigAssumption

LEMMA NoEnvIsEnv == IsEnv(NoEnv)
BY DEF IsEnv, NoEnv

\* Parameters that a directive leaves are parameters.
LEMMA SetDefaultsType ==
  ASSUME g_defaultParams \in Params, NEW parms \in Text \cup {None}, ceph_posix_set_defaults(parms)
  PROVE  g_defaultParams' \in Params
BY NoEnvIsEnv, ParamsParsed DEF ceph_posix_set_defaults

\* The names that a library gives are texts.
LEMMA LoadedType ==
  ASSUME NEW word
  PROVE  \A name \in DOMAIN Loaded(word) : Loaded(word)[name] \in Text
BY ConfigAssumption DEF Loaded, NoLib

\* An open gets parameters of its file.
LEMMA FileParams ==
  ASSUME NEW path \in Text, NEW env, IsEnv(env), NEW dflt \in Params, NEW namelib,
         ~Throws(fillCephFile(path, env, dflt, namelib).params)
  PROVE  fillCephFile(path, env, dflt, namelib).params \in Params
<1> DEFINE text == Between(path, 0, Find(path, ":", 0))
<1>1. Len(path) \in Nat
  BY DEF Text
<1>2. Find(path, ":", 0) \in Int /\ Find(path, ":", 0) <= Len(path)
  BY <1>1, FindSpec DEF NPOS
<1>3. text \in Text
  BY <1>2, BetweenType
<1>4. fillCephFile(path, env, dflt, namelib).params = fillCephFileParams(text, env, dflt)
  BY DEF fillCephFile
<1> HIDE DEF text
<1>5. QED
  BY <1>3, <1>4, ParamsParsed

LEMMA OpenTypes ==
  ASSUME TInv, NEW path \in Paths, NEW env \in Envs, Open(path, env)
  PROVE  TInv'
<1> DEFINE file == fillCephFile(path, env, g_defaultParams, g_namelib)
           key == Key(file.params)
           served == IF key \in DOMAIN stripers THEN stripers[key] ELSE file.params
<1>1. /\ ~Throws(file.params)
      /\ stripers' = [k \in DOMAIN stripers \cup {key} |->
                        IF k \in DOMAIN stripers THEN stripers[k] ELSE file.params]
      /\ opened' = opened \cup {[file |-> file, served |-> served]}
      /\ UNCHANGED <<site, oss, xattr, lines, g_defaultParams, g_maxCephPoolIdx, g_namelib>>
  BY DEF Open
<1>2. file.params \in Params
  <2>1. path \in Text /\ IsEnv(env) /\ g_defaultParams \in Params
    BY ConfigAssumption DEF IsEnv, TInv, TypeOK
  <2>2. QED
    BY <1>1, <2>1, FileParams
<1> HIDE DEF file, key
<1>3. \A k \in DOMAIN stripers : stripers[k] \in Params
  BY DEF TInv, TypeOK
<1>4. \A k \in DOMAIN stripers' : stripers'[k] \in Params
  BY <1>1, <1>2, <1>3
<1>5. served \in Params
  BY <1>2, <1>3
<1> HIDE DEF served
<1>6. \A o \in opened' : o.file.params \in Params /\ o.served \in Params
  BY <1>1, <1>2, <1>5 DEF TInv, TypeOK
<1>7. QED
  BY <1>1, <1>4, <1>6 DEF TInv, TypeOK

\* The settings keep their types.
LEMMA TypeStep ==
  ASSUME TInv, [Next]_vars
  PROVE  TInv'
<1>0. /\ site \in Sites /\ g_defaultParams \in Params /\ lines \in Seq(Line)
      /\ g_maxCephPoolIdx \in 1 .. MaxNbConnections
  BY DEF TInv, TypeOK
<1>1. CASE XrdOssGetStorageSystem
  <2>1. g_defaultParams' \in Params
    BY <1>0, <1>1, SiteType, SetDefaultsType DEF XrdOssGetStorageSystem
  <2>2. lines' \in Seq(Line)
    BY <1>0, <1>1, SiteType DEF XrdOssGetStorageSystem
  <2>3. QED
    BY <1>1, <2>1, <2>2 DEF XrdOssGetStorageSystem, TInv, TypeOK
<1>2. CASE XrdSysGetXAttrObject
  <2>1. g_defaultParams' \in Params
    BY <1>0, <1>2, SiteType, SetDefaultsType DEF XrdSysGetXAttrObject
  <2>2. QED
    BY <1>2, <2>1 DEF XrdSysGetXAttrObject, TInv, TypeOK
<1>3. lines # <<>> => Tail(lines) \in Seq(Line) /\ Head(lines) \in Line
  BY <1>0
<1>4. CASE BadLine \/ OtherLine \/ Configured
  <2>1. lines' \in Seq(Line)
    <3>1. <<>> \in Seq(Line)
      BY EmptySeq
    <3>2. lines' \in {<<>>, lines} \/ (lines # <<>> /\ lines' = Tail(lines))
      BY <1>4 DEF BadLine, OtherLine, Configured
    <3> HIDE DEF Line
    <3>3. QED
      BY <1>0, <1>3, <3>1, <3>2
  <2>2. /\ oss' \in {"none", "configuring", "ready", "failed"}
        /\ UNCHANGED <<site, xattr, g_defaultParams, g_maxCephPoolIdx, g_namelib, stripers, opened>>
    BY <1>4 DEF BadLine, OtherLine, Configured, TInv, TypeOK
  <2>3. QED
    BY <2>1, <2>2 DEF TInv, TypeOK
<1>5. CASE NbConnections
  <2>1. strtoul(Head(lines).word) \in 1 .. MaxNbConnections
    BY <1>5 DEF NbConnections, Bad, ValidNumber
  <2>2. QED
    BY <1>3, <1>5, <2>1 DEF NbConnections, TInv, TypeOK
<1>6. CASE NameLib
  BY <1>3, <1>6, LoadedType DEF NameLib, TInv, TypeOK
<1>7. CASE \E path \in Paths, env \in Envs : Open(path, env)
  BY <1>7, OpenTypes
<1>8. CASE UNCHANGED vars
  BY <1>8 DEF vars, TInv, TypeOK
<1>9. QED
  BY <1>1, <1>2, <1>4, <1>5, <1>6, <1>7, <1>8 DEF Next

LEMMA InitTypes == Init => TInv
BY ConfigAssumption DEF Init, TInv, TypeOK, NoLib

\* Nothing that threw becomes a default or a striper, and the pool of
\* connections never gets a size that CephPool excludes, whatever is configured.
THEOREM SettingsTypes == Spec => []TypeOK
<1>1. TInv => TypeOK
  BY DEF TInv
<1>2. TInv /\ [Next]_vars => TInv'
  BY TypeStep
<1>3. QED
  BY InitTypes, <1>1, <1>2, PTL DEF Spec

-----------------------------------------------------------------------------
(* The defaults, whichever plug-in is loaded first                         *)

\* What a directive makes of the defaults it finds, when it does not throw.
Applied(parms, dflt) == IF parms = None THEN dflt ELSE fillCephFileParams(parms, NoEnv, dflt)

\* As far as the plug-ins have been loaded, and none has failed.
DefaultsSoFar ==
  /\ xattr = "absent" => site.xattr = None
  /\ oss \in {"none", "configuring", "ready", "failed"}
  /\ xattr \in {"none", "absent", "ready", "failed"}
  /\ oss = "none" /\ xattr \in {"none", "absent"} => g_defaultParams = BuiltIn
  /\ oss \in {"configuring", "ready"} /\ xattr \in {"none", "absent"} =>
       g_defaultParams = Applied(site.oss, BuiltIn)
  /\ oss = "none" /\ xattr = "ready" => g_defaultParams = Applied(site.xattr, BuiltIn)
  /\ oss \in {"configuring", "ready"} /\ xattr = "ready" =>
       \/ g_defaultParams = Applied(site.xattr, Applied(site.oss, BuiltIn))
       \/ g_defaultParams = Applied(site.oss, Applied(site.xattr, BuiltIn))

\* A field given in a text is read from it, and one that is not stays, so that
\* reading the same text again changes nothing.
LEMMA FieldTwice ==
  ASSUME NEW s, NEW offset, NEW key, NEW d
  PROVE  /\ fillField(s, offset, key, NoEnv, fillField(s, offset, key, NoEnv, d).value).value
              = fillField(s, offset, key, NoEnv, d).value
         /\ \A e : fillField(s, offset, key, NoEnv, e).next = fillField(s, offset, key, NoEnv, d).next
BY DEF fillField, FromEnv, NoEnv

LEMMA UserTwice ==
  ASSUME NEW s, NEW d
  PROVE  /\ fillCephUserId(s, NoEnv, fillCephUserId(s, NoEnv, d).value).value
              = fillCephUserId(s, NoEnv, d).value
         /\ \A e : fillCephUserId(s, NoEnv, e).next = fillCephUserId(s, NoEnv, d).next
BY DEF fillCephUserId, FromEnv, NoEnv

LEMMA SizeTwice ==
  ASSUME NEW s, NEW offset, NEW d
  PROVE  fillCephObjectSize(s, offset, NoEnv, fillCephObjectSize(s, offset, NoEnv, d))
           = fillCephObjectSize(s, offset, NoEnv, d)
BY DEF fillCephObjectSize, FromEnv, NoEnv
LEMMA ParamsTwice ==
  ASSUME NEW s, NEW d
  PROVE  fillCephFileParams(s, NoEnv, fillCephFileParams(s, NoEnv, d)) = fillCephFileParams(s, NoEnv, d)
<1> DEFINE User(e) == fillCephUserId(s, NoEnv, e)
           from == User(d.userId).next
           Pool(e) == fillField(s, from, "cephPool", NoEnv, e)
           from2 == Pool(d.pool).next
           Nb(e) == fillField(s, from2, "cephNbStripes", NoEnv, e)
           from3 == Nb(d.nbStripes).next
           Unit(e) == fillField(s, from3, "cephStripeUnit", NoEnv, e)
           from4 == Unit(d.stripeUnit).next
           Size(e) == fillCephObjectSize(s, from4, NoEnv, e)
<1>1. /\ \A e : User(e.userId).next = from
      /\ \A e : Pool(e.pool).next = from2
      /\ \A e : Nb(e.nbStripes).next = from3
      /\ \A e : Unit(e.stripeUnit).next = from4
  BY UserTwice, FieldTwice
<1>2. /\ User(User(d.userId).value).value = User(d.userId).value
      /\ Pool(Pool(d.pool).value).value = Pool(d.pool).value
      /\ Nb(Nb(d.nbStripes).value).value = Nb(d.nbStripes).value
      /\ Unit(Unit(d.stripeUnit).value).value = Unit(d.stripeUnit).value
      /\ Size(Size(d.objectSize)) = Size(d.objectSize)
  BY UserTwice, FieldTwice, SizeTwice
<1>3. ASSUME NEW e
      PROVE  fillCephFileParams(s, NoEnv, e) =
               [userId |-> User(e.userId).value, pool |-> Pool(e.pool).value,
                nbStripes |-> Nb(e.nbStripes).value, stripeUnit |-> Unit(e.stripeUnit).value,
                objectSize |-> Size(e.objectSize)]
  BY <1>1 DEF fillCephFileParams
<1> HIDE DEF User, Pool, Nb, Unit, Size
<1>4. PICK p : p = fillCephFileParams(s, NoEnv, d)
  OBVIOUS
<1>5. /\ p.userId = User(d.userId).value /\ p.pool = Pool(d.pool).value
      /\ p.nbStripes = Nb(d.nbStripes).value /\ p.stripeUnit = Unit(d.stripeUnit).value
      /\ p.objectSize = Size(d.objectSize)
  <2>1. p = [userId |-> User(d.userId).value, pool |-> Pool(d.pool).value,
             nbStripes |-> Nb(d.nbStripes).value, stripeUnit |-> Unit(d.stripeUnit).value,
             objectSize |-> Size(d.objectSize)]
    BY <1>3, <1>4
  <2>2. QED
    BY <2>1
<1>6. fillCephFileParams(s, NoEnv, p) = fillCephFileParams(s, NoEnv, d)
  BY <1>2, <1>3, <1>5
<1>7. QED
  BY <1>4, <1>6

\* A directive that did not throw has been applied.
LEMMA SetDefaultsApplies ==
  ASSUME NEW parms, ceph_posix_set_defaults(parms), ~SyntaxError(parms)
  PROVE  g_defaultParams' = Applied(parms, g_defaultParams)
BY DEF ceph_posix_set_defaults, SyntaxError, Applied

LEMMA DefaultsStep ==
  ASSUME DefaultsSoFar, [Next]_vars
  PROVE  DefaultsSoFar'
<1>1. CASE XrdOssGetStorageSystem
  <2>1. /\ oss = "none" /\ ceph_posix_set_defaults(site.oss)
        /\ oss' = IF SyntaxError(site.oss) THEN "failed" ELSE "configuring"
        /\ UNCHANGED <<site, xattr>>
    BY <1>1 DEF XrdOssGetStorageSystem
  <2>2. CASE SyntaxError(site.oss)
    BY <2>1, <2>2 DEF DefaultsSoFar
  <2>3. CASE ~SyntaxError(site.oss)
    BY <2>1, <2>3, SetDefaultsApplies DEF DefaultsSoFar
  <2>4. QED
    BY <2>2, <2>3
<1>2. CASE XrdSysGetXAttrObject
  <2>1. /\ xattr = "none" /\ ceph_posix_set_defaults(site.xattr)
        /\ xattr' = IF SyntaxError(site.xattr) THEN "failed" ELSE "ready"
        /\ UNCHANGED <<site, oss>>
    BY <1>2 DEF XrdSysGetXAttrObject
  <2>2. CASE SyntaxError(site.xattr)
    BY <2>1, <2>2 DEF DefaultsSoFar
  <2>3. CASE ~SyntaxError(site.xattr)
    BY <2>1, <2>3, SetDefaultsApplies DEF DefaultsSoFar
  <2>4. QED
    BY <2>2, <2>3
<1>3. CASE BadLine \/ OtherLine \/ NbConnections \/ NameLib
  BY <1>3 DEF BadLine, OtherLine, NbConnections, NameLib, DefaultsSoFar
<1>4. CASE Configured
  BY <1>4 DEF Configured, DefaultsSoFar
<1>5. CASE \E path \in Paths, env \in Envs : Open(path, env)
  BY <1>5 DEF Open, DefaultsSoFar
<1>6. CASE UNCHANGED vars
  BY <1>6 DEF vars, DefaultsSoFar
<1>7. QED
  BY <1>1, <1>2, <1>3, <1>4, <1>5, <1>6 DEF Next

\* One directive is enough, and two that are the same count as one, whichever
\* plug-in is loaded first.
THEOREM OneDirectiveServesBoth == Spec => []OneDefaultForBoth
<1>1. Init => DefaultsSoFar
  BY DEF Init, DefaultsSoFar
<1>2. DefaultsSoFar /\ [Next]_vars => DefaultsSoFar'
  BY DefaultsStep
<1>3. DefaultsSoFar => OneDefaultForBoth
  BY ParamsTwice DEF DefaultsSoFar, OneDefaultForBoth, Serving, Applied
<1>4. QED
  BY <1>1, <1>2, <1>3, PTL DEF Spec
-----------------------------------------------------------------------------
(* The lines of the file                                                   *)

\* The lines with a key among the first n, and the settings they make.
LinesOf(key, n) == {i \in 1 .. n : Is(site.file[i], key)}

SettingsOf(n) ==
  /\ g_maxCephPoolIdx = IF LinesOf("ceph.nbconnections", n) = {} THEN 1
                        ELSE strtoul(site.file[Max(LinesOf("ceph.nbconnections", n))].word)
  /\ g_namelib = IF LinesOf("ceph.namelib", n) = {} THEN NoLib
                 ELSE Loaded(site.file[Max(LinesOf("ceph.namelib", n))].word)

\* Configure has read n lines, none of them bad, and goes on with the next, or
\* has stopped there because that is a bad one.
ReadUpTo(n) ==
  /\ \A i \in 1 .. n : ~Bad(site.file[i])
  /\ \/ lines = SubSeq(site.file, n + 1, Len(site.file))
     \/ lines = <<>> /\ n < Len(site.file) /\ Bad(site.file[n + 1])
  /\ SettingsOf(n)

LinesSoFar ==
  /\ oss \in {"configuring", "ready"} => \E n \in 0 .. Len(site.file) : ReadUpTo(n)
  /\ oss # "configuring" => lines = <<>>
  /\ oss = "none" => g_maxCephPoolIdx = 1 /\ g_namelib = NoLib

\* No key begins with both directives.
LEMMA OneDirective ==
  ASSUME NEW line
  PROVE  ~(Is(line, "ceph.nbconnections") /\ Is(line, "ceph.namelib"))
BY DEF Is, IsPrefix

\* One more line with a key is the last one with it.
LEMMA LastIsNew ==
  ASSUME NEW n \in Nat, NEW S \in SUBSET (1 .. n)
  PROVE  Max(S \cup {n + 1}) = n + 1
<1> DEFINE T == S \cup {n + 1}
<1>1. T \in SUBSET (1 .. n + 1) /\ T # {} /\ n + 1 \in Nat /\ n + 1 \in T
  OBVIOUS
<1> HIDE DEF T
<1>2. Max(T) \in T /\ \A y \in T : y <= Max(T)
  BY <1>1, GreatestOf
<1>3. PICK m : m = Max(T)
  OBVIOUS
<1>4. m \in 1 .. n + 1 /\ n + 1 <= m
  BY <1>1, <1>2, <1>3
<1>5. Max(T) = n + 1
  BY <1>3, <1>4
<1>6. QED
  BY <1>5 DEF T

\* A line that has been read has its own key only.
LEMMA OneMoreLine ==
  ASSUME NEW n \in Nat, NEW key
  PROVE  IF Is(site.file[n + 1], key)
           THEN LinesOf(key, n + 1) # {} /\ Max(LinesOf(key, n + 1)) = n + 1
           ELSE LinesOf(key, n + 1) = LinesOf(key, n)
<1>1. CASE Is(site.file[n + 1], key)
  <2>1. LinesOf(key, n + 1) = LinesOf(key, n) \cup {n + 1}
    BY <1>1 DEF LinesOf
  <2>2. LinesOf(key, n) \in SUBSET (1 .. n)
    BY DEF LinesOf
  <2>3. QED
    BY <1>1, <2>1, <2>2, LastIsNew
<1>2. CASE ~Is(site.file[n + 1], key)
  BY <1>2 DEF LinesOf
<1>3. QED
  BY <1>1, <1>2

\* The next line of those that are left.
LEMMA NextLine ==
  ASSUME NEW f \in Seq(Line), NEW n \in 0 .. Len(f), SubSeq(f, n + 1, Len(f)) # <<>>
  PROVE  /\ n < Len(f) /\ Head(SubSeq(f, n + 1, Len(f))) = f[n + 1]
         /\ Tail(SubSeq(f, n + 1, Len(f))) = SubSeq(f, n + 2, Len(f))
<1>0. Len(f) \in Nat
  OBVIOUS
<1>1. n < Len(f)
  BY <1>0, SubSeqEmpty
<1>2. n + 1 \in 1 .. Len(f) /\ Len(f) \in n + 1 .. Len(f)
  BY <1>0, <1>1
<1>3. PICK m \in Nat : m = n + 1
  OBVIOUS
<1>4. /\ Head(SubSeq(f, m, Len(f))) = f[m]
      /\ Tail(SubSeq(f, m, Len(f))) = SubSeq(f, m + 1, Len(f))
  BY <1>2, <1>3, HeadTailOfSubSeq
<1>5. m + 1 = n + 2
  BY <1>3
<1>6. QED
  BY <1>1, <1>3, <1>4, <1>5

\* A step that reads a line.
LEMMA ReadStep ==
  ASSUME TInv, LinesSoFar, lines # <<>>, UNCHANGED <<site, oss>>,
         \/ Bad(Head(lines)) /\ lines' = <<>> /\ UNCHANGED <<g_maxCephPoolIdx, g_namelib>>
         \/ /\ ~Bad(Head(lines)) /\ lines' = Tail(lines)
            /\ g_maxCephPoolIdx' = IF Is(Head(lines), "ceph.nbconnections")
                                     THEN strtoul(Head(lines).word) ELSE g_maxCephPoolIdx
            /\ g_namelib' = IF Is(Head(lines), "ceph.namelib")
                              THEN Loaded(Head(lines).word) ELSE g_namelib
  PROVE  LinesSoFar'
<1> DEFINE f == site.file
<1>0. f \in Seq(Line) /\ Len(f) \in Nat
  BY SiteType DEF TInv, TypeOK
<1>1. oss = "configuring"
  BY DEF LinesSoFar
<1>2. PICK n \in 0 .. Len(f) : ReadUpTo(n)
  BY <1>1 DEF LinesSoFar
<1>3. lines = SubSeq(f, n + 1, Len(f))
  BY <1>2 DEF ReadUpTo
<1>4. n < Len(f) /\ Head(lines) = f[n + 1] /\ Tail(lines) = SubSeq(f, n + 2, Len(f)) /\ n \in Nat
  <2>1. PICK g \in Seq(Line) : g = f
    BY <1>0
  <2>2. n \in 0 .. Len(g) /\ lines = SubSeq(g, n + 1, Len(g)) /\ lines # <<>>
    BY <1>3, <2>1
  <2>3. /\ n < Len(g) /\ Head(SubSeq(g, n + 1, Len(g))) = g[n + 1]
        /\ Tail(SubSeq(g, n + 1, Len(g))) = SubSeq(g, n + 2, Len(g))
    <3>1. SubSeq(g, n + 1, Len(g)) # <<>> /\ n \in 0 .. Len(g)
      BY <2>2
    <3>2. QED
      BY <3>1, NextLine
  <2>4. Head(lines) = g[n + 1] /\ Tail(lines) = SubSeq(g, n + 2, Len(g))
    BY <2>2, <2>3
  <2>5. n \in Nat
    BY <1>0
  <2>6. n < Len(f) /\ Head(lines) = f[n + 1] /\ Tail(lines) = SubSeq(f, n + 2, Len(f))
    BY <2>1, <2>3, <2>4
  <2>7. QED
    BY <2>5, <2>6
<1>5. \E m \in 0 .. Len(f) : ReadUpTo(m)'
  <2>1. CASE Bad(Head(lines)) /\ lines' = <<>> /\ UNCHANGED <<g_maxCephPoolIdx, g_namelib>>
    <3>1. SettingsOf(n)'
      BY <1>2, <2>1 DEF ReadUpTo, SettingsOf, LinesOf
    <3>2. ReadUpTo(n)'
      BY <1>2, <1>4, <2>1, <3>1 DEF ReadUpTo
    <3>3. QED
      BY <3>2
  <2>2. CASE ~Bad(Head(lines)) /\ lines' = Tail(lines)
    <3>1. \A key : LinesOf(key, n + 1)' = LinesOf(key, n + 1)
      BY DEF LinesOf
    <3>2. SettingsOf(n)
      BY <1>2 DEF ReadUpTo
    <3>3. PICK m \in Nat : m = n + 1
      BY <1>4
    <3>4. /\ g_maxCephPoolIdx' = IF Is(f[m], "ceph.nbconnections")
                                   THEN strtoul(f[m].word) ELSE g_maxCephPoolIdx
          /\ g_namelib' = IF Is(f[m], "ceph.namelib") THEN Loaded(f[m].word) ELSE g_namelib
      BY <1>4, <2>2, <3>3
    <3>5. \A key : IF Is(f[m], key) THEN LinesOf(key, m) # {} /\ Max(LinesOf(key, m)) = m
                   ELSE LinesOf(key, m) = LinesOf(key, n)
      BY <1>4, <3>3, OneMoreLine
    <3>6. SettingsOf(m)'
      <4>1. g_maxCephPoolIdx' = IF LinesOf("ceph.nbconnections", m) = {} THEN 1
                                ELSE strtoul(f[Max(LinesOf("ceph.nbconnections", m))].word)
        BY <3>2, <3>4, <3>5 DEF SettingsOf
      <4>2. g_namelib' = IF LinesOf("ceph.namelib", m) = {} THEN NoLib
                         ELSE Loaded(f[Max(LinesOf("ceph.namelib", m))].word)
        BY <3>2, <3>4, <3>5 DEF SettingsOf
      <4>3. \A key : LinesOf(key, m)' = LinesOf(key, m)
        BY DEF LinesOf
      <4>4. QED
        BY <4>1, <4>2, <4>3 DEF SettingsOf
    <3>7. \A i \in 1 .. m : ~Bad(f[i])
      BY <1>2, <1>4, <2>2, <3>3 DEF ReadUpTo
    <3>8. lines' = SubSeq(f, m + 1, Len(f))
      <4>1. m + 1 = n + 2
        BY <1>4, <3>3
      <4>2. QED
        BY <1>4, <2>2, <4>1
    <3>9. ReadUpTo(m)'
      BY <3>6, <3>7, <3>8 DEF ReadUpTo
    <3>10. m \in 0 .. Len(f)
      BY <1>0, <1>4, <3>3
    <3>11. QED
      BY <3>9, <3>10
  <2>3. QED
    BY <2>1, <2>2
<1>6. QED
  BY <1>1, <1>5 DEF LinesSoFar

\* Each step reads a line, or leaves what has been read alone.
LEMMA LinesStep ==
  ASSUME TInv, LinesSoFar, [Next]_vars
  PROVE  LinesSoFar'
<1>1. CASE XrdOssGetStorageSystem
  <2>1. /\ oss = "none" /\ UNCHANGED <<site, g_maxCephPoolIdx, g_namelib>>
        /\ \/ oss' = "failed" /\ lines' = <<>>
           \/ oss' = "configuring" /\ lines' = site.file
    BY <1>1 DEF XrdOssGetStorageSystem
  <2>2. CASE oss' = "failed"
    BY <2>1, <2>2 DEF LinesSoFar
  <2>3. CASE oss' = "configuring"
    <3>1. site.file \in Seq(Line) /\ Len(site.file) \in Nat
      BY SiteType DEF TInv, TypeOK
    <3>2. lines' = SubSeq(site.file, 0 + 1, Len(site.file))
      <4>1. SubSeq(site.file, 1, Len(site.file)) = site.file
        BY <3>1, SubSeqFull
      <4>2. QED
        BY <2>1, <2>3, <4>1
    <3>3. \A key : LinesOf(key, 0)' = {}
      BY DEF LinesOf
    <3>4. g_maxCephPoolIdx' = 1 /\ g_namelib' = NoLib
      BY <2>1 DEF LinesSoFar
    <3>5. SettingsOf(0)'
      BY <3>3, <3>4 DEF SettingsOf
    <3>6. ReadUpTo(0)'
      BY <2>1, <3>2, <3>5 DEF ReadUpTo
    <3>7. 0 \in 0 .. Len(site.file)
      BY <3>1
    <3>8. QED
      BY <2>1, <2>3, <3>6, <3>7 DEF LinesSoFar
  <2>4. QED
    BY <2>1, <2>2, <2>3
<1>2. CASE BadLine
  BY <1>2, ReadStep DEF BadLine
<1>3. CASE NbConnections
  BY <1>3, OneDirective, ReadStep DEF NbConnections
<1>4. CASE NameLib
  BY <1>4, OneDirective, ReadStep DEF NameLib
<1>5. CASE OtherLine
  <2>1. ~Bad(Head(lines))
    BY <1>5 DEF OtherLine, Bad
  <2>2. QED
    BY <1>5, <2>1, ReadStep DEF OtherLine
<1>6. ASSUME UNCHANGED <<site, lines, g_maxCephPoolIdx, g_namelib>>, oss' = oss \/ Configured
      PROVE  LinesSoFar'
  <2>1. \A n : SettingsOf(n)' = SettingsOf(n)
    BY <1>6 DEF SettingsOf, LinesOf
  <2>2. \A n : ReadUpTo(n)' = ReadUpTo(n)
    BY <1>6, <2>1 DEF ReadUpTo
  <2>3. QED
    BY <1>6, <2>2 DEF LinesSoFar, Configured
<1>7. QED
  <2>1. CASE XrdSysGetXAttrObject
    BY <1>6, <2>1 DEF XrdSysGetXAttrObject
  <2>2. CASE Configured
    BY <1>6, <2>2 DEF Configured
  <2>3. CASE \E path \in Paths, env \in Envs : Open(path, env)
    BY <1>6, <2>3 DEF Open
  <2>4. CASE UNCHANGED vars
    BY <1>6, <2>4 DEF vars
  <2>5. QED
    BY <1>1, <1>2, <1>3, <1>4, <1>5, <2>1, <2>2, <2>3, <2>4 DEF Next

\* Where the first bad line is.
FirstBad == SelectInSeq(site.file, Bad)

LEMMA FirstBadSpec ==
  ASSUME NEW n \in 0 .. Len(site.file), Len(site.file) \in Nat,
         \A i \in 1 .. n : ~Bad(site.file[i])
  PROVE  IF n = Len(site.file) THEN FirstBad = 0
         ELSE Bad(site.file[n + 1]) => FirstBad = n + 1
<1> DEFINE I == {i \in 1 .. Len(site.file) : Bad(site.file[i])}
<1>1. FirstBad = IF I # {} THEN Min(I) ELSE 0
  BY DEF FirstBad, SelectInSeq
<1>2. CASE n = Len(site.file)
  BY <1>1, <1>2
<1>3. CASE n # Len(site.file) /\ Bad(site.file[n + 1])
  <2>1. I \in SUBSET Nat /\ n + 1 \in I /\ \A i \in I : n + 1 <= i
    BY <1>3
  <2> HIDE DEF I
  <2>2. Min(I) \in I /\ \A i \in I : Min(I) <= i
    BY <2>1, LeastOf
  <2>3. PICK m : m = Min(I)
    OBVIOUS
  <2>4. m \in Nat /\ n + 1 <= m /\ m <= n + 1
    BY <2>1, <2>2, <2>3
  <2>5. m = n + 1 /\ I # {}
    BY <2>1, <2>4
  <2>6. QED
    BY <1>1, <1>3, <2>3, <2>5
<1>4. QED
  BY <1>2, <1>3

\* The server that starts has obeyed the lines before the first bad one, the
\* last of each kind being the one that counts, and none of the others.
THEOREM LinesBeforeErrorObeyed == Spec => []ObeysLinesBeforeError
<1>1. Init => LinesSoFar
  BY DEF Init, LinesSoFar
<1>2. TInv /\ LinesSoFar /\ [Next]_vars => LinesSoFar'
  BY LinesStep
<1>3. TInv /\ LinesSoFar => ObeysLinesBeforeError
  <2> SUFFICES ASSUME TInv, LinesSoFar, oss = "ready" PROVE ObeysLinesBeforeError
    BY DEF ObeysLinesBeforeError
  <2>0. site.file \in Seq(Line) /\ Len(site.file) \in Nat
    BY SiteType DEF TInv, TypeOK
  <2>1. PICK n \in 0 .. Len(site.file) : ReadUpTo(n) /\ lines = <<>>
    BY DEF LinesSoFar
  <2>2. n = Len(site.file) \/ (n < Len(site.file) /\ Bad(site.file[n + 1]))
    <3>1. CASE lines = SubSeq(site.file, n + 1, Len(site.file))
      <4>1. SUFFICES ASSUME n # Len(site.file) PROVE FALSE
        OBVIOUS
      <4>2. PICK f \in Seq(Line) : f = site.file
        BY <2>0
      <4>3. n + 1 \in 1 .. Len(f) /\ Len(f) \in n + 1 .. Len(f)
        BY <2>0, <4>1, <4>2
      <4>4. Len(SubSeq(f, n + 1, Len(f))) = Len(f) - (n + 1) + 1
        BY <4>3, SubSeqProperties
      <4>5. SubSeq(f, n + 1, Len(f)) = <<>>
        BY <2>1, <3>1, <4>2
      <4>6. Len(f) - (n + 1) + 1 = Len(<<>>)
        BY <4>4, <4>5
      <4>7. QED
        BY <4>3, <4>6
    <3>2. QED
      BY <2>1, <3>1 DEF ReadUpTo
  <2>3. IF n = Len(site.file) THEN FirstBad = 0 ELSE FirstBad = n + 1
    BY <2>0, <2>1, <2>2, FirstBadSpec DEF ReadUpTo
  <2>4. PICK read : read = IF FirstBad = 0 THEN 1 .. Len(site.file) ELSE 1 .. FirstBad - 1
    OBVIOUS
  <2>5. read = 1 .. n
    BY <2>0, <2>3, <2>4
  <2>6. \A key : {i \in read : Is(site.file[i], key)} = LinesOf(key, n)
    BY <2>5 DEF LinesOf
  <2>7. SettingsOf(n)
    BY <2>1 DEF ReadUpTo
  <2>8. QED
    BY <2>4, <2>6, <2>7 DEF ObeysLinesBeforeError, SettingsOf, FirstBad
<1>4. TInv /\ [Next]_vars => TInv'
  BY TypeStep
<1>5. QED
  BY InitTypes, <1>1, <1>2, <1>3, <1>4, PTL DEF Spec
-----------------------------------------------------------------------------
(* The stripers                                                            *)

\* The key of a striper is that of the file that made it, and the striper an
\* open got has the key of its own file.
KeysSoFar ==
  /\ \A k \in DOMAIN stripers : Key(stripers[k]) = k
  /\ \A o \in opened : Key(o.served) = Key(o.file.params)

\* A text with the sign after it.  (S stands for STRING: the provers take no
\* literal for a member of that.)
LEMMA WithSign ==
  ASSUME NEW S, "@" \in S, NEW u \in Seq(S)
  PROVE  /\ u \o <<"@">> \in Seq(S) /\ Len(u \o <<"@">>) = Len(u) + 1
         /\ (u \o <<"@">>)[Len(u) + 1] = "@"
         /\ \A i \in 1 .. Len(u) : (u \o <<"@">>)[i] = u[i]
<1>1. PICK c : c = <<"@">>
  OBVIOUS
<1>2. c \in Seq(S) /\ Len(c) = 1 /\ c[1] = "@"
  BY <1>1
<1>3. Len(u) \in Nat
  OBVIOUS
<1>4. /\ u \o c \in Seq(S) /\ Len(u \o c) = Len(u) + 1
      /\ \A i \in 1 .. Len(u) + 1 : (u \o c)[i] = IF i <= Len(u) THEN u[i] ELSE c[i - Len(u)]
  <2> HIDE <1>1
  <2>1. /\ u \o c \in Seq(S) /\ Len(u \o c) = Len(u) + Len(c)
        /\ \A i \in 1 .. Len(u) + Len(c) : (u \o c)[i] = IF i <= Len(u) THEN u[i] ELSE c[i - Len(u)]
    BY <1>2, <1>3, ConcatProperties
  <2>2. QED
    BY <1>2, <2>1
<1>5. (u \o c)[Len(u) + 1] = "@"
  <2>1. Len(u) + 1 \in 1 .. Len(u) + 1 /\ ~(Len(u) + 1 <= Len(u)) /\ Len(u) + 1 - Len(u) = 1
    BY <1>3
  <2>2. QED
    BY <1>2, <1>4, <2>1
<1>6. \A i \in 1 .. Len(u) : (u \o c)[i] = u[i]
  BY <1>3, <1>4
<1>7. QED
  BY <1>1, <1>4, <1>5, <1>6

\* Two texts with one sign each read the same up to it and after it.
LEMMA OneSign ==
  ASSUME NEW S, "@" \in S,
         NEW u \in Seq(S), NEW p \in Seq(S), NEW v \in Seq(S), NEW q \in Seq(S),
         u \o <<"@">> \o p = v \o <<"@">> \o q,
         \A i \in 1 .. Len(u) : u[i] # "@", \A i \in 1 .. Len(v) : v[i] # "@"
  PROVE  u = v /\ p = q
<1> DEFINE s == u \o <<"@">>
           t == v \o <<"@">>
<1>1. /\ s \in Seq(S) /\ Len(s) = Len(u) + 1 /\ s[Len(u) + 1] = "@"
      /\ \A i \in 1 .. Len(u) : s[i] = u[i]
  BY WithSign
<1>2. /\ t \in Seq(S) /\ Len(t) = Len(v) + 1 /\ t[Len(v) + 1] = "@"
      /\ \A i \in 1 .. Len(v) : t[i] = v[i]
  BY WithSign
<1>3. s \o p = t \o q
  OBVIOUS
<1>4. Len(u) \in Nat /\ Len(v) \in Nat /\ Len(p) \in Nat /\ Len(q) \in Nat
  OBVIOUS
<1> HIDE DEF s, t
<1>5. \A i \in 1 .. Len(s) : (s \o p)[i] = s[i]
  BY <1>1, <1>4, ConcatProperties
<1>6. \A i \in 1 .. Len(t) : (s \o p)[i] = t[i]
  BY <1>2, <1>3, <1>4, ConcatProperties
<1>7. Len(u) = Len(v)
  <2>1. CASE Len(u) < Len(v)
    <3>1. Len(u) + 1 \in 1 .. Len(v) /\ Len(u) + 1 \in 1 .. Len(s) /\ Len(u) + 1 \in 1 .. Len(t)
      BY <1>1, <1>2, <1>4, <2>1
    <3>2. v[Len(u) + 1] = "@"
      BY <1>1, <1>2, <1>5, <1>6, <3>1
    <3>3. QED
      BY <3>1, <3>2
  <2>2. CASE Len(v) < Len(u)
    <3>1. Len(v) + 1 \in 1 .. Len(u) /\ Len(v) + 1 \in 1 .. Len(s) /\ Len(v) + 1 \in 1 .. Len(t)
      BY <1>1, <1>2, <1>4, <2>2
    <3>2. u[Len(v) + 1] = "@"
      BY <1>1, <1>2, <1>5, <1>6, <3>1
    <3>3. QED
      BY <3>1, <3>2
  <2>3. QED
    BY <1>4, <2>1, <2>2
<1>8. u = v
  <2>1. \A i \in 1 .. Len(u) : u[i] = v[i]
    BY <1>1, <1>2, <1>4, <1>5, <1>6, <1>7
  <2>2. QED
    BY <1>7, <2>1, SeqEqual
<1>9. p = q
  <2>1. s = t
    BY <1>8 DEF s, t
  <2>2. QED
    BY <1>1, <1>3, <2>1, ConcatSimplifications
<1>10. QED
  BY <1>8, <1>9

\* The key tells the parameters, as long as the users have no such sign.
LEMMA KeyTells ==
  ASSUME NEW a \in Params, NEW b \in Params, Key(a) = Key(b),
         "@" \notin ToSet(a.userId \o b.userId)
  PROVE  a = b
<1>1. /\ a.userId \in Text /\ a.pool \in Text /\ b.userId \in Text /\ b.pool \in Text
  BY DEF Params
<1>2. /\ a.userId \o <<"@">> \o a.pool = b.userId \o <<"@">> \o b.pool
      /\ a.nbStripes = b.nbStripes /\ a.stripeUnit = b.stripeUnit /\ a.objectSize = b.objectSize
  BY DEF Key
<1>3. PICK u \in Text, v \in Text : u = a.userId /\ v = b.userId
  BY <1>1
<1>4. /\ u \o v \in Seq(STRING) /\ Len(u \o v) = Len(u) + Len(v) /\ Len(u) \in Nat /\ Len(v) \in Nat
      /\ \A i \in 1 .. Len(u) + Len(v) : (u \o v)[i] = IF i <= Len(u) THEN u[i] ELSE v[i - Len(u)]
  BY ConcatProperties DEF Text
<1>5. \A i \in 1 .. Len(u) + Len(v) : (u \o v)[i] # "@"
  <2>1. DOMAIN (u \o v) = 1 .. Len(u) + Len(v)
    BY <1>4, LenProperties
  <2>2. "@" \notin {(u \o v)[i] : i \in DOMAIN (u \o v)}
    BY <1>3 DEF ToSet
  <2>3. QED
    BY <2>1, <2>2
<1>6. \A i \in 1 .. Len(u) : u[i] # "@"
  <2> TAKE i \in 1 .. Len(u)
  <2>1. i \in 1 .. Len(u) + Len(v) /\ i <= Len(u)
    BY <1>4
  <2>2. (u \o v)[i] = u[i]
    BY <1>4, <2>1
  <2>3. QED
    BY <1>5, <2>1, <2>2
<1>7. \A i \in 1 .. Len(v) : v[i] # "@"
  <2> TAKE i \in 1 .. Len(v)
  <2>1. PICK j : j = Len(u) + i
    OBVIOUS
  <2>2. j \in 1 .. Len(u) + Len(v) /\ ~(j <= Len(u)) /\ j - Len(u) = i
    BY <1>4, <2>1
  <2>3. (u \o v)[j] = v[i]
    BY <1>4, <2>2
  <2>4. QED
    BY <1>5, <2>2, <2>3
<1>8. a.userId = b.userId /\ a.pool = b.pool
  <2>1. PICK S : S = STRING \cup {"@"}
    OBVIOUS
  <2>2. /\ "@" \in S /\ u \in Seq(S) /\ v \in Seq(S)
        /\ a.pool \in Seq(S) /\ b.pool \in Seq(S)
    BY <1>1, <2>1, SeqMonotonic DEF Text
  <2>3. PICK p, q : p = a.pool /\ q = b.pool
    OBVIOUS
  <2>4. u \o <<"@">> \o p = v \o <<"@">> \o q
    BY <1>2, <1>3, <2>3
  <2>5. p \in Seq(S) /\ q \in Seq(S)
    BY <2>2, <2>3
  <2> HIDE <1>3, <2>3
  <2>6. u = v /\ p = q
    BY <1>6, <1>7, <2>2, <2>4, <2>5, OneSign
  <2>7. QED
    BY <1>3, <2>3, <2>6
<1>9. QED
  BY <1>2, <1>8 DEF Params

\* An open makes the striper of its own key, or takes the one it finds there.
LEMMA KeysStep ==
  ASSUME KeysSoFar, [Next]_vars
  PROVE  KeysSoFar'
<1>1. ASSUME NEW path, NEW env, Open(path, env)
      PROVE  KeysSoFar'
  <2>1. PICK file : file = fillCephFile(path, env, g_defaultParams, g_namelib)
    OBVIOUS
  <2>2. PICK key : key = Key(file.params)
    OBVIOUS
  <2>3. PICK served : served = IF key \in DOMAIN stripers THEN stripers[key] ELSE file.params
    OBVIOUS
  <2>4. /\ stripers' = [k \in DOMAIN stripers \cup {key} |->
                          IF k \in DOMAIN stripers THEN stripers[k] ELSE file.params]
        /\ opened' = opened \cup {[file |-> file, served |-> served]}
    BY <1>1, <2>1, <2>2, <2>3 DEF Open
  <2>5. Key(served) = key
    BY <2>2, <2>3 DEF KeysSoFar
  <2>6. \A k \in DOMAIN stripers' : Key(stripers'[k]) = k
    BY <2>2, <2>4 DEF KeysSoFar
  <2>7. \A o \in opened' : Key(o.served) = Key(o.file.params)
    BY <2>2, <2>4, <2>5 DEF KeysSoFar
  <2>8. QED
    BY <2>6, <2>7 DEF KeysSoFar, Key
<1>2. ASSUME UNCHANGED <<stripers, opened>>
      PROVE  KeysSoFar'
  BY <1>2 DEF KeysSoFar, Key
<1>3. QED
  <2>1. CASE XrdOssGetStorageSystem \/ XrdSysGetXAttrObject
    BY <1>2, <2>1 DEF XrdOssGetStorageSystem, XrdSysGetXAttrObject
  <2>2. CASE BadLine \/ NbConnections \/ NameLib \/ OtherLine \/ Configured
    BY <1>2, <2>2 DEF BadLine, NbConnections, NameLib, OtherLine, Configured
  <2>3. CASE \E path \in Paths, env \in Envs : Open(path, env)
    BY <1>1, <2>3
  <2>4. CASE UNCHANGED vars
    BY <1>2, <2>4 DEF vars
  <2>5. QED
    BY <2>1, <2>2, <2>3, <2>4 DEF Next

\* Every open gets a striper made for its own user, pool and layout, unless a
\* user has the sign that ends it in the key.
THEOREM StripersServeTheirFiles == Spec => []StriperServesItsFile
<1>1. Init => KeysSoFar
  BY DEF Init, KeysSoFar
<1>2. KeysSoFar /\ [Next]_vars => KeysSoFar'
  BY KeysStep
<1>3. TInv /\ KeysSoFar => StriperServesItsFile
  <2> SUFFICES ASSUME TInv, KeysSoFar, NEW o \in opened,
                      "@" \notin ToSet(o.file.params.userId \o o.served.userId)
               PROVE  o.served = o.file.params
    BY DEF StriperServesItsFile
  <2>1. o.file.params \in Params /\ o.served \in Params
    BY DEF TInv, TypeOK
  <2>2. Key(o.file.params) = Key(o.served)
    BY DEF KeysSoFar
  <2>3. QED
    BY <2>1, <2>2, KeyTells
<1>4. TInv /\ [Next]_vars => TInv'
  BY TypeStep
<1>5. QED
  BY InitTypes, <1>1, <1>2, <1>3, <1>4, PTL DEF Spec
-----------------------------------------------------------------------------
(* The documented syntax                                                   *)

\* The tokens of a path.  (The separators are named because the provers do
\* little with the literals, and take none for a member of STRING.)
At == "@"
Comma == ","
Colon == ":"
Tokens == STRING \cup {At, Comma, Colon}

LEMMA TextOfTokens ==
  ASSUME NEW s \in Text
  PROVE  s \in Seq(Tokens)
BY SeqMonotonic DEF Text, Tokens

\* A separator between two texts.
LEMMA WithSeparator ==
  ASSUME NEW c \in Tokens, NEW s \in Seq(Tokens)
  PROVE  /\ <<c>> \o s \in Seq(Tokens) /\ Len(<<c>> \o s) = Len(s) + 1
         /\ (<<c>> \o s)[1] = c
         /\ \A i \in 1 .. Len(s) : (<<c>> \o s)[i + 1] = s[i]
<1>1. PICK t : t = <<c>>
  OBVIOUS
<1>2. t \in Seq(Tokens) /\ Len(t) = 1 /\ t[1] = c
  BY <1>1
<1>3. Len(s) \in Nat
  OBVIOUS
<1> HIDE <1>1
<1>4. /\ t \o s \in Seq(Tokens) /\ Len(t \o s) = Len(t) + Len(s)
      /\ \A i \in 1 .. Len(t) + Len(s) : (t \o s)[i] = IF i <= Len(t) THEN t[i] ELSE s[i - Len(t)]
  BY <1>2, ConcatProperties
<1>5. (t \o s)[1] = c
  BY <1>2, <1>3, <1>4
<1>6. ASSUME NEW i \in 1 .. Len(s) PROVE (t \o s)[i + 1] = s[i]
  <2>1. PICK j : j = i + 1
    OBVIOUS
  <2>2. j \in 1 .. Len(t) + Len(s) /\ ~(j <= Len(t)) /\ j - Len(t) = i
    BY <1>2, <1>3, <2>1
  <2>3. QED
    BY <1>4, <2>1, <2>2
<1>7. QED
  BY <1>1, <1>2, <1>3, <1>4, <1>5, <1>6

\* The first token of a kind after a text that has none, in three parts.
LEMMA FoundAfter ==
  ASSUME NEW c \in Tokens, NEW b \in Seq(Tokens), NEW f \in Seq(Tokens), NEW a \in Seq(Tokens),
         \A i \in 1 .. Len(f) : f[i] # c,
         a # <<>> => a[1] = c
  PROVE  Find(b \o (f \o a), c, Len(b)) = IF a = <<>> THEN NPOS ELSE Len(b) + Len(f)
<1> DEFINE s == b \o (f \o a)
<1>1. Len(a) \in Nat /\ Len(b) \in Nat /\ Len(f) \in Nat /\ f \o a \in Seq(Tokens)
  OBVIOUS
<1>2. /\ Len(f \o a) = Len(f) + Len(a)
      /\ \A i \in 1 .. Len(f) + Len(a) : (f \o a)[i] = IF i <= Len(f) THEN f[i] ELSE a[i - Len(f)]
  BY ConcatProperties
<1>3. PICK r : r = f \o a
  OBVIOUS
<1>4. r \in Seq(Tokens) /\ Len(r) = Len(f) + Len(a)
  BY <1>1, <1>2, <1>3
<1>5. /\ Len(b \o r) = Len(b) + Len(r)
      /\ \A i \in 1 .. Len(b) + Len(r) : (b \o r)[i] = IF i <= Len(b) THEN b[i] ELSE r[i - Len(b)]
  BY <1>4, ConcatProperties
<1>6. \A i \in Len(b) + 1 .. Len(b) + Len(f) : (b \o r)[i] # c
  <2> TAKE i \in Len(b) + 1 .. Len(b) + Len(f)
  <2>1. PICK j : j = i - Len(b)
    OBVIOUS
  <2>2. j \in 1 .. Len(f) /\ j \in 1 .. Len(f) + Len(a) /\ j <= Len(f) /\ ~(i <= Len(b)) /\ i \in 1 .. Len(b) + Len(r)
    BY <1>1, <1>4, <2>1
  <2>3. (b \o r)[i] = f[j]
    BY <1>2, <1>3, <1>5, <2>1, <2>2
  <2>4. QED
    BY <2>2, <2>3
<1>7. PICK s0 : s0 = b \o r
  OBVIOUS
<1>8. /\ Len(s0) = Len(b) + Len(f) + Len(a) /\ Len(s0) \in Nat
      /\ \A i \in Len(b) + 1 .. Len(b) + Len(f) : s0[i] # c
  BY <1>1, <1>4, <1>5, <1>6, <1>7
<1>9. PICK at : at = Find(s0, c, Len(b))
  OBVIOUS
<1>10. IF \E i \in Len(b) + 1 .. Len(s0) : s0[i] = c
         THEN /\ at \in Len(b) .. Len(s0) - 1 /\ s0[at + 1] = c
              /\ \A i \in Len(b) + 1 .. at : s0[i] # c
         ELSE at = NPOS
  <2>1. PICK k : k = Len(b)
    OBVIOUS
  <2>2. k \in 0 .. Len(s0)
    BY <1>1, <1>8, <2>1
  <2>3. IF \E i \in k + 1 .. Len(s0) : s0[i] = c
          THEN /\ Find(s0, c, k) \in k .. Len(s0) - 1 /\ s0[Find(s0, c, k) + 1] = c
               /\ \A i \in k + 1 .. Find(s0, c, k) : s0[i] # c
          ELSE Find(s0, c, k) = NPOS
    BY <1>8, <2>2, FindSpec
  <2>4. QED
    BY <1>9, <2>1, <2>3
<1>11. CASE a = <<>>
  BY <1>1, <1>3, <1>7, <1>8, <1>9, <1>10, <1>11
<1>12. CASE a # <<>>
  <2>1. Len(a) >= 1
    BY <1>12
  <2>2. PICK k : k = Len(b) + Len(f) + 1
    OBVIOUS
  <2>3. k \in Len(b) + 1 .. Len(s0) /\ k \in 1 .. Len(b) + Len(r) /\ ~(k <= Len(b))
    BY <1>1, <1>4, <1>8, <2>1, <2>2
  <2>4. k - Len(b) = Len(f) + 1 /\ Len(f) + 1 \in 1 .. Len(f) + Len(a) /\ Len(f) + 1 - Len(f) = 1
    BY <1>1, <2>1, <2>2
  <2>5. r[Len(f) + 1] = a[1]
    BY <1>1, <1>2, <1>3, <2>4
  <2>6. s0[k] = c
    BY <1>5, <1>7, <1>12, <2>3, <2>4, <2>5
  <2>7. at \in Len(b) .. Len(s0) - 1 /\ s0[at + 1] = c /\ \A i \in Len(b) + 1 .. at : s0[i] # c
    BY <1>10, <2>3, <2>6
  <2>8. ~(k <= at)
    BY <1>1, <1>8, <2>3, <2>6, <2>7
  <2>9. ~(at + 1 < k)
    BY <1>1, <1>8, <2>2, <2>7
  <2>10. at + 1 = k
    BY <1>1, <1>8, <2>2, <2>7, <2>8, <2>9
  <2>11. at = Len(b) + Len(f)
    BY <1>1, <1>8, <2>2, <2>7, <2>10
  <2>12. QED
    BY <1>3, <1>7, <1>9, <1>12, <2>11
<1>13. QED
  BY <1>11, <1>12

\* The middle one of three parts.
LEMMA MiddlePart ==
  ASSUME NEW b \in Seq(Tokens), NEW f \in Seq(Tokens), NEW a \in Seq(Tokens)
  PROVE  Between(b \o (f \o a), Len(b), Len(b) + Len(f)) = f
<1>1. Len(a) \in Nat /\ Len(b) \in Nat /\ Len(f) \in Nat
  OBVIOUS
<1>2. PICK r : r = f \o a
  OBVIOUS
<1>3. /\ r \in Seq(Tokens) /\ Len(r) = Len(f) + Len(a)
      /\ \A i \in 1 .. Len(f) + Len(a) : r[i] = IF i <= Len(f) THEN f[i] ELSE a[i - Len(f)]
  BY <1>2, ConcatProperties
<1>4. PICK s : s = b \o r
  OBVIOUS
<1>5. /\ s \in Seq(Tokens) /\ Len(s) = Len(b) + Len(r)
      /\ \A i \in 1 .. Len(b) + Len(r) : s[i] = IF i <= Len(b) THEN b[i] ELSE r[i - Len(b)]
  <2>1. /\ b \o r \in Seq(Tokens) /\ Len(b \o r) = Len(b) + Len(r)
        /\ \A i \in 1 .. Len(b) + Len(r) : (b \o r)[i] = IF i <= Len(b) THEN b[i] ELSE r[i - Len(b)]
    <3>1. r \in Seq(Tokens)
      BY <1>3
    <3>2. QED
      BY <3>1, ConcatProperties
  <2>2. QED
    BY <1>4, <2>1
<1>6. PICK m, n : m = Len(b) + 1 /\ n = Len(b) + Len(f)
  OBVIOUS
<1>7. m \in Int /\ n \in Int /\ \A i \in m .. n : s[i] \in Tokens
  BY <1>1, <1>3, <1>5, <1>6
<1>8. PICK t : t = SubSeq(s, m, n)
  OBVIOUS
<1>9. /\ t \in Seq(Tokens) /\ Len(t) = IF m <= n THEN n - m + 1 ELSE 0
      /\ \A i \in 1 .. n - m + 1 : t[i] = s[m + i - 1]
  BY <1>7, <1>8, SubSeqProperties
<1>10. Len(t) = Len(f) /\ n - m + 1 = Len(f)
  BY <1>1, <1>6, <1>9
<1>11. ASSUME NEW i \in 1 .. Len(f) PROVE t[i] = f[i]
  <2>1. PICK j : j = m + i - 1
    OBVIOUS
  <2>2. j \in 1 .. Len(b) + Len(r) /\ ~(j <= Len(b)) /\ j - Len(b) = i /\ i \in 1 .. Len(f) + Len(a) /\ i <= Len(f)
    BY <1>1, <1>3, <1>6, <2>1
  <2>3. s[j] = f[i]
    BY <1>3, <1>5, <2>2
  <2>4. QED
    BY <1>9, <1>10, <2>1, <2>3
<1>12. t = f
  BY <1>9, <1>10, <1>11, SeqEqual
<1>13. QED
  BY <1>2, <1>4, <1>6, <1>8, <1>12 DEF Between
\* What is left of s from offset on.
Left(s, offset, r) == \E b \in Seq(Tokens) : s = b \o r /\ offset = Len(b)

\* No token of the text is c.
NoneIn(s, c) == \A i \in 1 .. Len(s) : s[i] # c

LEMMA Separators == {At, Comma, Colon} \subseteq Tokens
BY DEF Tokens

LEMMA TextLength ==
  ASSUME NEW s \in Seq(Tokens)
  PROVE  Len(s) \in Nat /\ (Len(s) = 0 <=> s = <<>>)
OBVIOUS

LEMMA Join ==
  ASSUME NEW s \in Seq(Tokens), NEW t \in Seq(Tokens)
  PROVE  s \o t \in Seq(Tokens) /\ Len(s \o t) = Len(s) + Len(t)
BY ConcatProperties

LEMMA JoinEmpty ==
  ASSUME NEW s \in Seq(Tokens)
  PROVE  s \o <<>> = s /\ <<>> \o s = s /\ <<>> \in Seq(Tokens) /\ Len(<<>>) = 0
BY ConcatEmptySeq

LEMMA Rejoin ==
  ASSUME NEW s \in Seq(Tokens), NEW t \in Seq(Tokens), NEW u \in Seq(Tokens)
  PROVE  (s \o t) \o u = s \o (t \o u)
BY ConcatAssociative

Associates(s, t, u) == (s \o t) \o u = s \o (t \o u)

LEMMA Associate ==
  ASSUME NEW s \in Seq(Tokens), NEW t \in Seq(Tokens), NEW u \in Seq(Tokens)
  PROVE  Associates(s, t, u)
BY Rejoin DEF Associates

AssociateFive(s, t, u, v, w) == s \o t \o u \o v \o w = s \o (t \o (u \o (v \o w)))

LEMMA RejoinFive ==
  ASSUME NEW s \in Seq(Tokens), NEW t \in Seq(Tokens), NEW u \in Seq(Tokens),
         NEW v \in Seq(Tokens), NEW w \in Seq(Tokens)
  PROVE  AssociateFive(s, t, u, v, w)
<1>1. PICK st \in Seq(Tokens) : st = s \o t
  BY Join
<1>2. PICK stu \in Seq(Tokens) : stu = st \o u
  BY Join
<1>3. PICK vw \in Seq(Tokens) : vw = v \o w
  BY Join
<1>4. PICK uvw \in Seq(Tokens) : uvw = u \o vw
  BY Join
<1>5. Associates(stu, v, w) /\ Associates(st, u, vw) /\ Associates(s, t, uvw)
  BY Associate
<1>6. (stu \o v) \o w = st \o uvw
  BY <1>2, <1>3, <1>4, <1>5 DEF Associates
<1>7. st \o uvw = s \o (t \o uvw)
  BY <1>1, <1>5 DEF Associates
<1>8. QED
  BY <1>1, <1>2, <1>3, <1>4, <1>6, <1>7 DEF AssociateFive

LEMMA OneToken ==
  ASSUME NEW c \in Tokens
  PROVE  <<c>> \in Seq(Tokens) /\ Len(<<c>>) = 1
OBVIOUS

\* After a field there is nothing, or a comma and what follows it.
CommaThen(a, r) == \/ a = <<>> /\ r = <<>>
                   \/ a = <<Comma>> \o r

LEMMA CommaFirst ==
  ASSUME NEW a \in Seq(Tokens), NEW r \in Seq(Tokens), CommaThen(a, r)
  PROVE  IF a = <<>> THEN r = <<>> ELSE a = <<Comma>> \o r /\ a[1] = Comma
<1>1. PICK b : b = <<Comma>> \o r
  OBVIOUS
<1>2. Len(b) = Len(r) + 1 /\ b[1] = Comma /\ b \in Seq(Tokens)
  BY <1>1, Separators, WithSeparator
<1>3. b # <<>>
  BY <1>2, TextLength
<1>4. QED
  BY <1>1, <1>2, <1>3 DEF CommaThen

\* A field is read up to the comma, or to the end.
LEMMA FieldRead ==
  ASSUME NEW s, NEW offset, NEW f \in Seq(Tokens), NEW a \in Seq(Tokens), NEW r \in Seq(Tokens),
         Left(s, offset, f \o a), NoneIn(f, Comma), CommaThen(a, r),
         NEW key, NEW env, NEW dflt
  PROVE  /\ fillField(s, offset, key, env, dflt).value
              = IF f = <<>> /\ a = <<>> THEN FromEnv(env, key, dflt) ELSE Converted(key, f)
         /\ Left(s, fillField(s, offset, key, env, dflt).next, r)
<1>1. PICK b \in Seq(Tokens) : s = b \o (f \o a) /\ offset = Len(b)
  BY DEF Left
<1>2. Len(a) \in Nat /\ Len(b) \in Nat /\ Len(f) \in Nat
  BY TextLength
<1>3. s \in Seq(Tokens) /\ Len(s) = Len(b) + (Len(f) + Len(a))
  BY <1>1, Join
<1>4. IF a = <<>> THEN r = <<>> ELSE a = <<Comma>> \o r /\ a[1] = Comma
  BY CommaFirst
<1>5. Find(s, Comma, offset) = IF a = <<>> THEN NPOS ELSE Len(b) + Len(f)
  <2>1. \A i \in 1 .. Len(f) : f[i] # Comma
    BY DEF NoneIn
  <2>2. a # <<>> => a[1] = Comma
    BY <1>4
  <2>3. Find(b \o (f \o a), Comma, Len(b)) = IF a = <<>> THEN NPOS ELSE Len(b) + Len(f)
    BY <2>1, <2>2, FoundAfter, Separators
  <2>4. QED
    BY <1>1, <2>3
<1>6. Between(s, offset, Len(b) + Len(f)) = f
  BY <1>1, MiddlePart
<1> DEFINE field == fillField(s, offset, key, env, dflt)
<1>7. CASE a = <<>>
  <2>1. Len(a) = 0 /\ r = <<>>
    BY <1>4, <1>7, TextLength
  <2>2. field = [value |-> IF Len(s) = offset THEN FromEnv(env, key, dflt)
                           ELSE Converted(key, Between(s, offset, Len(s))),
                 next |-> Len(s)]
    BY <1>5, <1>7 DEF fillField, Comma
  <2>3. Len(s) = Len(b) + Len(f)
    BY <1>2, <1>3, <2>1
  <2>4. Len(s) = offset <=> f = <<>>
    <3>1. Len(f) = 0 <=> f = <<>>
      BY TextLength
    <3>2. Len(b) + Len(f) = Len(b) <=> Len(f) = 0
      BY <1>2
    <3>3. QED
      BY <1>1, <2>3, <3>1, <3>2
  <2>5. Left(s, Len(s), <<>>)
    BY <1>3, JoinEmpty DEF Left
  <2> HIDE DEF field
  <2>6. field.next = Len(s) /\ field.value = IF Len(s) = offset THEN FromEnv(env, key, dflt)
                                              ELSE Converted(key, Between(s, offset, Len(s)))
    BY <2>2
  <2>7. field.value = IF f = <<>> THEN FromEnv(env, key, dflt) ELSE Converted(key, f)
    BY <1>6, <2>3, <2>4, <2>6
  <2>8. QED
    BY <1>7, <2>1, <2>5, <2>6, <2>7 DEF field
<1>8. CASE a # <<>>
  <2>1. field = [value |-> Converted(key, Between(s, offset, Len(b) + Len(f))),
                 next |-> Len(b) + Len(f) + 1]
    <3>1. PICK n \in Nat : n = Len(b) + Len(f)
      BY <1>2
    <3>2. Find(s, Comma, offset) = n /\ n # NPOS
      BY <1>5, <1>8, <3>1 DEF NPOS
    <3>3. QED
      BY <3>1, <3>2 DEF fillField, Comma
  <2>2. PICK c \in Seq(Tokens) : c = <<Comma>> /\ Len(c) = 1
    BY OneToken, Separators
  <2>3. a = c \o r
    BY <1>4, <1>8, <2>2
  <2>4. PICK g \in Seq(Tokens) : g = f \o c /\ Len(g) = Len(f) + 1
    BY <2>2, Join
  <2>5. f \o a = g \o r
    <3>1. Associates(f, c, r)
      BY Associate
    <3>2. QED
      BY <2>3, <2>4, <3>1 DEF Associates
  <2>6. b \o g \in Seq(Tokens) /\ Len(b \o g) = Len(b) + (Len(f) + 1) /\ s = (b \o g) \o r
    <3>1. b \o g \in Seq(Tokens) /\ Len(b \o g) = Len(b) + Len(g)
      BY Join
    <3>2. Associates(b, g, r)
      BY Associate
    <3>3. s = (b \o g) \o r
      BY <1>1, <2>5, <3>2 DEF Associates
    <3>4. QED
      BY <2>4, <3>1, <3>3
  <2>7. Left(s, Len(b) + Len(f) + 1, r)
    <3>1. Len(b) + (Len(f) + 1) = Len(b) + Len(f) + 1
      BY <1>2
    <3>2. QED
      BY <2>6, <3>1 DEF Left
  <2> HIDE DEF field
  <2>8. field.next = Len(b) + Len(f) + 1 /\ field.value = Converted(key, f)
    BY <1>6, <2>1
  <2>9. QED
    BY <1>8, <2>7, <2>8 DEF field
<1>9. QED
  BY <1>7, <1>8

\* The last field is what is left.
LEMMA SizeRead ==
  ASSUME NEW s, NEW offset, NEW r \in Seq(Tokens), Left(s, offset, r), NEW env, NEW dflt
  PROVE  fillCephObjectSize(s, offset, env, dflt)
           = IF r = <<>> THEN FromEnv(env, "cephObjectSize", dflt) ELSE stoull(r)
<1>1. PICK b \in Seq(Tokens) : s = b \o r /\ offset = Len(b)
  BY DEF Left
<1>2. Len(s) = Len(b) + Len(r) /\ Len(b) \in Nat /\ Len(r) \in Nat
  BY <1>1, ConcatProperties
<1>3. Len(s) = offset <=> r = <<>>
  <2>1. Len(r) = 0 <=> r = <<>>
    OBVIOUS
  <2>2. QED
    BY <1>1, <1>2, <2>1
<1>4. Between(s, offset, Len(s)) = r
  <2>1. r \o <<>> = r /\ <<>> \in Seq(Tokens)
    BY ConcatEmptySeq
  <2>2. PICK e \in Seq(Tokens) : e = <<>>
    BY <2>1
  <2>3. Between(b \o (r \o e), Len(b), Len(b) + Len(r)) = r
    BY MiddlePart
  <2>4. QED
    BY <1>1, <1>2, <2>1, <2>2, <2>3
<1>5. QED
  BY <1>3, <1>4 DEF fillCephObjectSize

\* The user is read up to its sign, and is missing without one.
LEMMA UserRead ==
  ASSUME NEW u \in Seq(Tokens), NEW r \in Seq(Tokens), NoneIn(u, At), NEW env, NEW dflt
  PROVE  /\ fillCephUserId(u \o (<<At>> \o r), env, dflt).value = u
         /\ Left(u \o (<<At>> \o r), fillCephUserId(u \o (<<At>> \o r), env, dflt).next, r)
<1>1. PICK e : e = <<>>
  OBVIOUS
<1>2. e \in Seq(Tokens) /\ Len(e) = 0 /\ At \in Tokens /\ Len(u) \in Nat
  BY <1>1, JoinEmpty, TextLength, Separators
<1>3. PICK a : a = <<At>> \o r
  OBVIOUS
<1>4. a \in Seq(Tokens) /\ a[1] = At /\ a # <<>>
  <2>1. a \in Seq(Tokens) /\ a[1] = At /\ Len(a) = Len(r) + 1
    BY <1>2, <1>3, WithSeparator
  <2>2. Len(r) \in Nat /\ Len(<<>>) = 0
    OBVIOUS
  <2>3. QED
    BY <2>1, <2>2
<1>5. PICK s : s = u \o a
  OBVIOUS
<1>6. u \o a \in Seq(Tokens)
  BY <1>4, ConcatProperties
<1>7. e \o (u \o a) = s
  BY <1>1, <1>5, <1>6, ConcatEmptySeq
<1>8. Find(s, At, 0) = Len(u)
  <2>1. \A i \in 1 .. Len(u) : u[i] # At
    BY DEF NoneIn
  <2>2. PICK x : x = Find(e \o (u \o a), At, Len(e))
    OBVIOUS
  <2>3. (a # <<>> => a[1] = At) /\ e \in Seq(Tokens) /\ a \in Seq(Tokens) /\ At \in Tokens
    BY <1>2, <1>4
  <2>4. x = IF a = <<>> THEN NPOS ELSE Len(e) + Len(u)
    BY <2>1, <2>2, <2>3, FoundAfter
  <2>5. x = Find(s, At, 0)
    BY <1>2, <1>7, <2>2
  <2>6. QED
    BY <1>2, <1>4, <2>4, <2>5
<1>9. Between(s, 0, Len(u)) = u
  <2>1. Between(e \o (u \o a), Len(e), Len(e) + Len(u)) = u
    BY <1>2, <1>4, MiddlePart
  <2>2. QED
    BY <1>2, <1>7, <2>1
<1>10. fillCephUserId(s, env, dflt) = [value |-> u, next |-> Len(u) + 1]
  BY <1>2, <1>8, <1>9 DEF fillCephUserId, NPOS, At
<1>11. Left(s, Len(u) + 1, r)
  <2>1. PICK c \in Seq(Tokens) : c = <<At>> /\ Len(c) = 1
    BY <1>2, OneToken
  <2>2. a = c \o r
    BY <1>3, <2>1
  <2>3. u \o c \in Seq(Tokens) /\ Len(u \o c) = Len(u) + 1 /\ s = (u \o c) \o r
    <3>1. Associates(u, c, r)
      BY <2>1, Associate
    <3>2. u \o c \in Seq(Tokens) /\ Len(u \o c) = Len(u) + Len(c)
      BY Join
    <3>3. QED
      BY <1>5, <2>1, <2>2, <3>1, <3>2 DEF Associates
  <2>4. QED
    BY <2>3 DEF Left
<1>12. s = u \o (<<At>> \o r)
  BY <1>3, <1>5
<1>13. fillCephUserId(s, env, dflt).value = u /\ fillCephUserId(s, env, dflt).next = Len(u) + 1
  BY <1>10
<1>14. QED
  BY <1>11, <1>12, <1>13

LEMMA NoUserRead ==
  ASSUME NEW s \in Seq(Tokens), NoneIn(s, At), NEW env, NEW dflt
  PROVE  /\ fillCephUserId(s, env, dflt).value = FromEnv(env, "cephUserId", dflt)
         /\ Left(s, fillCephUserId(s, env, dflt).next, s)
<1>1. Len(s) \in Nat
  OBVIOUS
<1>2. Find(s, At, 0) = NPOS
  <2>1. 0 \in 0 .. Len(s) /\ ~ \E i \in 0 + 1 .. Len(s) : s[i] = At
    BY <1>1 DEF NoneIn
  <2>2. QED
    BY <1>1, <2>1, FindSpec
<1>3. fillCephUserId(s, env, dflt) = [value |-> FromEnv(env, "cephUserId", dflt), next |-> 0]
  BY <1>2 DEF fillCephUserId, NPOS, At
<1>4. <<>> \in Seq(Tokens) /\ Len(<<>>) = 0 /\ <<>> \o s = s
  BY ConcatEmptySeq
<1>5. Left(s, 0, s)
  BY <1>4 DEF Left
<1>6. QED
  BY <1>3, <1>5
\* A numeral that fits is converted to its number.
LEMMA NumeralRead ==
  ASSUME NEW n \in Text, IsNumeral(n), Decimal(n) < NbLong
  PROVE  stoull(n) = Decimal(n)
<1>1. NbLong \in Nat /\ Decimal(n) \in Nat
  BY ParamsAssumption, DecimalType
<1>2. ~(Len(n) > 1 /\ n[1] = "-")
  <2>1. SUFFICES ASSUME Len(n) > 1, n[1] = "-" PROVE FALSE
    OBVIOUS
  <2>2. 1 \in 1 .. Len(n)
    BY <2>1 DEF Text
  <2>3. n[1] \in ToSet(Digits)
    BY <2>2 DEF IsNumeral
  <2>4. QED
    BY <2>1, <2>3 DEF ToSet, Digits
<1>3. ~(Decimal(n) >= NbLong)
  BY <1>1
<1>4. QED
  BY <1>2, <1>3 DEF stoull

LEMMA SmallNumeralRead ==
  ASSUME NEW n \in Text, IsNumeral(n), Decimal(n) < NbInt
  PROVE  stoui(n) = Decimal(n) /\ stoull(n) = Decimal(n)
<1>1. NbLong \in Nat /\ NbInt \in Nat /\ NbInt <= NbLong /\ Decimal(n) \in Nat
  BY ParamsAssumption, DecimalType
<1>2. Decimal(n) < NbLong
  BY <1>1
<1>3. stoull(n) = Decimal(n)
  BY <1>2, NumeralRead
<1>4. QED
  BY <1>3 DEF stoui

\* The numerals of the fields fit.
Fits(key, n) ==
  n \in Text /\ IsNumeral(n) /\ Decimal(n) < IF key = "cephNbStripes" THEN NbInt ELSE NbLong

Layouts == {"cephNbStripes", "cephStripeUnit", "cephObjectSize"}

LEMMA LayoutRead ==
  ASSUME NEW key \in Layouts, NEW n, Fits(key, n)
  PROVE  Converted(key, n) = Meaning(key, n)
<1>1. CASE key = "cephNbStripes"
  BY <1>1, SmallNumeralRead DEF Fits, Converted, Meaning
<1>2. CASE key \in {"cephStripeUnit", "cephObjectSize"}
  BY <1>2, NumeralRead DEF Fits, Converted, Meaning
<1>3. QED
  BY <1>1, <1>2 DEF Layouts

\* An entry of the environment means the same to both.
LEMMA EnvRead ==
  ASSUME NEW env, IsEnv(env), IsDocumentedEnv(env), NEW key \in Keys, NEW dflt
  PROVE  FromEnv(env, key, dflt) = FirstDefined(<<>>, env, key, dflt)
<1>1. FirstDefined(<<>>, env, key, dflt) = IF key \in DOMAIN env THEN Meaning(key, env[key]) ELSE dflt
  BY DEF FirstDefined
<1>2. ASSUME key \in DOMAIN env
      PROVE  Converted(key, env[key]) = Meaning(key, env[key])
  <2>1. CASE key \in {"cephUserId", "cephPool"}
    BY <2>1 DEF Converted, Meaning
  <2>2. CASE key \notin {"cephUserId", "cephPool"}
    <3>1. Fits(key, env[key]) /\ key \in Layouts
      BY <1>2, <2>2 DEF IsEnv, IsDocumentedEnv, Fits, Keys, Layouts
    <3>2. QED
      BY <3>1, LayoutRead
  <2>3. QED
    BY <2>1, <2>2
<1>3. QED
  BY <1>1, <1>2 DEF FromEnv

\* A numeral has no separator.
LEMMA NumeralHasNone ==
  ASSUME NEW n \in Text, IsNumeral(n)
  PROVE  NoneIn(n, At) /\ NoneIn(n, Comma) /\ NoneIn(n, Colon)
<1>1. At \notin ToSet(Digits) /\ Comma \notin ToSet(Digits) /\ Colon \notin ToSet(Digits)
  <2>1. ToSet(Digits) = {"0", "1", "2", "3", "4", "5", "6", "7", "8", "9"}
    BY DEF ToSet, Digits
  <2>2. At \notin ToSet(Digits)
    BY <2>1, Zenon DEF At
  <2>3. Comma \notin ToSet(Digits)
    BY <2>1, Zenon DEF Comma
  <2>4. Colon \notin ToSet(Digits)
    BY <2>1, Zenon DEF Colon
  <2>5. QED
    BY <2>2, <2>3, <2>4
<1>2. QED
  BY <1>1 DEF IsNumeral, NoneIn
\* The numerals of a layout.
IsLayout(l) == Len(l) \in 0 .. 3 /\ \A i \in 1 .. Len(l) :
                 l[i] # <<>> /\ Fits(CASE i = 1 -> "cephNbStripes" [] i = 2 -> "cephStripeUnit"
                                       [] OTHER -> "cephObjectSize", l[i])

Given(l, i) == IF i <= Len(l) THEN <<l[i]>> ELSE <<>>

\* What is left from the i-th numeral on, and what is left after the i-th field.
Rest3(l) == IF 3 <= Len(l) THEN l[3] ELSE <<>>
After2(l) == IF 3 <= Len(l) THEN <<Comma>> \o Rest3(l) ELSE <<>>
Rest2(l) == IF 2 <= Len(l) THEN l[2] \o After2(l) ELSE <<>>
After1(l) == IF 2 <= Len(l) THEN <<Comma>> \o Rest2(l) ELSE <<>>
Rest1(l) == IF 1 <= Len(l) THEN l[1] \o After1(l) ELSE <<>>
After0(l) == IF 1 <= Len(l) THEN <<Comma>> \o Rest1(l) ELSE <<>>

\* Texts that have neither the sign of the user nor the colon.
Plain(s) == s \in Seq(Tokens) /\ NoneIn(s, At) /\ NoneIn(s, Colon)

LEMMA NoneInJoin ==
  ASSUME NEW c, NEW s \in Seq(Tokens), NEW t \in Seq(Tokens), NoneIn(s, c), NoneIn(t, c)
  PROVE  NoneIn(s \o t, c)
<1>1. Len(s) \in Nat /\ Len(t) \in Nat
  BY TextLength
<1>2. /\ Len(s \o t) = Len(s) + Len(t)
      /\ \A i \in 1 .. Len(s) + Len(t) : (s \o t)[i] = IF i <= Len(s) THEN s[i] ELSE t[i - Len(s)]
  BY ConcatProperties
<1>3. \A i \in 1 .. Len(s) : s[i] # c
  BY DEF NoneIn
<1>4. \A i \in 1 .. Len(t) : t[i] # c
  BY DEF NoneIn
<1>5. \A i \in 1 .. Len(s) + Len(t) : (s \o t)[i] # c
  <2> TAKE i \in 1 .. Len(s) + Len(t)
  <2>1. CASE i <= Len(s)
    BY <1>1, <1>2, <1>3, <2>1
  <2>2. CASE ~(i <= Len(s))
    <3>1. i - Len(s) \in 1 .. Len(t)
      BY <1>1, <2>2
    <3>2. QED
      BY <1>2, <1>4, <2>2, <3>1
  <2>3. QED
    BY <2>1, <2>2
<1>6. QED
  BY <1>2, <1>5 DEF NoneIn

LEMMA PlainJoin ==
  ASSUME NEW s, NEW t, Plain(s), Plain(t)
  PROVE  Plain(s \o t)
BY Join, NoneInJoin DEF Plain

LEMMA PlainEmpty == Plain(<<>>)
<1>1. PICK e \in Seq(Tokens) : e = <<>> /\ Len(e) = 0
  <2>1. <<>> \in Seq(Tokens) /\ Len(<<>>) = 0
    OBVIOUS
  <2>2. QED
    BY <2>1
<1>2. NoneIn(e, At) /\ NoneIn(e, Colon)
  BY <1>1 DEF NoneIn
<1>3. QED
  BY <1>1, <1>2 DEF Plain

LEMMA PlainComma == Plain(<<Comma>>)
<1>1. PICK e \in Seq(Tokens) : e = <<Comma>> /\ Len(e) = 1
  BY OneToken, Separators
<1>2. e[1] = Comma
  BY <1>1
<1>3. Comma # At /\ Comma # Colon
  BY Zenon DEF At, Comma, Colon
<1>4. NoneIn(e, At) /\ NoneIn(e, Colon)
  BY <1>1, <1>2, <1>3 DEF NoneIn
<1>5. QED
  BY <1>1, <1>4 DEF Plain

LEMMA LayoutNumerals ==
  ASSUME NEW l, IsLayout(l), NEW i \in 1 .. Len(l)
  PROVE  /\ Plain(l[i]) /\ NoneIn(l[i], Comma) /\ l[i] # <<>> /\ l[i] \in Text
         /\ i = 1 => Fits("cephNbStripes", l[i])
         /\ i = 2 => Fits("cephStripeUnit", l[i])
         /\ i = 3 => Fits("cephObjectSize", l[i])
<1>1. l[i] # <<>> /\ Len(l) \in 0 .. 3
  BY DEF IsLayout
<1>2. /\ i = 1 => Fits("cephNbStripes", l[i])
      /\ i = 2 => Fits("cephStripeUnit", l[i])
      /\ i = 3 => Fits("cephObjectSize", l[i])
  BY DEF IsLayout
<1>3. i \in {1, 2, 3}
  BY <1>1
<1>4. l[i] \in Text /\ IsNumeral(l[i])
  BY <1>2, <1>3 DEF Fits
<1>5. Plain(l[i]) /\ NoneIn(l[i], Comma)
  BY <1>4, TextOfTokens, NumeralHasNone DEF Plain
<1>6. QED
  BY <1>1, <1>2, <1>4, <1>5

LEMMA LayoutTexts ==
  ASSUME NEW l, IsLayout(l)
  PROVE  /\ Plain(Rest3(l)) /\ Plain(After2(l)) /\ Plain(Rest2(l))
         /\ Plain(After1(l)) /\ Plain(Rest1(l)) /\ Plain(After0(l))
<1>0. Len(l) \in 0 .. 3 /\ \A i \in 1 .. Len(l) : Plain(l[i])
  BY LayoutNumerals DEF IsLayout
<1>1. /\ 1 <= Len(l) => Plain(l[1])
      /\ 2 <= Len(l) => Plain(l[2])
      /\ 3 <= Len(l) => Plain(l[3])
  BY <1>0
<1>2. Plain(Rest3(l))
  BY <1>1, PlainEmpty DEF Rest3
<1>3. Plain(After2(l))
  BY <1>2, PlainEmpty, PlainComma, PlainJoin DEF After2
<1>4. Plain(Rest2(l))
  BY <1>1, <1>3, PlainEmpty, PlainJoin DEF Rest2
<1>5. Plain(After1(l))
  BY <1>4, PlainEmpty, PlainComma, PlainJoin DEF After1
<1>6. Plain(Rest1(l))
  BY <1>1, <1>5, PlainEmpty, PlainJoin DEF Rest1
<1>7. Plain(After0(l))
  BY <1>6, PlainEmpty, PlainComma, PlainJoin DEF After0
<1>8. QED
  BY <1>2, <1>3, <1>4, <1>5, <1>6, <1>7

\* A field of the layout that is not the last.
LEMMA LayoutFieldRead ==
  ASSUME NEW n \in Seq(Tokens), NEW given \in BOOLEAN,
         NEW a \in Seq(Tokens), NEW r \in Seq(Tokens), CommaThen(a, r), ~given => a = <<>>,
         NEW s, NEW offset, Left(s, offset, IF given THEN n \o a ELSE <<>>),
         NEW key \in Layouts, given => n # <<>> /\ NoneIn(n, Comma) /\ Fits(key, n),
         NEW env, IsEnv(env), IsDocumentedEnv(env), NEW dflt
  PROVE  /\ fillField(s, offset, key, env, dflt).value
              = FirstDefined(IF given THEN <<n>> ELSE <<>>, env, key, dflt)
         /\ Left(s, fillField(s, offset, key, env, dflt).next, r)
<1>1. CASE given
  <2>1. /\ fillField(s, offset, key, env, dflt).value = Converted(key, n)
        /\ Left(s, fillField(s, offset, key, env, dflt).next, r)
    BY <1>1, FieldRead
  <2>2. Converted(key, n) = Meaning(key, n)
    BY <1>1, LayoutRead
  <2>3. FirstDefined(<<n>>, env, key, dflt) = Meaning(key, n)
    BY DEF FirstDefined
  <2>4. QED
    BY <1>1, <2>1, <2>2, <2>3
<1>2. CASE ~given
  <2>1. PICK e \in Seq(Tokens) : e = <<>> /\ e \o a = <<>>
    BY <1>2, JoinEmpty
  <2>2. NoneIn(e, Comma)
    <3>1. Len(e) = 0
      BY <2>1, TextLength
    <3>2. QED
      BY <3>1 DEF NoneIn
  <2>3. Left(s, offset, e \o a)
    BY <1>2, <2>1
  <2>4. /\ fillField(s, offset, key, env, dflt).value = FromEnv(env, key, dflt)
        /\ Left(s, fillField(s, offset, key, env, dflt).next, r)
    <3>1. /\ fillField(s, offset, key, env, dflt).value
               = IF e = <<>> /\ a = <<>> THEN FromEnv(env, key, dflt) ELSE Converted(key, e)
          /\ Left(s, fillField(s, offset, key, env, dflt).next, r)
      BY <2>2, <2>3, FieldRead
    <3>2. QED
      BY <1>2, <2>1, <3>1
  <2>5. FromEnv(env, key, dflt) = FirstDefined(<<>>, env, key, dflt)
    BY EnvRead DEF Layouts, Keys
  <2>6. QED
    BY <1>2, <2>4, <2>5
<1>3. QED
  BY <1>1, <1>2
\* The pool p and the layout l, read one field after the other from offset on.
RestAsDocumented(l, p, s, offset, env, dflt) ==
  LET pool == fillField(s, offset, "cephPool", env, dflt.pool)
      nb == fillField(s, pool.next, "cephNbStripes", env, dflt.nbStripes)
      unit == fillField(s, nb.next, "cephStripeUnit", env, dflt.stripeUnit)
  IN  /\ pool.value = FirstDefined(IF p = <<>> THEN <<>> ELSE <<p>>, env, "cephPool", dflt.pool)
      /\ nb.value = FirstDefined(Given(l, 1), env, "cephNbStripes", dflt.nbStripes)
      /\ unit.value = FirstDefined(Given(l, 2), env, "cephStripeUnit", dflt.stripeUnit)
      /\ fillCephObjectSize(s, unit.next, env, dflt.objectSize)
           = FirstDefined(Given(l, 3), env, "cephObjectSize", dflt.objectSize)

LEMMA RestRead ==
  ASSUME NEW l, IsLayout(l), NEW p \in Seq(Tokens), NoneIn(p, Comma), p = <<>> => Len(l) = 0,
         NEW s, NEW offset, Left(s, offset, p \o After0(l)),
         NEW env, IsEnv(env), IsDocumentedEnv(env), NEW dflt
  PROVE  RestAsDocumented(l, p, s, offset, env, dflt)
<1> DEFINE pool == fillField(s, offset, "cephPool", env, dflt.pool)
           nb == fillField(s, pool.next, "cephNbStripes", env, dflt.nbStripes)
           unit == fillField(s, nb.next, "cephStripeUnit", env, dflt.stripeUnit)
<1>1. Len(l) \in 0 .. 3
  BY DEF IsLayout
<1>2. /\ Rest3(l) \in Seq(Tokens) /\ After2(l) \in Seq(Tokens) /\ Rest2(l) \in Seq(Tokens)
      /\ After1(l) \in Seq(Tokens) /\ Rest1(l) \in Seq(Tokens) /\ After0(l) \in Seq(Tokens)
  BY LayoutTexts DEF Plain
<1>3. CommaThen(After0(l), Rest1(l)) /\ CommaThen(After1(l), Rest2(l)) /\ CommaThen(After2(l), Rest3(l))
  BY DEF CommaThen, After0, Rest1, After1, Rest2, After2, Rest3
<1>4. /\ pool.value = FirstDefined(IF p = <<>> THEN <<>> ELSE <<p>>, env, "cephPool", dflt.pool)
      /\ Left(s, pool.next, Rest1(l))
  <2>1. /\ pool.value = IF p = <<>> /\ After0(l) = <<>> THEN FromEnv(env, "cephPool", dflt.pool)
                        ELSE Converted("cephPool", p)
        /\ Left(s, pool.next, Rest1(l))
    BY <1>2, <1>3, FieldRead
  <2>2. p = <<>> => After0(l) = <<>>
    BY DEF After0
  <2>3. Converted("cephPool", p) = p /\ FirstDefined(<<p>>, env, "cephPool", dflt.pool) = p
    BY DEF Converted, FirstDefined, Meaning
  <2>4. FromEnv(env, "cephPool", dflt.pool) = FirstDefined(<<>>, env, "cephPool", dflt.pool)
    BY EnvRead DEF Keys
  <2> HIDE DEF pool
  <2>5. QED
    BY <2>1, <2>2, <2>3, <2>4
<1> HIDE DEF pool
<1>5. /\ nb.value = FirstDefined(Given(l, 1), env, "cephNbStripes", dflt.nbStripes)
      /\ Left(s, nb.next, Rest2(l))
  <2>1. PICK n : n = IF 1 <= Len(l) THEN l[1] ELSE <<>>
    OBVIOUS
  <2>2. /\ n \in Seq(Tokens)
        /\ 1 <= Len(l) => n # <<>> /\ NoneIn(n, Comma) /\ Fits("cephNbStripes", n)
    BY <1>1, <2>1, LayoutNumerals, JoinEmpty DEF Plain
  <2>3. Left(s, pool.next, IF 1 <= Len(l) THEN n \o After1(l) ELSE <<>>)
    BY <1>4, <2>1 DEF Rest1
  <2>4. ~(1 <= Len(l)) => After1(l) = <<>>
    BY <1>1 DEF After1
  <2>5. PICK given \in BOOLEAN : given <=> 1 <= Len(l)
    OBVIOUS
  <2>6. /\ nb.value = FirstDefined(IF given THEN <<n>> ELSE <<>>, env, "cephNbStripes", dflt.nbStripes)
        /\ Left(s, nb.next, Rest2(l))
    <3>1. /\ CommaThen(After1(l), Rest2(l)) /\ (~given => After1(l) = <<>>)
          /\ Left(s, pool.next, IF given THEN n \o After1(l) ELSE <<>>)
          /\ given => n # <<>> /\ NoneIn(n, Comma) /\ Fits("cephNbStripes", n)
      BY <1>3, <2>2, <2>3, <2>4, <2>5
    <3>2. "cephNbStripes" \in Layouts
      BY DEF Layouts
    <3>3. \A d : /\ fillField(s, pool.next, "cephNbStripes", env, d).value
                       = FirstDefined(IF given THEN <<n>> ELSE <<>>, env, "cephNbStripes", d)
                /\ Left(s, fillField(s, pool.next, "cephNbStripes", env, d).next, Rest2(l))
      BY <1>2, <2>2, <3>1, <3>2, LayoutFieldRead
    <3>4. QED
      BY <3>3 DEF nb
  <2>7. (IF given THEN <<n>> ELSE <<>>) = Given(l, 1)
    BY <2>1, <2>5 DEF Given
  <2>8. QED
    BY <2>6, <2>7
<1> HIDE DEF nb
<1>6. /\ unit.value = FirstDefined(Given(l, 2), env, "cephStripeUnit", dflt.stripeUnit)
      /\ Left(s, unit.next, Rest3(l))
  <2>1. PICK n : n = IF 2 <= Len(l) THEN l[2] ELSE <<>>
    OBVIOUS
  <2>2. /\ n \in Seq(Tokens)
        /\ 2 <= Len(l) => n # <<>> /\ NoneIn(n, Comma) /\ Fits("cephStripeUnit", n)
    BY <1>1, <2>1, LayoutNumerals, JoinEmpty DEF Plain
  <2>3. Left(s, nb.next, IF 2 <= Len(l) THEN n \o After2(l) ELSE <<>>)
    BY <1>5, <2>1 DEF Rest2
  <2>4. ~(2 <= Len(l)) => After2(l) = <<>>
    BY <1>1 DEF After2
  <2>5. PICK given \in BOOLEAN : given <=> 2 <= Len(l)
    OBVIOUS
  <2>6. /\ unit.value = FirstDefined(IF given THEN <<n>> ELSE <<>>, env, "cephStripeUnit", dflt.stripeUnit)
        /\ Left(s, unit.next, Rest3(l))
    <3>1. /\ CommaThen(After2(l), Rest3(l)) /\ (~given => After2(l) = <<>>)
          /\ Left(s, nb.next, IF given THEN n \o After2(l) ELSE <<>>)
          /\ given => n # <<>> /\ NoneIn(n, Comma) /\ Fits("cephStripeUnit", n)
      BY <1>3, <2>2, <2>3, <2>4, <2>5
    <3>2. "cephStripeUnit" \in Layouts
      BY DEF Layouts
    <3>3. \A d : /\ fillField(s, nb.next, "cephStripeUnit", env, d).value
                       = FirstDefined(IF given THEN <<n>> ELSE <<>>, env, "cephStripeUnit", d)
                /\ Left(s, fillField(s, nb.next, "cephStripeUnit", env, d).next, Rest3(l))
      BY <1>2, <2>2, <3>1, <3>2, LayoutFieldRead
    <3>4. QED
      BY <3>3 DEF unit
  <2>7. (IF given THEN <<n>> ELSE <<>>) = Given(l, 2)
    BY <2>1, <2>5 DEF Given
  <2>8. QED
    BY <2>6, <2>7
<1> HIDE DEF unit
<1>7. fillCephObjectSize(s, unit.next, env, dflt.objectSize)
        = FirstDefined(Given(l, 3), env, "cephObjectSize", dflt.objectSize)
  <2>1. fillCephObjectSize(s, unit.next, env, dflt.objectSize)
          = IF Rest3(l) = <<>> THEN FromEnv(env, "cephObjectSize", dflt.objectSize) ELSE stoull(Rest3(l))
    BY <1>2, <1>6, SizeRead
  <2>2. CASE 3 <= Len(l)
    <3>1. l[3] # <<>> /\ Fits("cephObjectSize", l[3])
      BY <1>1, <2>2, LayoutNumerals
    <3>2. stoull(l[3]) = Decimal(l[3])
      BY <3>1, NumeralRead DEF Fits
    <3>3. FirstDefined(<<l[3]>>, env, "cephObjectSize", dflt.objectSize) = Decimal(l[3])
      BY DEF FirstDefined, Meaning
    <3>4. QED
      BY <2>1, <2>2, <3>1, <3>2, <3>3 DEF Rest3, Given
  <2>3. CASE ~(3 <= Len(l))
    <3>1. FromEnv(env, "cephObjectSize", dflt.objectSize)
            = FirstDefined(<<>>, env, "cephObjectSize", dflt.objectSize)
      BY EnvRead DEF Keys
    <3>2. QED
      BY <2>1, <2>3, <3>1 DEF Rest3, Given
  <2>4. QED
    BY <2>2, <2>3
<1>8. QED
  BY <1>4, <1>5, <1>6, <1>7 DEF pool, nb, unit, RestAsDocumented

\* What a documented path is made of.
LEMMA FormParts ==
  ASSUME NEW form, IsDocumented(form)
  PROVE  /\ \/ form.user = <<>>
            \/ form.user # <<>> /\ form.user[1] \in Text /\ NoneIn(form.user[1], At) /\ NoneIn(form.user[1], Colon)
         /\ \/ form.pool = <<>> /\ form.layout = <<>>
            \/ /\ form.pool # <<>> /\ form.pool[1] \in Text /\ form.pool[1] # <<>>
               /\ Plain(form.pool[1]) /\ NoneIn(form.pool[1], Comma)
         /\ IsLayout(form.layout)
         /\ form.name \in Text /\ form.prefixed \in BOOLEAN
         /\ ~form.prefixed => form.user = <<>> /\ form.pool = <<>> /\ NoneIn(form.name, Colon)
<1>1. \A f : Len(f) = 1 => f # <<>>
  <2>1. Len(<<>>) = 0
    OBVIOUS
  <2>2. QED
    BY <2>1
<1>2. \A t : /\ NoneOf(t, {"@", ":"}) => NoneIn(t, At) /\ NoneIn(t, Colon)
             /\ NoneOf(t, {"@", ",", ":"}) => NoneIn(t, At) /\ NoneIn(t, Comma) /\ NoneIn(t, Colon)
             /\ NoneOf(t, {":"}) => NoneIn(t, Colon)
  BY Zenon DEF NoneOf, NoneIn, At, Comma, Colon
<1>3. \/ form.user = <<>>
      \/ form.user # <<>> /\ form.user[1] \in Text /\ NoneIn(form.user[1], At) /\ NoneIn(form.user[1], Colon)
  BY <1>1, <1>2, Zenon DEF IsDocumented
<1>4. \/ form.pool = <<>> /\ form.layout = <<>>
      \/ /\ form.pool # <<>> /\ form.pool[1] \in Text /\ form.pool[1] # <<>>
         /\ Plain(form.pool[1]) /\ NoneIn(form.pool[1], Comma)
  <2>1. \/ form.pool = <<>> /\ form.layout = <<>>
        \/ /\ Len(form.pool) = 1 /\ form.pool[1] \in Text \ {<<>>}
           /\ NoneOf(form.pool[1], {"@", ",", ":"})
    BY Zenon DEF IsDocumented
  <2>2. QED
    BY <1>1, <1>2, <2>1, TextOfTokens, Zenon DEF Plain
<1>5. IsLayout(form.layout)
  <2>1. PICK l : l = form.layout
    OBVIOUS
  <2>2. Len(l) \in 0 .. 3 /\ \A i \in 1 .. Len(l) :
             /\ l[i] \in Text \ {<<>>} /\ IsNumeral(l[i])
             /\ Decimal(l[i]) < IF i = 1 THEN NbInt ELSE NbLong
    BY <2>1, Zenon DEF IsDocumented
  <2>3. QED
    BY <2>1, <2>2 DEF IsLayout, Fits
<1>6. /\ form.name \in Text /\ form.prefixed \in BOOLEAN
      /\ ~form.prefixed => form.user = <<>> /\ form.pool = <<>> /\ NoneIn(form.name, Colon)
  BY <1>2, Zenon DEF IsDocumented
<1>7. QED
  BY <1>3, <1>4, <1>5, <1>6
\* The parameters of a documented path as they are written.
UserText(form) == IF form.user = <<>> THEN <<>> ELSE form.user[1] \o <<At>>
PoolText(form) == IF form.pool = <<>> THEN <<>> ELSE form.pool[1]
Prefix(form) == UserText(form) \o (PoolText(form) \o After0(form.layout))

LEMMA PrefixTexts ==
  ASSUME NEW form, IsDocumented(form)
  PROVE  /\ UserText(form) \in Seq(Tokens) /\ Plain(PoolText(form)) /\ Plain(After0(form.layout))
         /\ Prefix(form) \in Seq(Tokens) /\ NoneIn(Prefix(form), Colon)
         /\ NoneIn(PoolText(form), Comma)
         /\ PoolText(form) = <<>> <=> form.pool = <<>>
         /\ form.pool = <<>> => Len(form.layout) = 0
<1>1. Plain(After0(form.layout))
  BY FormParts, LayoutTexts
<1>2. /\ Plain(PoolText(form)) /\ NoneIn(PoolText(form), Comma)
      /\ PoolText(form) = <<>> <=> form.pool = <<>>
  <2>1. CASE form.pool = <<>>
    <3>1. PICK e : e = <<>> /\ Len(e) = 0
      BY JoinEmpty
    <3>2. NoneIn(e, Comma)
      BY <3>1 DEF NoneIn
    <3>3. QED
      BY <2>1, <3>1, <3>2, PlainEmpty DEF PoolText
  <2>2. CASE form.pool # <<>>
    BY <2>2, FormParts DEF PoolText
  <2>3. QED
    BY <2>1, <2>2
<1>3. UserText(form) \in Seq(Tokens) /\ NoneIn(UserText(form), Colon)
  <2>1. CASE form.user = <<>>
    BY <2>1, PlainEmpty DEF UserText, Plain
  <2>2. CASE form.user # <<>>
    <3>1. form.user[1] \in Seq(Tokens) /\ NoneIn(form.user[1], Colon)
      BY <2>2, FormParts, TextOfTokens
    <3>2. PICK c \in Seq(Tokens) : c = <<At>> /\ Len(c) = 1
      BY OneToken, Separators
    <3>3. c[1] = At
      BY <3>2
    <3>4. At # Colon
      BY Zenon DEF At, Colon
    <3>5. NoneIn(c, Colon)
      BY <3>2, <3>3, <3>4 DEF NoneIn
    <3>6. form.user[1] \o c \in Seq(Tokens) /\ NoneIn(form.user[1] \o c, Colon)
      BY <3>1, <3>5, Join, NoneInJoin
    <3>7. QED
      BY <2>2, <3>2, <3>6 DEF UserText
  <2>3. QED
    BY <2>1, <2>2
<1>4. Plain(PoolText(form) \o After0(form.layout))
  BY <1>1, <1>2, PlainJoin
<1>5. Prefix(form) \in Seq(Tokens) /\ NoneIn(Prefix(form), Colon)
  BY <1>3, <1>4, Join, NoneInJoin DEF Prefix, Plain
<1>6. form.pool = <<>> => Len(form.layout) = 0
  <2>1. Len(<<>>) = 0
    OBVIOUS
  <2>2. QED
    BY <2>1, FormParts
<1>7. QED
  BY <1>1, <1>2, <1>3, <1>5, <1>6

\* That is what Rendered makes of them, with the fields one by one.
LEMMA RenderedAs ==
  ASSUME NEW form, IsDocumented(form)
  PROVE  Rendered(form) = IF form.prefixed THEN Prefix(form) \o (<<Colon>> \o form.name) ELSE form.name
<1> DEFINE l == form.layout
           Field(i) == IF i <= Len(l) THEN <<Comma>> \o l[i] ELSE <<>>
           U == UserText(form)
           P == PoolText(form)
<1>1. Rendered(form) = IF form.prefixed THEN U \o P \o Field(1) \o Field(2) \o Field(3) \o <<Colon>> \o form.name
                       ELSE form.name
  BY Zenon DEF Rendered, UserText, PoolText, At, Comma, Colon
<1>2. IsLayout(l) /\ Len(l) \in 0 .. 3
  BY FormParts DEF IsLayout
<1>3. PICK F1, F2, F3 : F1 = Field(1) /\ F2 = Field(2) /\ F3 = Field(3)
  OBVIOUS
<1>4. PICK c \in Seq(Tokens) : c = <<Comma>>
  BY OneToken, Separators
<1>5. \A i \in 1 .. Len(l) : l[i] \in Seq(Tokens)
  BY <1>2, LayoutNumerals DEF Plain
<1>6. /\ Rest3(l) \in Seq(Tokens) /\ After2(l) \in Seq(Tokens) /\ Rest2(l) \in Seq(Tokens)
      /\ After1(l) \in Seq(Tokens) /\ Rest1(l) \in Seq(Tokens) /\ After0(l) \in Seq(Tokens)
  BY <1>2, LayoutTexts DEF Plain
<1>7. F3 = After2(l)
  BY <1>3 DEF After2, Rest3
<1>8. F2 \o F3 = After1(l) /\ F2 \in Seq(Tokens)
  <2>1. CASE 2 <= Len(l)
    <3>1. l[2] \in Seq(Tokens)
      BY <1>2, <1>5, <2>1
    <3>2. F2 = c \o l[2]
      BY <1>3, <1>4, <2>1
    <3>3. F2 \o F3 = c \o (l[2] \o F3) /\ F2 \in Seq(Tokens)
      <4>1. PICK n \in Seq(Tokens), f \in Seq(Tokens) : n = l[2] /\ f = F3
        BY <1>6, <1>7, <3>1
      <4>2. Associates(c, n, f)
        BY Associate
      <4>3. c \o n \in Seq(Tokens)
        BY Join
      <4>4. QED
        BY <3>2, <4>1, <4>2, <4>3 DEF Associates
    <3>4. QED
      BY <1>4, <1>7, <2>1, <3>3 DEF After1, Rest2
  <2>2. CASE ~(2 <= Len(l))
    <3>1. F2 = <<>> /\ F3 = <<>>
      BY <1>2, <1>3, <2>2
    <3>2. QED
      BY <2>2, <3>1, JoinEmpty DEF After1
  <2>3. QED
    BY <2>1, <2>2
<1>9. F1 \o (F2 \o F3) = After0(l) /\ F1 \in Seq(Tokens)
  <2>1. CASE 1 <= Len(l)
    <3>1. l[1] \in Seq(Tokens)
      BY <1>2, <1>5, <2>1
    <3>2. F1 = c \o l[1]
      BY <1>3, <1>4, <2>1
    <3>3. F1 \o After1(l) = c \o (l[1] \o After1(l)) /\ F1 \in Seq(Tokens)
      <4>1. PICK n \in Seq(Tokens), f \in Seq(Tokens) : n = l[1] /\ f = After1(l)
        BY <1>6, <3>1
      <4>2. Associates(c, n, f)
        BY Associate
      <4>3. c \o n \in Seq(Tokens)
        BY Join
      <4>4. QED
        BY <3>2, <4>1, <4>2, <4>3 DEF Associates
    <3>4. QED
      BY <1>4, <1>8, <2>1, <3>3 DEF After0, Rest1
  <2>2. CASE ~(1 <= Len(l))
    <3>1. F1 = <<>> /\ After1(l) = <<>>
      BY <1>2, <1>3, <2>2 DEF After1
    <3>2. QED
      BY <1>8, <2>2, <3>1, JoinEmpty DEF After0
  <2>3. QED
    BY <2>1, <2>2
<1>10. U \in Seq(Tokens) /\ P \in Seq(Tokens)
  BY PrefixTexts DEF Plain
<1>11. U \o P \o F1 \o F2 \o F3 = Prefix(form)
  <2>1. PICK u \in Seq(Tokens), p \in Seq(Tokens) : u = U /\ p = P
    BY <1>10
  <2>2. PICK f1 \in Seq(Tokens), f2 \in Seq(Tokens), f3 \in Seq(Tokens) :
          f1 = F1 /\ f2 = F2 /\ f3 = F3
    BY <1>6, <1>7, <1>8, <1>9
  <2>3. AssociateFive(u, p, f1, f2, f3)
    BY RejoinFive
  <2>4. f1 \o (f2 \o f3) = After0(l)
    BY <1>9, <2>2
  <2>5. u \o p \o f1 \o f2 \o f3 = u \o (p \o After0(l))
    BY <2>3, <2>4 DEF AssociateFive
  <2>6. QED
    BY <2>1, <2>2, <2>5, Zenon DEF Prefix
<1>12. (Prefix(form) \o <<Colon>>) \o form.name = Prefix(form) \o (<<Colon>> \o form.name)
  <2>1. PICK u \in Seq(Tokens), d \in Seq(Tokens), n \in Seq(Tokens) :
          u = Prefix(form) /\ d = <<Colon>> /\ n = form.name
    BY PrefixTexts, FormParts, TextOfTokens, OneToken, Separators
  <2>2. Associates(u, d, n)
    BY Associate
  <2>3. QED
    BY <2>1, <2>2 DEF Associates
<1>13. QED
  BY <1>1, <1>3, <1>11, <1>12

\* The parameters are read as they are documented.
LEMMA PrefixRead ==
  ASSUME NEW form, IsDocumented(form), NEW env, IsEnv(env), IsDocumentedEnv(env), NEW dflt, NEW namelib
  PROVE  fillCephFileParams(Prefix(form), env, dflt) = Documented(form, env, dflt, namelib).params
<1> DEFINE s == Prefix(form)
           l == form.layout
           p == PoolText(form)
           user == fillCephUserId(s, env, dflt.userId)
           pool == fillField(s, user.next, "cephPool", env, dflt.pool)
           nb == fillField(s, pool.next, "cephNbStripes", env, dflt.nbStripes)
           unit == fillField(s, nb.next, "cephStripeUnit", env, dflt.stripeUnit)
           size == fillCephObjectSize(s, unit.next, env, dflt.objectSize)
<1>1. /\ p \in Seq(Tokens) /\ NoneIn(p, Comma) /\ After0(l) \in Seq(Tokens) /\ Plain(p \o After0(l))
      /\ (p = <<>> <=> form.pool = <<>>) /\ (form.pool = <<>> => Len(l) = 0) /\ IsLayout(l)
  BY PrefixTexts, FormParts, PlainJoin DEF Plain
<1>2. /\ user.value = FirstDefined(form.user, env, "cephUserId", dflt.userId)
      /\ Left(s, user.next, p \o After0(l))
  <2>1. PICK r \in Seq(Tokens) : r = p \o After0(l) /\ NoneIn(r, At)
    BY <1>1 DEF Plain
  <2>2. CASE form.user = <<>>
    <3>1. s = r
      BY <2>1, <2>2, JoinEmpty DEF Prefix, UserText
    <3>2. /\ fillCephUserId(r, env, dflt.userId).value = FromEnv(env, "cephUserId", dflt.userId)
          /\ Left(r, fillCephUserId(r, env, dflt.userId).next, r)
      <4>1. NoneIn(r, At)
        BY <2>1
      <4>2. QED
        BY <4>1, NoUserRead
    <3>3. FromEnv(env, "cephUserId", dflt.userId) = FirstDefined(<<>>, env, "cephUserId", dflt.userId)
      BY EnvRead DEF Keys
    <3>4. QED
      BY <2>1, <2>2, <3>1, <3>2, <3>3
  <2>3. CASE form.user # <<>>
    <3>1. PICK u \in Seq(Tokens) : u = form.user[1] /\ NoneIn(u, At)
      BY <2>3, FormParts, TextOfTokens
    <3>2. s = u \o (<<At>> \o r)
      <4>1. s = (u \o <<At>>) \o r
        BY <2>1, <2>3, <3>1 DEF Prefix, UserText
      <4>2. Associates(u, <<At>>, r)
        BY OneToken, Separators, Associate
      <4>3. QED
        BY <4>1, <4>2 DEF Associates
    <3>3. user.value = u /\ Left(s, user.next, r)
      BY <3>1, <3>2, UserRead
    <3>4. FirstDefined(form.user, env, "cephUserId", dflt.userId) = u
      BY <2>3, <3>1 DEF FirstDefined, Meaning
    <3>5. QED
      BY <2>1, <3>3, <3>4
  <2>4. QED
    BY <2>2, <2>3
<1>3. /\ pool.value = FirstDefined(IF p = <<>> THEN <<>> ELSE <<p>>, env, "cephPool", dflt.pool)
      /\ nb.value = FirstDefined(Given(l, 1), env, "cephNbStripes", dflt.nbStripes)
      /\ unit.value = FirstDefined(Given(l, 2), env, "cephStripeUnit", dflt.stripeUnit)
      /\ size = FirstDefined(Given(l, 3), env, "cephObjectSize", dflt.objectSize)
  <2> HIDE DEF user, s, p, l
  <2>1. PICK offset : offset = user.next
    OBVIOUS
  <2>2. /\ IsLayout(l) /\ p \in Seq(Tokens) /\ NoneIn(p, Comma) /\ (p = <<>> => Len(l) = 0)
        /\ Left(s, offset, p \o After0(l))
    BY <1>1, <1>2, <2>1
  <2>3. RestAsDocumented(l, p, s, offset, env, dflt)
    BY <2>2, RestRead
  <2>4. QED
    BY <2>1, <2>3 DEF RestAsDocumented
<1>4. pool.value = FirstDefined(form.pool, env, "cephPool", dflt.pool)
  <2> HIDE DEF pool
  <2>1. CASE form.pool = <<>>
    BY <1>1, <1>3, <2>1
  <2>2. CASE form.pool # <<>>
    <3>1. FirstDefined(<<p>>, env, "cephPool", dflt.pool) = p /\ p = form.pool[1]
      BY <2>2 DEF FirstDefined, Meaning, PoolText
    <3>2. FirstDefined(form.pool, env, "cephPool", dflt.pool) = form.pool[1]
      BY <2>2 DEF FirstDefined, Meaning
    <3>3. QED
      BY <1>1, <1>3, <2>2, <3>1, <3>2
  <2>3. QED
    BY <2>1, <2>2
<1>5. fillCephFileParams(s, env, dflt) =
        [userId |-> user.value, pool |-> pool.value, nbStripes |-> nb.value,
         stripeUnit |-> unit.value, objectSize |-> size]
  BY DEF fillCephFileParams
<1>6. Documented(form, env, dflt, namelib).params =
        [userId |-> FirstDefined(form.user, env, "cephUserId", dflt.userId),
         pool |-> FirstDefined(form.pool, env, "cephPool", dflt.pool),
         nbStripes |-> FirstDefined(Given(l, 1), env, "cephNbStripes", dflt.nbStripes),
         stripeUnit |-> FirstDefined(Given(l, 2), env, "cephStripeUnit", dflt.stripeUnit),
         objectSize |-> FirstDefined(Given(l, 3), env, "cephObjectSize", dflt.objectSize)]
  BY DEF Documented, Given
<1> HIDE DEF user, pool, nb, unit, size
<1>7. QED
  BY <1>2, <1>3, <1>4, <1>5, <1>6
\* The path is cut at the colon of a prefix that has none itself.
LEMMA CutAtColon ==
  ASSUME NEW p \in Seq(Tokens), NEW n \in Seq(Tokens), NoneIn(p, Colon)
  PROVE  LET s == p \o (<<Colon>> \o n)
         IN  /\ Find(s, Colon, 0) = Len(p)
             /\ Between(s, 0, Len(p)) = p
             /\ Between(s, Len(p) + 1, Len(s)) = n
<1>1. PICK c \in Seq(Tokens) : c = <<Colon>> /\ Len(c) = 1
  BY OneToken, Separators
<1>2. PICK a \in Seq(Tokens) : a = c \o n /\ a # <<>> /\ a[1] = Colon /\ Len(a) = Len(n) + 1
  <2>1. /\ <<Colon>> \o n \in Seq(Tokens) /\ (<<Colon>> \o n)[1] = Colon
        /\ Len(<<Colon>> \o n) = Len(n) + 1
    BY Separators, WithSeparator
  <2>2. PICK b \in Seq(Tokens) : b = <<Colon>> \o n /\ b[1] = Colon /\ Len(b) = Len(n) + 1
    BY <2>1
  <2>3. b # <<>>
    <3>1. Len(n) \in Nat /\ (b = <<>> => Len(b) = 0)
      BY TextLength
    <3>2. QED
      BY <2>2, <3>1
  <2>4. QED
    BY <1>1, <2>2, <2>3
<1>3. PICK e \in Seq(Tokens) : e = <<>> /\ Len(e) = 0
  BY JoinEmpty
<1>4. PICK s \in Seq(Tokens) : s = p \o a /\ Len(s) = Len(p) + Len(a)
  BY Join
<1>5. e \o (p \o a) = s
  BY <1>3, <1>4, JoinEmpty
<1>6. Len(p) \in Nat /\ Len(n) \in Nat /\ Len(e) + Len(p) = Len(p)
  <2>1. Len(p) \in Nat /\ Len(n) \in Nat
    BY TextLength
  <2>2. QED
    BY <1>3, <2>1
<1>7. Find(s, Colon, 0) = Len(p)
  <2>1. \A i \in 1 .. Len(p) : p[i] # Colon
    BY DEF NoneIn
  <2>2. (a # <<>> => a[1] = Colon) /\ a # <<>> /\ Colon \in Tokens
    BY <1>2, Separators
  <2>3. PICK x : x = Find(e \o (p \o a), Colon, Len(e))
    OBVIOUS
  <2>4. x = IF a = <<>> THEN NPOS ELSE Len(e) + Len(p)
    BY <2>1, <2>2, <2>3, FoundAfter
  <2>5. x = Find(s, Colon, 0)
    BY <1>3, <1>5, <2>3
  <2>6. QED
    BY <1>6, <2>2, <2>4, <2>5
<1>8. Between(s, 0, Len(p)) = p
  <2>1. PICK x : x = Between(e \o (p \o a), Len(e), Len(e) + Len(p))
    OBVIOUS
  <2>2. x = p
    BY <2>1, MiddlePart
  <2>3. x = Between(s, 0, Len(p))
    BY <1>3, <1>5, <1>6, <2>1
  <2>4. QED
    BY <2>2, <2>3
<1>9. Between(s, Len(p) + 1, Len(s)) = n
  <2>1. PICK b \in Seq(Tokens) : b = p \o c /\ Len(b) = Len(p) + 1
    BY <1>1, Join
  <2>2. Between(b \o (n \o e), Len(b), Len(b) + Len(n)) = n
    BY MiddlePart
  <2>3. n \o e = n
    BY <1>3, JoinEmpty
  <2>4. b \o n = s
    <3>1. Associates(p, c, n)
      BY Associate
    <3>2. QED
      BY <1>2, <1>4, <2>1, <3>1 DEF Associates
  <2>5. Len(s) = Len(b) + Len(n)
    BY <1>2, <1>4, <1>6, <2>1
  <2>6. QED
    BY <2>1, <2>2, <2>3, <2>4, <2>5
<1>10. p \o (<<Colon>> \o n) = s
  BY <1>1, <1>2, <1>4
<1>11. QED
  BY <1>7, <1>8, <1>9, <1>10

\* Without a colon, all of the path is the name and there are no parameters.
LEMMA NoCut ==
  ASSUME NEW n \in Seq(Tokens), NoneIn(n, Colon)
  PROVE  /\ Find(n, Colon, 0) = NPOS
         /\ Between(n, 0, NPOS) = <<>>
         /\ Between(n, NPOS + 1, Len(n)) = n
<1>1. Len(n) \in Nat
  BY TextLength
<1>2. Find(n, Colon, 0) = NPOS
  <2>1. 0 \in 0 .. Len(n) /\ ~ \E i \in 0 + 1 .. Len(n) : n[i] = Colon
    BY <1>1 DEF NoneIn
  <2>2. QED
    BY <1>1, <2>1, FindSpec
<1>3. Between(n, 0, NPOS) = <<>>
  BY SubSeqEmpty DEF Between, NPOS
<1>4. Between(n, NPOS + 1, Len(n)) = n
  <2>1. NPOS + 1 + 1 = 1
    BY DEF NPOS
  <2>2. SubSeq(n, 1, Len(n)) = n
    BY SubSeqFull
  <2>3. QED
    BY <2>1, <2>2 DEF Between
<1>5. QED
  BY <1>2, <1>3, <1>4

\* A documented path gives the file that is documented.
LEMMA PathRead ==
  ASSUME NEW form, IsDocumented(form), NEW env, IsEnv(env), IsDocumentedEnv(env), NEW dflt, NEW namelib
  PROVE  fillCephFile(Rendered(form), env, dflt, namelib) = Documented(form, env, dflt, namelib)
<1> DEFINE doc == Documented(form, env, dflt, namelib)
<1>1. doc = [name |-> translateFileName(form.name, namelib), params |-> doc.params]
  <2>1. PICK params : doc = [name |-> translateFileName(form.name, namelib), params |-> params]
    BY DEF Documented, translateFileName
  <2> HIDE DEF doc
  <2>2. QED
    BY <2>1
<1>2. fillCephFileParams(Prefix(form), env, dflt) = doc.params
  BY PrefixRead
<1> HIDE DEF doc
<1>3. PICK p \in Seq(Tokens), n \in Seq(Tokens) :
        p = Prefix(form) /\ n = form.name /\ NoneIn(p, Colon) /\ (~form.prefixed => NoneIn(n, Colon))
  BY PrefixTexts, FormParts, TextOfTokens
<1>4. PICK s : s = Rendered(form)
  OBVIOUS
<1>5. s = IF form.prefixed THEN p \o (<<Colon>> \o n) ELSE n
  BY <1>3, <1>4, RenderedAs
<1>6. Between(s, 0, Find(s, Colon, 0)) = p /\ Between(s, Find(s, Colon, 0) + 1, Len(s)) = n
  <2>1. CASE form.prefixed
    <3>1. PICK t : t = p \o (<<Colon>> \o n)
      OBVIOUS
    <3>2. NoneIn(p, Colon)
      BY <1>3
    <3>3. Find(t, Colon, 0) = Len(p) /\ Between(t, 0, Len(p)) = p /\ Between(t, Len(p) + 1, Len(t)) = n
      BY <3>1, <3>2, CutAtColon
    <3>4. s = t
      BY <1>5, <2>1, <3>1
    <3>5. QED
      BY <3>3, <3>4
  <2>2. CASE ~form.prefixed
    <3>1. form.user = <<>> /\ form.pool = <<>> /\ form.layout = <<>>
      BY <2>2, FormParts
    <3>2. p = <<>>
      <4>1. After0(form.layout) = <<>>
        <5>1. Len(<<>>) = 0
          OBVIOUS
        <5>2. QED
          BY <3>1, <5>1 DEF After0
      <4>2. <<>> \o (<<>> \o <<>>) = <<>>
        BY JoinEmpty
      <4>3. QED
        BY <1>3, <3>1, <4>1, <4>2 DEF Prefix, UserText, PoolText
    <3>3. NoneIn(n, Colon) /\ s = n
      BY <1>3, <1>5, <2>2
    <3>4. QED
      BY <3>2, <3>3, NoCut
  <2>3. QED
    BY <2>1, <2>2, FormParts
<1>7. fillCephFile(s, env, dflt, namelib)
        = [name |-> translateFileName(n, namelib), params |-> fillCephFileParams(p, env, dflt)]
  BY <1>6 DEF fillCephFile, Colon
<1>8. QED
  BY <1>1, <1>2, <1>3, <1>4, <1>7 DEF doc

\* Whatever defaults and name library the start left behind, a path of the
\* documented syntax, with an environment whose numerals fit, gives the file that
\* the order of precedence says.
THEOREM DocumentedPathsParse == Spec => []ParsesAsDocumented
<1>1. ParsesAsDocumented
  <2> SUFFICES ASSUME NEW form \in Forms, NEW env \in Envs, IsDocumentedEnv(env)
               PROVE  fillCephFile(Rendered(form), env, g_defaultParams, g_namelib)
                        = Documented(form, env, g_defaultParams, g_namelib)
    BY DEF ParsesAsDocumented
  <2>1. IsDocumented(form) /\ IsEnv(env)
    BY ConfigAssumption DEF IsEnv
  <2>2. QED
    BY <2>1, PathRead
<1>2. QED
  BY <1>1, PTL
=============================================================================
