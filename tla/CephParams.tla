----------------------------- MODULE CephParams -----------------------------
(***************************************************************************)
(* How a path becomes a CephFile: fillCephFile and the functions it calls, *)
(* with the conversions of numbers and the translation of names.           *)
(*                                                                         *)
(* A text is a sequence of tokens: the separators "@", "," and ":", the    *)
(* digits, the minus sign, and words that stand for anything else.  As in  *)
(* the code, positions in a text count from 0 and NPOS is none of them.    *)
(***************************************************************************)
EXTENDS Integers, Sequences, SequencesExt

CONSTANTS
  NbLong,    \* number of values of unsigned long (long): 2^64 in the code
  NbInt      \* number of values of unsigned int: 2^32 in the code

ASSUME ParamsAssumption == {NbLong, NbInt} \subseteq Nat /\ NbInt <= NbLong

Text == Seq(STRING)

NPOS == -1
Find(s, token, offset) ==
  SelectInSubSeq(s, offset + 1, Len(s), LAMBDA c : c = token) - 1
Between(s, from, to) == SubSeq(s, from + 1, to)

-----------------------------------------------------------------------------
(* Numbers                                                                 *)

Digits == <<"0", "1", "2", "3", "4", "5", "6", "7", "8", "9">>
IsNumeral(s) == \A i \in 1 .. Len(s) : s[i] \in ToSet(Digits)
DigitValue(c) == SelectInSeq(Digits, LAMBDA x : x = c) - 1
Decimal(s) ==
  LET upTo[n \in 0 .. Len(s)] == IF n = 0 THEN 0 ELSE 10 * upTo[n - 1] + DigitValue(s[n])
  IN  upTo[Len(s)]

\* The result of a conversion that throws; the exception goes through all of
\* the parser, so that a file with a number like that is never made.
Thrown == -1

\* strtoull takes an empty text for 0 and negates a number after a minus sign
\* as an unsigned one.  (It would also skip blanks and a plus sign.)
stoull(s) ==
  LET negative == Len(s) > 1 /\ s[1] = "-"
      numeral == IF negative THEN Tail(s) ELSE s
  IN  IF ~IsNumeral(numeral) THEN Thrown
      ELSE IF Decimal(numeral) >= NbLong THEN Thrown
      ELSE IF negative THEN (NbLong - Decimal(numeral)) % NbLong
      ELSE Decimal(numeral)

stoui(s) == IF stoull(s) < NbInt THEN stoull(s) ELSE Thrown

-----------------------------------------------------------------------------
(* The fields.  env is a function on the entries that are set; the one on   *)
(* the empty set is the null pointer.                                       *)

NoEnv == [key \in {} |-> <<>>]

\* What the text of a field becomes.
Converted(key, s) ==
  CASE key \in {"cephUserId", "cephPool"} -> s
    [] key = "cephNbStripes" -> stoui(s)
    [] key \in {"cephStripeUnit", "cephObjectSize"} -> stoull(s)

FromEnv(env, key, dflt) == IF key \in DOMAIN env THEN Converted(key, env[key]) ELSE dflt

userKeepsSign(params, env, dflt) ==
  LET atPos == Find(params, "@", 0)
  IN  [value |-> IF atPos # NPOS THEN Between(params, 0, atPos)
                 ELSE FromEnv(env, "cephUserId", dflt),
       next |-> IF atPos = NPOS THEN 0 ELSE atPos]

fillCephUserId(params, env, dflt) ==
  LET atPos == Find(params, "@", 0)
  IN  [value |-> IF atPos # NPOS THEN Between(params, 0, atPos)
                 ELSE FromEnv(env, "cephUserId", dflt),
       next |-> atPos + 1]

\* fillCephPool, fillCephNbStripes and fillCephStripeUnit: a field goes up to
\* the next comma or to the end.  It is missing when there is nothing left at
\* all, and empty, not missing, between two commas.
fillField(params, offset, key, env, dflt) ==
  LET comPos == Find(params, ",", offset)
      end == IF comPos = NPOS THEN Len(params) ELSE comPos
  IN  [value |-> IF comPos = NPOS /\ Len(params) = offset
                   THEN FromEnv(env, key, dflt)
                   ELSE Converted(key, Between(params, offset, end)),
       next |-> IF comPos = NPOS THEN end ELSE end + 1]

\* The last field takes all the rest, commas included.
fillCephObjectSize(params, offset, env, dflt) ==
  IF Len(params) = offset THEN FromEnv(env, "cephObjectSize", dflt)
  ELSE stoull(Between(params, offset, Len(params)))

fillCephFileParams(params, env, dflt) ==
  LET user == fillCephUserId(params, env, dflt.userId)
      pool == fillField(params, user.next, "cephPool", env, dflt.pool)
      nb == fillField(params, pool.next, "cephNbStripes", env, dflt.nbStripes)
      unit == fillField(params, nb.next, "cephStripeUnit", env, dflt.stripeUnit)
  IN  [userId |-> user.value, pool |-> pool.value, nbStripes |-> nb.value,
       stripeUnit |-> unit.value,
       objectSize |-> fillCephObjectSize(params, unit.next, env, dflt.objectSize)]

Throws(p) == Thrown \in {p.nbStripes, p.stripeUnit, p.objectSize}

\* A name that the library does not translate, or any without a library, is
\* used as it is.
translateFileName(logName, namelib) ==
  IF logName \in DOMAIN namelib THEN namelib[logName] ELSE logName

\* The parameters end at the first colon of the path.
fillCephFile(path, env, dflt, namelib) ==
  LET colonPos == Find(path, ":", 0)
  IN  [name |-> translateFileName(Between(path, colonPos + 1, Len(path)), namelib),
       params |-> fillCephFileParams(Between(path, 0, colonPos), env, dflt)]

-----------------------------------------------------------------------------
(* What the documentation says:                                             *)
(*   [[userId@]pool[,nbStripes[,stripeUnit[,objectSize]]]:]<actual path>    *)
(* A documented path is a record: user and pool are sequences of no text or *)
(* of one, layout one of up to three numerals, name the actual path.  The   *)
(* tests also leave out the pool alone.                                     *)

NoneOf(s, separators) == \A i \in 1 .. Len(s) : s[i] \notin separators

\* Without the prefix there is nothing but a name, which has no colon then.
\* Layouts come after a pool, and their numbers fit.
IsDocumented(form) ==
  /\ form.prefixed \in BOOLEAN
  /\ form.user = <<>> \/ (Len(form.user) = 1 /\ form.user[1] \in Text /\ NoneOf(form.user[1], {"@", ":"}))
  /\ \/ form.pool = <<>> /\ form.layout = <<>>
     \/ /\ Len(form.pool) = 1 /\ form.pool[1] \in Text \ {<<>>}
        /\ NoneOf(form.pool[1], {"@", ",", ":"})
  /\ Len(form.layout) \in 0 .. 3
  /\ \A i \in 1 .. Len(form.layout) :
       /\ form.layout[i] \in Text \ {<<>>} /\ IsNumeral(form.layout[i])
       /\ Decimal(form.layout[i]) < IF i = 1 THEN NbInt ELSE NbLong
  /\ form.name \in Text
  /\ ~form.prefixed => /\ form.user = <<>> /\ form.pool = <<>>
                       /\ NoneOf(form.name, {":"})

Rendered(form) ==
  LET user == IF form.user = <<>> THEN <<>> ELSE form.user[1] \o <<"@">>
      pool == IF form.pool = <<>> THEN <<>> ELSE form.pool[1]
      Field(i) == IF i <= Len(form.layout) THEN <<",">> \o form.layout[i] ELSE <<>>
      params == user \o pool \o Field(1) \o Field(2) \o Field(3)
  IN  IF form.prefixed THEN params \o <<":">> \o form.name ELSE form.name

\* What a text means in a field: itself, or the number it writes.
Meaning(key, s) == IF key \in {"cephUserId", "cephPool"} THEN s ELSE Decimal(s)

\* The entries for the layout are numerals that fit.
IsDocumentedEnv(env) ==
  \A key \in DOMAIN env \ {"cephUserId", "cephPool"} :
    IsNumeral(env[key]) /\ Decimal(env[key]) < IF key = "cephNbStripes" THEN NbInt ELSE NbLong

\* "First one defined wins": the path, the environment, the default.
FirstDefined(given, env, key, dflt) ==
  IF given # <<>> THEN Meaning(key, given[1])
  ELSE IF key \in DOMAIN env THEN Meaning(key, env[key]) ELSE dflt

Documented(form, env, dflt, namelib) ==
  LET Layout(i) == IF i <= Len(form.layout) THEN <<form.layout[i]>> ELSE <<>>
  IN  [name |-> IF form.name \in DOMAIN namelib THEN namelib[form.name] ELSE form.name,
       params |->
         [userId |-> FirstDefined(form.user, env, "cephUserId", dflt.userId),
          pool |-> FirstDefined(form.pool, env, "cephPool", dflt.pool),
          nbStripes |-> FirstDefined(Layout(1), env, "cephNbStripes", dflt.nbStripes),
          stripeUnit |-> FirstDefined(Layout(2), env, "cephStripeUnit", dflt.stripeUnit),
          objectSize |-> FirstDefined(Layout(3), env, "cephObjectSize", dflt.objectSize)]]
=============================================================================
