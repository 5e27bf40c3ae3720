----------------------------- MODULE CephConfig -----------------------------
(***************************************************************************)
(* How the plug-in gets its settings and what it makes of paths with them: *)
(* the two entry points XrdOssGetStorageSystem and XrdSysGetXAttrObject,   *)
(* which both set g_defaultParams, XrdCephOss::Configure, which reads the  *)
(* configuration file line by line, and then the opens, which parse a path *)
(* and take a striper from the dictionary by a key made of the parameters. *)
(*                                                                         *)
(* The framework loads the plug-ins one after the other, in any order, and *)
(* serves nobody before.  A step is one entry point, one line, one open.   *)
(***************************************************************************)
EXTENDS CephParams, FiniteSets

CONSTANTS
  Sites,          \* the ways an installation may be configured
  Paths, Envs,    \* the paths that are opened, and their environments
  Forms,          \* documented paths
  BuiltIn,        \* the parameters that are compiled in
  Libs,           \* Libs[l]: what the name library l translates
  MaxNbConnections,  \* the largest pool that may be asked for: 100 in the code
  MaxOpens,       \* bound on the number of opens
  None            \* no directive, no parameters, no word on the line

Params == [userId : Text, pool : Text, nbStripes : 0 .. NbInt - 1,
           stripeUnit : 0 .. NbLong - 1, objectSize : 0 .. NbLong - 1]

\* A word is missing on a line that has the key alone.  A key is a sequence of
\* tokens, of which the first may be a directive.
Line == [key : Text, word : Text \cup {None}]

ASSUME ConfigAssumption ==
  /\ MaxNbConnections \in Nat \ {0} /\ MaxOpens \in Nat
  /\ Sites \subseteq [oss : Text \cup {None}, xattr : Text \cup {None}, file : Seq(Line)]
  /\ None \notin Text
  /\ Paths \subseteq Text
  /\ \A env \in Envs : \A key \in DOMAIN env : env[key] \in Text
  /\ \A form \in Forms : IsDocumented(form)
  /\ BuiltIn \in Params
  /\ \A l \in DOMAIN Libs : \A name \in DOMAIN Libs[l] : Libs[l][name] \in Text

VARIABLES
  site,             \* the installation: parms of the directives, lines of the file
  oss, xattr,       \* how far the two plug-ins are
  lines,            \* what Configure has not read yet
  g_defaultParams,
  g_maxCephPoolIdx,
  g_namelib,
  stripers,         \* the dictionary: the parameters of the file that made each key
  opened            \* history of the opens: the file and the parameters it got

vars == <<site, oss, xattr, lines, g_defaultParams, g_maxCephPoolIdx, g_namelib,
          stripers, opened>>

NoLib == [name \in {} |-> <<>>]

-----------------------------------------------------------------------------
(* Loading                                                                 *)

defaultsReset(parms) ==
  LET new == fillCephFileParams(parms, NoEnv, BuiltIn)
  IN  g_defaultParams' = IF parms = None THEN BuiltIn
                         ELSE IF Throws(new) THEN g_defaultParams ELSE new

\* No parms, no change; parms that throw, no change either.  What they leave
\* out stays as the other plug-in, or the program, has set it.
ceph_posix_set_defaults(parms) ==
  LET new == fillCephFileParams(parms, NoEnv, g_defaultParams)
  IN  g_defaultParams' = IF parms = None THEN g_defaultParams
                         ELSE IF Throws(new) THEN g_defaultParams ELSE new

SyntaxError(parms) ==
  parms # None /\ Throws(fillCephFileParams(parms, NoEnv, g_defaultParams))

XrdOssGetStorageSystem ==
  /\ oss = "none"
  /\ ceph_posix_set_defaults(site.oss)
  /\ oss' = IF SyntaxError(site.oss) THEN "failed" ELSE "configuring"
  /\ lines' = IF SyntaxError(site.oss) THEN <<>> ELSE site.file
  /\ UNCHANGED <<site, xattr, g_maxCephPoolIdx, g_namelib, stripers, opened>>

XrdSysGetXAttrObject ==
  /\ xattr = "none"
  /\ oss # "configuring"
  /\ ceph_posix_set_defaults(site.xattr)
  /\ xattr' = IF SyntaxError(site.xattr) THEN "failed" ELSE "ready"
  /\ UNCHANGED <<site, oss, lines, g_maxCephPoolIdx, g_namelib, stripers, opened>>

-----------------------------------------------------------------------------
(* XrdCephOss::Configure, whose result the constructor does not look at, so  *)
(* that a file it cannot open or read to the end is one with fewer lines.   *)

\* strtoul reads the digits a word begins with, none being 0 and too many the
\* largest value.
strtoul(word) ==
  LET end == SelectInSeq(word, LAMBDA c : c \notin ToSet(Digits))
      value == Decimal(IF end = 0 THEN word ELSE Between(word, 0, end - 1))
  IN  IF value < NbLong THEN value ELSE NbLong - 1

validNumberOrZero(word) == word # None /\ strtoul(word) \in 0 .. MaxNbConnections

ValidNumber(word) == word # None /\ strtoul(word) \in 1 .. MaxNbConnections

\* strncmp looks at no more of a key than the directive has, so that a key that
\* goes on after that is taken for it.
Is(line, directive) == IsPrefix(<<directive>>, line.key)

\* A line that ends the reading: the rest of the file is not looked at.
Bad(line) ==
  \/ Is(line, "ceph.nbconnections") /\ ~ValidNumber(line.word)
  \/ Is(line, "ceph.namelib") /\ line.word = None

badLineSkipped ==
  /\ lines # <<>>
  /\ Bad(Head(lines))
  /\ lines' = Tail(lines)
  /\ UNCHANGED <<site, oss, xattr, g_defaultParams, g_maxCephPoolIdx, g_namelib, stripers, opened>>

BadLine ==
  /\ lines # <<>>
  /\ Bad(Head(lines))
  /\ lines' = <<>>
  /\ UNCHANGED <<site, oss, xattr, g_defaultParams, g_maxCephPoolIdx, g_namelib, stripers, opened>>

NbConnections ==
  /\ lines # <<>>
  /\ Is(Head(lines), "ceph.nbconnections")
  /\ ~Bad(Head(lines))
  /\ g_maxCephPoolIdx' = strtoul(Head(lines).word)
  /\ lines' = Tail(lines)
  /\ UNCHANGED <<site, oss, xattr, g_defaultParams, g_namelib, stripers, opened>>

Loaded(word) == IF word \in DOMAIN Libs THEN Libs[word] ELSE NoLib

\* A library that cannot be loaded leaves none, also where there was one.
NameLib ==
  /\ lines # <<>>
  /\ Is(Head(lines), "ceph.namelib")
  /\ ~Bad(Head(lines))
  /\ g_namelib' = Loaded(Head(lines).word)
  /\ lines' = Tail(lines)
  /\ UNCHANGED <<site, oss, xattr, g_defaultParams, g_maxCephPoolIdx, stripers, opened>>

OtherLine ==
  /\ lines # <<>>
  /\ \A directive \in {"ceph.nbconnections", "ceph.namelib"} : ~Is(Head(lines), directive)
  /\ lines' = Tail(lines)
  /\ UNCHANGED <<site, oss, xattr, g_defaultParams, g_maxCephPoolIdx, g_namelib, stripers, opened>>

Configured ==
  /\ oss = "configuring"
  /\ lines = <<>>
  /\ oss' = "ready"
  /\ UNCHANGED <<site, xattr, lines, g_defaultParams, g_maxCephPoolIdx, g_namelib, stripers, opened>>

-----------------------------------------------------------------------------
(* Opens, up to the striper they get                                       *)

keyWithoutSize(p) == <<p.userId, p.pool, p.nbStripes, p.stripeUnit>>

\* user@pool,nbStripes,stripeUnit,objectSize as one text: of user and pool, it
\* tells how they read with the sign between them, and not where each ends.
\* A number has no comma, so that the three numbers can be told apart.
Key(p) == <<p.userId \o <<"@">> \o p.pool, p.nbStripes, p.stripeUnit, p.objectSize>>

\* The plug-ins of the directives are there; without one, there is none to wait for.
Serving == oss = "ready" /\ xattr \in {"ready", "absent"}

\* A path that throws is refused and changes nothing.
Open(path, env) ==
  LET file == fillCephFile(path, env, g_defaultParams, g_namelib)
      key == Key(file.params)
      served == IF key \in DOMAIN stripers THEN stripers[key] ELSE file.params
  IN  /\ Serving
      /\ Cardinality(opened) < MaxOpens
      /\ ~Throws(file.params)
      /\ stripers' = [k \in DOMAIN stripers \cup {key} |->
                        IF k \in DOMAIN stripers THEN stripers[k] ELSE file.params]
      /\ opened' = opened \cup {[file |-> file, served |-> served]}
      /\ UNCHANGED <<site, oss, xattr, lines, g_defaultParams, g_maxCephPoolIdx, g_namelib>>

-----------------------------------------------------------------------------
Init ==
  /\ site \in Sites
  /\ oss = "none"
  /\ xattr \in {"none", "absent"}
  /\ xattr = "absent" => site.xattr = None
  /\ lines = <<>>
  /\ g_defaultParams = BuiltIn
  /\ g_maxCephPoolIdx = 1
  /\ g_namelib = NoLib
  /\ stripers = [k \in {} |-> BuiltIn]
  /\ opened = {}

Next ==
  \/ XrdOssGetStorageSystem \/ XrdSysGetXAttrObject
  \/ BadLine \/ NbConnections \/ NameLib \/ OtherLine \/ Configured
  \/ \E path \in Paths, env \in Envs : Open(path, env)

Spec == Init /\ [][Next]_vars

-----------------------------------------------------------------------------
(* Properties                                                              *)

\* Nothing that threw has become a default or a striper, and the pool of
\* connections has a size between 1 and the limit, which CephPool assumes.
TypeOK ==
  /\ site \in Sites
  /\ oss \in {"none", "configuring", "ready", "failed"}
  /\ xattr \in {"none", "absent", "ready", "failed"}
  /\ g_defaultParams \in Params
  /\ g_maxCephPoolIdx \in 1 .. MaxNbConnections
  /\ \A name \in DOMAIN g_namelib : g_namelib[name] \in Text
  /\ \A k \in DOMAIN stripers : stripers[k] \in Params
  /\ \A o \in opened : o.file.params \in Params /\ o.served \in Params

\* With whatever defaults and name library the start left behind, a path of
\* the documented syntax gives the file that the order of precedence says:
\* "First one defined wins", the path, the environment, the directive, the
\* compiled defaults.
ParsesAsDocumented ==
  Serving /\ opened = {} =>
    \A form \in Forms : \A env \in {e \in Envs : IsDocumentedEnv(e)} :
      fillCephFile(Rendered(form), env, g_defaultParams, g_namelib)
        = Documented(form, env, g_defaultParams, g_namelib)

\* "In case one of the two only has a default, it will be applied for both
\* plugins", whichever of them is loaded first, and when both have the same.
OneDefaultForBoth ==
  Serving /\ (site.oss = None \/ site.xattr \in {None, site.oss}) =>
    LET parms == IF site.oss # None THEN site.oss ELSE site.xattr
    IN  g_defaultParams = IF parms = None THEN BuiltIn
                          ELSE fillCephFileParams(parms, NoEnv, BuiltIn)

\* The lines before the first bad one have been obeyed, the last of each kind
\* being the one that counts, and none of the others, although the server
\* starts in either case.
ObeysLinesBeforeError ==
  oss = "ready" =>
    LET end == SelectInSeq(site.file, Bad)
        read == IF end = 0 THEN 1 .. Len(site.file) ELSE 1 .. end - 1
        Obeyed(directive) == {i \in read : Is(site.file[i], directive)}
        word(directive) == site.file[Max(Obeyed(directive))].word
    IN  /\ g_maxCephPoolIdx = IF Obeyed("ceph.nbconnections") = {} THEN 1
                              ELSE strtoul(word("ceph.nbconnections"))
        /\ g_namelib = IF Obeyed("ceph.namelib") = {} THEN NoLib ELSE Loaded(word("ceph.namelib"))

\* An open gets a striper made for its own user, pool and layout, or for ones
\* that differ only in where the user ends: that takes a user with an "@",
\* which a path cannot give, but the environment can.
StriperServesItsFile ==
  \A o \in opened :
    o.served = o.file.params \/ "@" \in ToSet(o.file.params.userId \o o.served.userId)
=============================================================================
