----------------------------- MODULE MC_Config -----------------------------
(* Installations, paths and environments for the run of CephConfig.  Words    *)
(* are "u" and "v" for users, "p" and "q" for pools, "f" and "g" for names.   *)
EXTENDS CephConfig, TLC

Builtin == [userId |-> <<"admin">>, pool |-> <<"default">>, nbStripes |-> 1,
            stripeUnit |-> 4, objectSize |-> 4]

NewLine(directive, word) == [key |-> <<directive>>, word |-> word]
LongerKey(directive, word) == [key |-> <<directive, "s">>, word |-> word]

\* None, a full one, a partial one, and one that throws.
Directives == {None, <<"u", "@", "p", ",", "2", ",", "8">>, <<"@", "q">>, <<"p", ",", "x">>}

\* No file; a pool size and a library; a size that is too large before the
\* library; sizes that count once each, with a library that does not load; a
\* library that loads and another that does not; a line without a word; keys
\* that are longer than the directive they are taken for.
Files ==
  {<<>>,
   <<NewLine("ceph.nbconnections", <<"2">>), NewLine("ceph.namelib", <<"lib">>)>>,
   <<NewLine("ceph.nbconnections", <<"1", "1">>), NewLine("ceph.namelib", <<"lib">>)>>,
   <<NewLine("ceph.nbconnections", <<"3", "x">>), NewLine("oss.other", <<"x">>),
     NewLine("ceph.nbconnections", <<"0">>), NewLine("ceph.nbconnections", <<"5">>)>>,
   <<NewLine("ceph.namelib", <<"lib">>), NewLine("ceph.namelib", <<"nolib">>)>>,
   <<NewLine("ceph.namelib", <<"lib">>), NewLine("ceph.namelib", None), NewLine("ceph.nbconnections", <<"2">>)>>,
   <<NewLine("ceph.nbconnections", <<"2">>), LongerKey("ceph.nbconnections", <<"3">>),
     LongerKey("ceph.namelib", <<"lib">>)>>}

Installations == [oss : Directives, xattr : Directives, file : Files]

\* Translates one name and refuses the others.
Libraries == [l \in {<<"lib">>} |-> [name \in {<<"f">>} |-> <<"g">>]]

Layouts == {<<>>, <<<<"2">>>>, <<<<"2">>, <<"1", "6">>>>, <<<<"0">>, <<"8">>, <<"1", "6">>>>}

AllForms ==
  LET Forms_(user, pool, layout, prefixed, name) ==
        [user : user, pool : pool, layout : layout, prefixed : prefixed, name : name]
      User == {<<>>, <<<<>>>>, <<<<"u">>>>}
      Name == {<<"f">>, <<"f", "@", "v">>, <<"g", ",", "2">>}
  IN  Forms_(User, {<<<<"p">>>>}, Layouts, {TRUE}, Name \cup {<<"f", ":", "g">>})
      \cup Forms_(User, {<<>>}, {<<>>}, {TRUE}, Name)
      \cup Forms_({<<>>}, {<<>>}, {<<>>}, {FALSE}, Name)

\* Paths in the syntax, the last two for the same pool in different layouts;
\* and paths that are not: an empty field, a negative number for each width, a
\* fifth field, and an "@" in the pool.
OpenedPaths ==
  {<<"f">>, <<"p", ":", "f">>, <<"u", "@", "p", ":", "f">>, <<"p", ",", "2", ",", "8", ":", "f">>,
   <<"p", ",", "2", ",", "8", ",", "1", "6", ":", "f">>,
   <<"p", ",", ",", "8", ":", "f">>,
   <<"p", ",", "-", "2", ":", "f">>, <<"p", ",", "2", ",", "-", "2", ":", "f">>,
   <<"p", ",", "2", ",", "8", ",", "8", ",", "8", ":", "f">>,
   <<"u", "@", "v", "@", "p", ":", "f">>}

\* No entries, entries of each kind, a user that makes keys ambiguous, and an
\* entry that throws where it is used.
Environments ==
  {NoEnv,
   [k \in {"cephUserId"} |-> <<"u", "@", "v">>],
   [k \in {"cephPool", "cephStripeUnit"} |-> IF k = "cephPool" THEN <<"q">> ELSE <<"1", "6">>],
   [k \in {"cephNbStripes", "cephObjectSize"} |-> <<"8">>],
   [k \in {"cephNbStripes"} |-> <<"x">>]}
=============================================================================
