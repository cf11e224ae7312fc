--------------------------- MODULE MCServerFiles ----------------------------
(* An instance of ServerFiles for TLC: two vanilla keys, one the server does not know. *)
EXTENDS ServerFiles

MCBackslash == "\\"
MCEscapable == {MCBackslash, ":", "=", "#", "!"}

MCDefaults == <<Pair("motd", <<"a">>), Pair("port", <<"b">>)>>

\* Copied from vanilla, with an escaped colon, a comment, a key twice and an escape nobody
\* knows; and an escaped backslash, before a letter and before a colon.
MCTexts ==
  {<<Pair("pvp", <<"a">>), Pair(NoKey, <<>>), Pair("port", <<"\\", ":">>),
     Pair("pvp", <<"\\", "n", "\\">>)>>,
   <<Pair("motd", <<"\\", "\\", "n">>), Pair("port", <<"\\", "\\", ":">>)>>}
=============================================================================
