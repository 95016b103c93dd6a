----------------------------- MODULE MCArguments ------------------------------
(***************************************************************************)
(* An instance of Arguments for TLC: up to three tokens after the commands *)
(* whose arguments are optional, repeated or of several kinds, chosen so   *)
(* that each argument meets tokens that fit, that do not, and that must be *)
(* asked for.                                                              *)
(***************************************************************************)
EXTENDS Arguments

Upto(n, S) == UNION {[1..k -> S] : k \in 0..n}

After(c, n, S) == {<<c>> \o t : t \in Upto(n, S)}

MCLine ==
    After("search", 3, {"7", "word", "'q", "'open", "bob"})
    \cup After("send_file", 3, {"bob", "word", "'q", "'open"})
    \cup After("chat_info", 3, {"bob", "spy", "''", "word"})
    \cup After("group_upgrade", 2, {"bob", "user#id1", "spy", "''"})
    \cup After("chat_add_user", 3, {"bob", "@ann", "user#id1", "7"})
    \cup After("chat_create_group", 3, {"word", "'open", "@ann", "user#id1", "bob"})
    \cup After("history", 3, {"bob", "@ann", "7", "word", "''"})
    \cup After("reply", 3, {"7", "word", "'q", "'open"})
    \cup After("send_typing", 3, {"bob", "word", "7", "'open"})
    \cup After("fwd", 3, {"bob", "7", "@ann@7", "spy@7"})
    \cup After("help", 2, {"word", "''", "'open"})
    \cup After("msg", 3, {"bob", "word", "''"})
    \cup {<<"[x]">> \o l : l \in After("dialog_list", 2, {"7", "[x]", "word"})}
    \cup {<<"nonsense">>, << >>, <<"[x]">>, <<"'open">>}

MCWords == {"word", "nonsense"} \cup DOMAIN Table

MCKindOf ==
    [n \in {"bob", "spy", "@ann", "user#id1"} |->
        CASE n = "bob" -> "group" [] n = "spy" -> "secret" [] OTHER -> "user"]

MCInChat == [t \in {"@ann@7", "spy@7"} |-> IF t = "spy@7" THEN "spy" ELSE "@ann"]
===============================================================================
