---------------------------- MODULE CommandTable -----------------------------
(***************************************************************************)
(* The arguments of the commands of telegram-cli (interface.c: commands[]).*)
(* Commands with the same list of arguments are represented by one.  What  *)
(* completion alone tells apart is one type: file names and texts, and     *)
(* integers and floating-point numbers.                                    *)
(***************************************************************************)
EXTENDS Naturals, Sequences

Kinds == {"user", "group", "channel", "secret"}

(* No command asks for a secret chat: those that did are commented out.    *)
Types == {"user", "group", "channel", "chat", "msg_id", "number", "modifier",
          "command", "string", "media_type", "string_end"}

(* An argument of a command: what it is, and whether it may be left out or *)
(* repeated.                                                               *)
Desc == [type : Types, opt : BOOLEAN, period : BOOLEAN]

(* An argument that is required, that may be left out, that repeats.       *)
Arg(t) == [type |-> t, opt |-> FALSE, period |-> FALSE]
Opt(t) == [type |-> t, opt |-> TRUE, period |-> FALSE]
Many(t) == [type |-> t, opt |-> FALSE, period |-> TRUE]

Table ==
    [account_change_username |-> <<Arg("string")>>,
     account_change_name |-> <<Arg("string"), Arg("string")>>,
     add_contact |-> <<Arg("string"), Arg("string"), Arg("string")>>,
     account_change_photo |-> <<Arg("string_end")>>,
     block_user |-> <<Arg("user")>>,
     channel_get_members |-> <<Arg("channel"), Opt("number"), Opt("number")>>,
     channel_change_about |-> <<Arg("channel"), Arg("string_end")>>,
     channel_change_username |-> <<Arg("channel"), Arg("string")>>,
     channel_edit |-> <<Arg("channel"), Arg("string"), Arg("string")>>,
     chat_add_user |-> <<Arg("chat"), Arg("user"), Opt("number")>>,
     chat_change_role |-> <<Arg("chat"), Arg("user"), Arg("string")>>,
     chat_del_user |-> <<Arg("chat"), Arg("user")>>,
     chat_info |-> <<Arg("chat")>>,
     chat_create_group |-> <<Arg("string"), Many("user")>>,
     delete_msg |-> <<Arg("msg_id")>>,
     dialog_list |-> <<Opt("number"), Opt("number")>>,
     fwd |-> <<Arg("chat"), Arg("msg_id")>>,
     group_upgrade |-> <<Arg("group")>>,
     help |-> <<Opt("command")>>,
     history |-> <<Arg("chat"), Opt("number"), Opt("number")>>,
     load_file |-> <<Arg("number")>>,
     main_session |-> << >>,
     msg |-> <<Arg("chat"), Arg("string_end")>>,
     mute |-> <<Arg("chat"), Arg("number")>>,
     push_button |-> <<Arg("msg_id"), Arg("number")>>,
     reply |-> <<Arg("msg_id"), Arg("string_end")>>,
     reply_fwd |-> <<Arg("msg_id"), Arg("msg_id")>>,
     reply_location |-> <<Arg("msg_id"), Arg("number"), Arg("number")>>,
     search |-> <<Opt("chat"), Opt("number"), Opt("number"), Opt("number"),
                  Opt("number"), Arg("string_end")>>,
     send_file |-> <<Arg("chat"), Opt("media_type"), Arg("string"), Opt("string_end")>>,
     send_location |-> <<Arg("chat"), Arg("number"), Arg("number")>>,
     send_typing |-> <<Arg("chat"), Opt("string"), Opt("number")>>,
     start_bot |-> <<Arg("user"), Arg("chat"), Arg("string")>>,
     set |-> <<Arg("string"), Arg("number")>>]

(* Those that can be read: an argument that repeats ends with a token, and *)
(* modifiers, which come before the command, are never required.           *)
Description ==
    {D \in Desc : (D.period => D.type # "string_end") /\ (D.type = "modifier" => D.opt)}

(* Only the last argument repeats or takes the rest of the line; where the *)
(* rest may be left out, something optional comes before what is required. *)
ASSUME TableAssumption ==
    \A c \in DOMAIN Table :
        /\ Table[c] \in Seq(Description)
        /\ \A i \in 1..Len(Table[c]) :
              Table[c][i].period \/ Table[c][i].type = "string_end" => i = Len(Table[c])
        /\ \A i \in 1..Len(Table[c]) :
              Table[c][i].type = "string_end" /\ Table[c][i].opt =>
              \E j, k \in 1..Len(Table[c]) : j < k /\ Table[c][j].opt /\ ~Table[c][k].opt
==============================================================================
